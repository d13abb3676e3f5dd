\* One opening and two documents.
SPECIFICATION Spec
CONSTANTS
    MaxOpens = 1
    MaxDocuments = 2
    b1 = b1
    Nobody = Nobody
    Businesses <- MCBusinesses
    Pages <- MCPages
INVARIANT GuideShowsCurrentPage
PROPERTY PageIsGuided
CHECK_DEADLOCK FALSE
