-------------------------- MODULE MCSetupAssistant --------------------------
(* One business.  Left out are the pages that are told whatever the        *)
(* controller waits for or remembers, or as others are.                    *)
EXTENDS SetupAssistant

CONSTANTS b1

MCBusinesses == {b1}

MCPages == {Verification, Portal, Business(b1), Unknown}

=============================================================================
