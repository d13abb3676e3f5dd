------------------------ MODULE SetupAssistantProofs ------------------------
(***************************************************************************)
(* Proofs about SetupAssistant, for any number of openings, documents and  *)
(* businesses: what the guide tells comes from the page that is shown, and *)
(* a page that is told as itself is not muted.                             *)
(***************************************************************************)
EXTENDS SetupAssistant, TLAPS

-----------------------------------------------------------------------------
(* Invariants.                                                             *)

\* While a document is fetched the guide is silent and no probe reaches the page,
\* unless the load event of the page came late.
SilentOK ==
    /\ browser = "ready" => fetching = 0 \/ leaving.came
    /\ fetching # 0 /\ ~leaving.came => call = NoCall /\ shown = Nothing /\ candidate = NoCandidate
    /\ fetching # 0 /\ page.doc # fetching /\ leaving.came => leaving.doc = page.doc

\* Work that is not dropped belongs to the page, or to one that was left while the
\* page has not loaded.
CallOK ==
    /\ call # NoCall =>
           call.doc = page.doc \/ (Late(call.doc) /\ (fetching = page.doc \/ browser # "ready"))
    /\ call.muted => IsSettling \/ afterSignIn

GuideInv == SilentOK /\ CallOK /\ GuideShowsCurrentPage /\ LandingsAreNotMuted

\* The types, one variable at a time.
Names == {"none", "login", "submitted", "verification", "portal", "business", "enabled", "off-flow",
          "settling"}

PlacesOK ==
    /\ generation \in 0 .. MaxOpens /\ opened \in 0 .. MaxOpens
    /\ browser \in {"closed", "creating", "loading", "ready", "startup-timeout", "recoverable-error"}
    /\ fetching \in {0} \cup Documents /\ started \in {0} \cup Documents
    /\ timers \subseteq {"dom", "settle", "off"}
    /\ last \in {"signing-in", "other"}
    /\ offFlow \in {"off", "waiting", "elapsed"}

SwitchesOK ==
    /\ watchdog \in BOOLEAN /\ firstLoad \in BOOLEAN /\ observed \in BOOLEAN
    /\ afterSignIn \in BOOLEAN /\ assisting \in BOOLEAN /\ unavailable \in BOOLEAN

PagesOK ==
    /\ page \in [doc : {0} \cup Documents, content : Contents]
    /\ leaving \in [doc : {0} \cup Documents, came : BOOLEAN]
    /\ call \in [doc : {0} \cup Documents, saw : Contents, muted : BOOLEAN]
    /\ settling \in [time : {"off", "fresh", "quiet", "over"}, saw : {"none", "portal", "business"}]
    /\ shown \in [doc : {0} \cup Documents, muted : BOOLEAN, state : Names]
    /\ candidate \in [doc : {0} \cup Documents, number : Businesses \cup {Nobody}]

-----------------------------------------------------------------------------
(* The steps.                                                              *)

LEMMA GuideStep ==
    ASSUME GuideInv, [Next]_vars
    PROVE  GuideInv'
<1> USE BusinessAssumption
       DEF GuideInv, SilentOK, CallOK, GuideShowsCurrentPage, LandingsAreNotMuted, NoCall, Nothing,
           NoCandidate, NotSettling, IsSettling, IsOpen, Blank, NotLeaving, Unfinished, Owed, Late, Immediate, ClearGuide, EmptyView, CallGuide,
           AgainUnmuted, Tell, KnownAgain, Returns, viewer, chromium, guide, patience, told
<1>1. CASE Open
  BY <1>1 DEF Open
<1>2. CASE OpenFails
  BY <1>2 DEF OpenFails
<1>3. CASE Close
  BY <1>3 DEF Close
<1>4. CASE WatchdogFires
  BY <1>4 DEF WatchdogFires
<1>5. CASE StartNavigation
  BY <1>5 DEF StartNavigation, StartsFetching, Loading
<1>6. CASE GoBack
  BY <1>6 DEF GoBack
<1>7. CASE Commit
  BY <1>7 DEF Commit
<1>8. CASE FinishLoad
  BY <1>8 DEF FinishLoad, PageIsUsable
<1>26. CASE FinishLoadLate
  <2>1. leaving = [doc |-> page.doc, came |-> FALSE]
    BY <1>26 DEF FinishLoadLate, Unfinished
  <2>2. leaving' = [doc |-> page.doc, came |-> TRUE]
    BY <1>26, <2>1 DEF FinishLoadLate
  <2> QED
    BY <1>26, <2>1, <2>2 DEF FinishLoadLate, PageIsUsable
<1>9. CASE AbortLoad
  BY <1>9 DEF AbortLoad
<1>10. CASE FailLoad
  BY <1>10 DEF FailLoad
<1>11. CASE DomChanges
  BY <1>11 DEF DomChanges
<1>12. CASE QuietPasses
  BY <1>12 DEF QuietPasses
<1>13. CASE MaximumPasses
  BY <1>13 DEF MaximumPasses
<1>14. CASE OffFlowPasses
  BY <1>14 DEF OffFlowPasses
<1>15. ASSUME NEW kind \in {"dom", "settle", "off"}, Probe(kind)
       PROVE  GuideInv'
  <2>1. CASE browser = "ready"
    <3>1. CallGuide /\ UNCHANGED <<viewer, chromium, patience, told>>
      BY <1>15, <2>1 DEF Probe
    <3> QED
      BY <2>1, <3>1
  <2>2. CASE browser # "ready"
    BY <1>15, <2>2 DEF Probe
  <2> QED
    BY <2>1, <2>2
<1>16. CASE Ask
  BY <1>16 DEF Ask
<1>17. CASE SignInContinues
  BY <1>17 DEF SignInContinues
<1>18. CASE LandingSettles
  BY <1>18 DEF LandingSettles, LandingReturns, MustSettle, Decision
<1>19. CASE LandingHasSettled
  BY <1>19 DEF LandingHasSettled, LandingReturns
<1>20. CASE LandingIsAssisted
  <2>1. CASE browser = "ready"
    <3>1. CallGuide /\ UNCHANGED <<viewer, chromium, settling, afterSignIn, offFlow, told>>
      BY <1>20, <2>1 DEF LandingIsAssisted
    <3> QED
      BY <2>1, <3>1
  <2>2. CASE browser # "ready"
    BY <1>20, <2>2 DEF LandingIsAssisted
  <2> QED
    BY <2>1, <2>2
<1>21. CASE UnknownWaits
  BY <1>21 DEF UnknownWaits
<1>22. CASE UnknownIsOffFlow
  BY <1>22 DEF UnknownIsOffFlow
<1>23. CASE PageIsTold
  BY <1>23 DEF PageIsTold, LandingReturns, MustSettle
<1>24. CASE GuideFails
  BY <1>24 DEF GuideFails
<1>25. CASE UNCHANGED vars
  BY <1>25 DEF vars
<1> HIDE DEF GuideInv, SilentOK, CallOK, GuideShowsCurrentPage, LandingsAreNotMuted, NoCall, Nothing,
           NoCandidate, NotSettling, IsSettling, IsOpen, Blank, NotLeaving, Unfinished, Owed, Late, Immediate, ClearGuide, EmptyView, CallGuide,
           AgainUnmuted, Tell, KnownAgain, Returns, viewer, chromium, guide, patience, told
<1> QED
  BY <1>1, <1>2, <1>3, <1>4, <1>5, <1>6, <1>7, <1>8, <1>9, <1>10, <1>11, <1>12, <1>13,
     <1>14, <1>15, <1>16, <1>17, <1>18, <1>19, <1>20, <1>21, <1>22, <1>23, <1>24, <1>25, <1>26
  DEF Next, GuideReturns

\* An unknown page is a content, and every content is of a business or of nobody.
LEMMA ContentsAre ==
    /\ Unknown \in Contents
    /\ \A content \in Contents : content.business \in Businesses \cup {Nobody}
  BY DEF Contents, Unknown, Login, Submitted, Verification, Portal, Business, TrackingEnabled

\* Every step keeps the types of the window, the page and the timers.
LEMMA PlacesStep ==
    ASSUME PlacesOK, [Next]_vars
    PROVE  PlacesOK'
<1> USE OpensAssumption, DocumentsAssumption
       DEF PlacesOK, Documents, ClearGuide, EmptyView, CallGuide, AgainUnmuted, Tell, KnownAgain,
           viewer, chromium, guide, patience, told
<1>1. CASE Open
  BY <1>1 DEF Open
<1>2. CASE OpenFails
  BY <1>2 DEF OpenFails
<1>3. CASE Close
  BY <1>3 DEF Close
<1>4. CASE WatchdogFires
  BY <1>4 DEF WatchdogFires
<1>5. CASE StartNavigation
  BY <1>5 DEF StartNavigation, StartsFetching, Loading
<1>6. CASE GoBack
  BY <1>6 DEF GoBack
<1>7. CASE Commit
  BY <1>7 DEF Commit
<1>8. CASE FinishLoad
  BY <1>8 DEF FinishLoad, PageIsUsable
<1>26. CASE FinishLoadLate
  BY <1>26 DEF FinishLoadLate, PageIsUsable
<1>9. CASE AbortLoad
  BY <1>9 DEF AbortLoad
<1>10. CASE FailLoad
  BY <1>10 DEF FailLoad
<1>11. CASE DomChanges
  BY <1>11 DEF DomChanges
<1>12. CASE QuietPasses
  BY <1>12 DEF QuietPasses
<1>13. CASE MaximumPasses
  BY <1>13 DEF MaximumPasses
<1>14. CASE OffFlowPasses
  BY <1>14 DEF OffFlowPasses
<1>15. ASSUME NEW kind \in {"dom", "settle", "off"}, Probe(kind)
       PROVE  PlacesOK'
  <2>1. timers' \subseteq {"dom", "settle", "off"} /\ UNCHANGED <<viewer, chromium, patience>>
    BY <1>15 DEF Probe
  <2> QED
    BY <2>1
<1>16. CASE Ask
  BY <1>16 DEF Ask
<1>17. CASE SignInContinues
  BY <1>17 DEF SignInContinues
<1>18. CASE LandingSettles
  BY <1>18 DEF LandingSettles
<1>19. CASE LandingHasSettled
  BY <1>19 DEF LandingHasSettled
<1>20. CASE LandingIsAssisted
  BY <1>20 DEF LandingIsAssisted
<1>21. CASE UnknownWaits
  BY <1>21 DEF UnknownWaits
<1>22. CASE UnknownIsOffFlow
  BY <1>22 DEF UnknownIsOffFlow
<1>23. CASE PageIsTold
  BY <1>23 DEF PageIsTold
<1>24. CASE GuideFails
  BY <1>24 DEF GuideFails
<1>25. CASE UNCHANGED vars
  BY <1>25 DEF vars
<1> HIDE DEF PlacesOK, Documents, ClearGuide, EmptyView, CallGuide, AgainUnmuted, Tell, KnownAgain,
           viewer, chromium, guide, patience, told
<1> QED
  BY <1>1, <1>2, <1>3, <1>4, <1>5, <1>6, <1>7, <1>8, <1>9, <1>10, <1>11, <1>12, <1>13,
     <1>14, <1>15, <1>16, <1>17, <1>18, <1>19, <1>20, <1>21, <1>22, <1>23, <1>24, <1>25, <1>26
  DEF Next, GuideReturns

\* Every step keeps the types of the switches.
LEMMA SwitchesStep ==
    ASSUME SwitchesOK, [Next]_vars
    PROVE  SwitchesOK'
<1> USE DEF SwitchesOK, ClearGuide, EmptyView, CallGuide, AgainUnmuted, Tell, KnownAgain,
           viewer, chromium, guide, patience, told
<1>1. CASE Open
  BY <1>1 DEF Open
<1>2. CASE OpenFails
  BY <1>2 DEF OpenFails
<1>3. CASE Close
  BY <1>3 DEF Close
<1>4. CASE WatchdogFires
  BY <1>4 DEF WatchdogFires
<1>5. CASE StartNavigation
  BY <1>5 DEF StartNavigation, StartsFetching
<1>6. CASE GoBack
  BY <1>6 DEF GoBack
<1>7. CASE Commit
  BY <1>7 DEF Commit
<1>8. CASE FinishLoad
  BY <1>8 DEF FinishLoad, PageIsUsable
<1>26. CASE FinishLoadLate
  BY <1>26 DEF FinishLoadLate, PageIsUsable
<1>9. CASE AbortLoad
  BY <1>9 DEF AbortLoad
<1>10. CASE FailLoad
  BY <1>10 DEF FailLoad
<1>11. CASE DomChanges
  BY <1>11 DEF DomChanges
<1>12. CASE QuietPasses
  BY <1>12 DEF QuietPasses
<1>13. CASE MaximumPasses
  BY <1>13 DEF MaximumPasses
<1>14. CASE OffFlowPasses
  BY <1>14 DEF OffFlowPasses
<1>15. ASSUME NEW kind \in {"dom", "settle", "off"}, Probe(kind)
       PROVE  SwitchesOK'
  <2>1. UNCHANGED <<viewer, chromium, patience, told>>
    BY <1>15 DEF Probe
  <2> QED
    BY <2>1
<1>16. CASE Ask
  BY <1>16 DEF Ask
<1>17. CASE SignInContinues
  BY <1>17 DEF SignInContinues
<1>18. CASE LandingSettles
  BY <1>18 DEF LandingSettles
<1>19. CASE LandingHasSettled
  BY <1>19 DEF LandingHasSettled
<1>20. CASE LandingIsAssisted
  BY <1>20 DEF LandingIsAssisted
<1>21. CASE UnknownWaits
  BY <1>21 DEF UnknownWaits
<1>22. CASE UnknownIsOffFlow
  BY <1>22 DEF UnknownIsOffFlow
<1>23. CASE PageIsTold
  BY <1>23 DEF PageIsTold
<1>24. CASE GuideFails
  BY <1>24 DEF GuideFails
<1>25. CASE UNCHANGED vars
  BY <1>25 DEF vars
<1> HIDE DEF SwitchesOK, ClearGuide, EmptyView, CallGuide, AgainUnmuted, Tell, KnownAgain,
           viewer, chromium, guide, patience, told
<1> QED
  BY <1>1, <1>2, <1>3, <1>4, <1>5, <1>6, <1>7, <1>8, <1>9, <1>10, <1>11, <1>12, <1>13,
     <1>14, <1>15, <1>16, <1>17, <1>18, <1>19, <1>20, <1>21, <1>22, <1>23, <1>24, <1>25, <1>26
  DEF Next, GuideReturns

\* Every step keeps the types of what was read from a page.
LEMMA PagesStep ==
    ASSUME PlacesOK, SwitchesOK, PagesOK, [Next]_vars
    PROVE  PagesOK'
<1> USE ContentsAre, PagesAssumption
       DEF PagesOK, PlacesOK, SwitchesOK, Names, NoCall, Nothing, NoCandidate, NotSettling, IsSettling, Blank, NotLeaving, ClearGuide,
           EmptyView, CallGuide, AgainUnmuted, Tell, Returns, viewer, chromium, guide, patience, told
<1>1. CASE Open
  BY <1>1 DEF Open
<1>2. CASE OpenFails
  BY <1>2 DEF OpenFails
<1>3. CASE Close
  BY <1>3 DEF Close
<1>4. CASE WatchdogFires
  BY <1>4 DEF WatchdogFires
<1>5. CASE StartNavigation
  BY <1>5 DEF StartNavigation, StartsFetching
<1>6. CASE GoBack
  BY <1>6 DEF GoBack
<1>7. CASE Commit
  BY <1>7 DEF Commit
<1>8. CASE FinishLoad
  BY <1>8 DEF FinishLoad, PageIsUsable
<1>26. CASE FinishLoadLate
  <2>1. leaving' \in [doc : {0} \cup Documents, came : BOOLEAN]
    BY <1>26 DEF FinishLoadLate
  <2>2. call' \in [doc : {0} \cup Documents, saw : Contents, muted : BOOLEAN]
    BY <1>26 DEF FinishLoadLate, PageIsUsable
  <2> QED
    BY <1>26, <2>1, <2>2 DEF FinishLoadLate, PageIsUsable
<1>9. CASE AbortLoad
  BY <1>9 DEF AbortLoad
<1>10. CASE FailLoad
  BY <1>10 DEF FailLoad
<1>11. CASE DomChanges
  BY <1>11 DEF DomChanges
<1>12. CASE QuietPasses
  BY <1>12 DEF QuietPasses
<1>13. CASE MaximumPasses
  BY <1>13 DEF MaximumPasses
<1>14. CASE OffFlowPasses
  BY <1>14 DEF OffFlowPasses
<1>15. ASSUME NEW kind \in {"dom", "settle", "off"}, Probe(kind)
       PROVE  PagesOK'
  <2>1. (CallGuide \/ UNCHANGED call) /\ UNCHANGED <<viewer, chromium, patience, told>>
    BY <1>15 DEF Probe
  <2>2. CASE CallGuide
    BY <2>1, <2>2
  <2>3. CASE UNCHANGED call
    BY <2>1, <2>3
  <2> QED
    BY <2>1, <2>2, <2>3
<1>16. CASE Ask
  BY <1>16 DEF Ask
<1>17. CASE SignInContinues
  BY <1>17 DEF SignInContinues
<1>18. CASE LandingSettles
  BY <1>18 DEF LandingSettles, LandingReturns, Decision
<1>19. CASE LandingHasSettled
  BY <1>19 DEF LandingHasSettled
<1>20. CASE LandingIsAssisted
  <2>1. (CallGuide \/ call' = NoCall) /\ UNCHANGED <<viewer, chromium, settling, told>>
    BY <1>20 DEF LandingIsAssisted
  <2>3. CASE CallGuide
    BY <2>1, <2>3
  <2>4. CASE call' = NoCall
    BY <2>1, <2>4
  <2> QED
    BY <2>1, <2>3, <2>4
<1>21. CASE UnknownWaits
  BY <1>21 DEF UnknownWaits
<1>22. CASE UnknownIsOffFlow
  BY <1>22 DEF UnknownIsOffFlow
<1>23. CASE PageIsTold
  <2>1. call.saw.state \in Names
    BY <1>23 DEF PageIsTold, LandingReturns, Immediate
  <2> QED
    BY <1>23, <2>1 DEF PageIsTold
<1>24. CASE GuideFails
  BY <1>24 DEF GuideFails
<1>25. CASE UNCHANGED vars
  BY <1>25 DEF vars
<1> HIDE DEF PagesOK, PlacesOK, SwitchesOK, Names, NoCall, Nothing, NoCandidate, NotSettling, IsSettling, Blank, NotLeaving, ClearGuide,
           EmptyView, CallGuide, AgainUnmuted, Tell, Returns, viewer, chromium, guide, patience, told
<1> QED
  BY <1>1, <1>2, <1>3, <1>4, <1>5, <1>6, <1>7, <1>8, <1>9, <1>10, <1>11, <1>12, <1>13,
     <1>14, <1>15, <1>16, <1>17, <1>18, <1>19, <1>20, <1>21, <1>22, <1>23, <1>24, <1>25, <1>26
  DEF Next, GuideReturns

-----------------------------------------------------------------------------
(* What holds in every reachable state.                                    *)

\* The variables keep their types.
THEOREM TypeCorrect == Spec => []TypeOK
  <1> DEFINE Types == PlacesOK /\ SwitchesOK /\ PagesOK
  <1>1. Init => Types
    <2> SUFFICES ASSUME Init
                 PROVE  Types
      OBVIOUS
    <2>1. PlacesOK
      BY OpensAssumption DEF Init, PlacesOK
    <2>2. SwitchesOK
      BY DEF Init, SwitchesOK
    <2>3. PagesOK
      BY ContentsAre DEF Init, PagesOK, Names, NoCall, Nothing, NoCandidate, NotSettling, Blank, NotLeaving
    <2> QED
      BY <2>1, <2>2, <2>3
  <1>2. Types /\ [Next]_vars => Types'
    BY PlacesStep, SwitchesStep, PagesStep
  <1>3. Types => TypeOK
    BY DEF PlacesOK, SwitchesOK, PagesOK, Names, TypeOK
  <1> QED
    BY <1>1, <1>2, <1>3, PTL DEF Spec

\* The invariant holds of every behaviour.
LEMMA GuideCorrect == Spec => []GuideInv
  <1>1. Init => GuideInv
    BY DEF Init, GuideInv, SilentOK, CallOK, GuideShowsCurrentPage, LandingsAreNotMuted, NoCall,
           Nothing, NoCandidate, NotSettling, IsSettling, Blank, NotLeaving, Owed, Late, Immediate
  <1>2. GuideInv /\ [Next]_vars => GuideInv'
    BY GuideStep
  <1> QED
    BY <1>1, <1>2, PTL DEF Spec

\* What the guide tells and the number it offers come from the page that is shown,
\* in whichever order scripts, navigations and timers arrive; from a page that was
\* left only after its late load event, and only until the new one is read.
THEOREM GuideShowsPage == Spec => []GuideShowsCurrentPage
  <1>1. GuideInv => GuideShowsCurrentPage
    BY DEF GuideInv
  <1> QED
    BY GuideCorrect, <1>1, PTL

\* The pages told at once while signing in and the pages it lands on are never told
\* with their highlights muted.
THEOREM LandingsAreHighlighted == Spec => []LandingsAreNotMuted
  <1>1. GuideInv => LandingsAreNotMuted
    BY DEF GuideInv
  <1> QED
    BY GuideCorrect, <1>1, PTL
=============================================================================
