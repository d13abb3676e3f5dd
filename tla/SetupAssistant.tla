--------------------------- MODULE SetupAssistant ---------------------------
(***************************************************************************)
(* The guided setup in the main process: main/setup-assistant-controller,  *)
(* with the page state classifier of lib/setup-assistant as the meaning of *)
(* a page.  The controller owns one browser view at a time.  Page scripts,   *)
(* navigation events and timers reach it in any order; each carries the    *)
(* generation of its view and the number of the guide work it belongs to,  *)
(* and must not speak for a page that is no longer there.                  *)
(*                                                                         *)
(* Open and close are one step each: what they await settles before the    *)
(* next event of the main process.  The result of a script that is no      *)
(* longer the newest work is dropped, so only the newest call is kept.     *)
(* Left out are the layout of the view, the credential phases, the product *)
(* attempts, the retries for a business menu that is still being drawn,    *)
(* blocked addresses, and the renderer's form.                             *)
(***************************************************************************)
EXTENDS Integers, FiniteSets

CONSTANTS
    MaxOpens,       \* openings of the assistant
    MaxDocuments,   \* documents the portal shows, over all openings
    Businesses,     \* customer numbers a business page may show
    Nobody,         \* no customer number
    Pages           \* what the pages of the portal say

ASSUME OpensAssumption == MaxOpens \in Nat \ {0}
ASSUME DocumentsAssumption == MaxDocuments \in Nat \ {0}
ASSUME BusinessAssumption == Nobody \notin Businesses

\* What a page says, by what the controller makes of it.  The verification
\* pages stand for the states from IDENTITY_METHOD_SELECTION to SESSION_LIMIT.
Login == [state |-> "login", business |-> Nobody]
Submitted == [state |-> "submitted", business |-> Nobody]
Verification == [state |-> "verification", business |-> Nobody]
Portal == [state |-> "portal", business |-> Nobody]
Business(b) == [state |-> "business", business |-> b]
TrackingEnabled == [state |-> "enabled", business |-> Nobody]
Unknown == [state |-> "unknown", business |-> Nobody]

Contents ==
    {Login, Submitted, Verification, Portal, TrackingEnabled, Unknown}
        \cup {Business(b) : b \in Businesses}

ASSUME PagesAssumption == Pages \subseteq Contents

\* Told at once, and: a landing that follows is waited for.
Immediate == {"login", "verification"}
SigningIn == {"submitted", "verification"}

Documents == 1 .. MaxDocuments

VARIABLES
    generation,  \* currentGeneration: 0 while closed
    opened,      \* generationSequence
    browser,     \* browserState
    watchdog,    \* readinessTimer
    page,        \* the document in the view, 0: about:blank, and what it says
    fetching,    \* the document a main-frame navigation is fetching, 0: none
    started,     \* the last document number given to a navigation
    leaving,     \* the page a navigation overtook before its load event, and did it come?
    firstLoad,   \* is the load of the portal that open() began pending?
    observed,    \* is the DOM observer installed in the page?
    call,        \* the newest guide script, and whether it may highlight
    timers,      \* of the probes: "dom", "settle", "off"
    settling,    \* how long POST_AUTH_SETTLING has lasted, and the state seen
    afterSignIn, \* postAuthLandingPending
    assisting,   \* businessAssistanceReady
    last,        \* lastMeaningfulPageState: a page of the sign-in, or not
    offFlow,     \* how long the page has been unknown
    shown,       \* currentClassification, with its document
    candidate,   \* customerCandidates, with their document
    unavailable  \* was the last word SETUP_GUIDE_UNAVAILABLE?

viewer == <<generation, opened, browser, watchdog>>
chromium == <<page, fetching, started, leaving, firstLoad, observed>>
patience == <<settling, afterSignIn, assisting, last, offFlow>>
told == <<shown, candidate, unavailable>>
guide == <<call, timers, patience, told>>
vars == <<viewer, chromium, guide>>

NotSettling == [time |-> "off", saw |-> "none"]
NoCall == [doc |-> 0, saw |-> Unknown, muted |-> FALSE]
Nothing == [doc |-> 0, state |-> "none", muted |-> FALSE]
NoCandidate == [doc |-> 0, number |-> Nobody]
Blank == [doc |-> 0, content |-> Unknown]
NotLeaving == [doc |-> 0, came |-> FALSE]

Init ==
    /\ generation = 0 /\ opened = 0 /\ browser = "closed" /\ watchdog = FALSE
    /\ page = Blank /\ fetching = 0 /\ started = 0 /\ leaving = NotLeaving
    /\ firstLoad = FALSE /\ observed = FALSE
    /\ call = NoCall /\ timers = {}
    /\ settling = NotSettling /\ afterSignIn = FALSE /\ assisting = FALSE
    /\ last = "other" /\ offFlow = "off"
    /\ shown = Nothing /\ candidate = NoCandidate /\ unavailable = FALSE

IsOpen == generation # 0
IsSettling == settling.time # "off"

-----------------------------------------------------------------------------
(* Opening and closing.                                                    *)

\* clearTransientState.
ClearGuide ==
    /\ call' = NoCall
    /\ timers' = {}
    /\ settling' = NotSettling /\ afterSignIn' = FALSE /\ assisting' = FALSE
    /\ last' = "other" /\ offFlow' = "off"
    /\ shown' = Nothing /\ candidate' = NoCandidate /\ unavailable' = FALSE

EmptyView(loading) ==
    /\ page' = Blank /\ fetching' = 0 /\ leaving' = NotLeaving
    /\ firstLoad' = loading /\ observed' = FALSE

\* open, retry or start over: an assistant that is open is closed first.
Open ==
    /\ opened < MaxOpens
    /\ generation' = opened + 1 /\ opened' = opened + 1
    /\ browser' = "creating" /\ watchdog' = TRUE
    /\ EmptyView(TRUE) /\ ClearGuide
    /\ UNCHANGED started

\* The view cannot be created or attached: what open() began is undone.
OpenFails ==
    /\ opened < MaxOpens
    /\ generation' = 0 /\ opened' = opened + 1
    /\ browser' = "closed" /\ watchdog' = FALSE
    /\ EmptyView(FALSE) /\ ClearGuide
    /\ UNCHANGED started

\* closeSetupAssistant: asked for, on quit, or because the page's process died.
Close ==
    /\ IsOpen
    /\ generation' = 0 /\ browser' = "closed" /\ watchdog' = FALSE
    /\ EmptyView(FALSE) /\ ClearGuide
    /\ UNCHANGED <<opened, started>>

WatchdogFires ==
    /\ watchdog
    /\ watchdog' = FALSE
    /\ browser' = IF browser = "creating" THEN "startup-timeout" ELSE browser
    /\ UNCHANGED <<generation, opened, chromium, guide>>

-----------------------------------------------------------------------------
(* Navigation.  The number of the guide work is raised, so the script that *)
(* still runs is answered by nobody.                                       *)

\* A navigation that overtakes the first load rejects the promise of open().
Loading ==
    IF firstLoad /\ fetching # 0 THEN {"loading", "recoverable-error"} ELSE {"loading"}

\* The page's own load event is still to come.
Unfinished == page.doc # 0 /\ (page.doc = fetching \/ leaving = [doc |-> page.doc, came |-> FALSE])

StartsFetching ==
    /\ IsOpen
    /\ started < MaxDocuments
    /\ fetching' = started + 1 /\ started' = started + 1
    /\ leaving' = IF Unfinished THEN [doc |-> page.doc, came |-> FALSE] ELSE NotLeaving
    /\ firstLoad' = (firstLoad /\ fetching = 0)
    /\ browser' \in Loading /\ watchdog' = FALSE
    /\ observed' = FALSE   \* the script that clears the highlights stops it
    /\ afterSignIn' = (last = "signing-in")
    /\ assisting' = FALSE /\ offFlow' = "off"
    /\ settling' = IF settling.time = "quiet" THEN [settling EXCEPT !.time = "fresh"] ELSE settling
    /\ timers' = timers \ {"dom", "off"}
    /\ shown' = Nothing /\ candidate' = NoCandidate /\ unavailable' = FALSE
    /\ UNCHANGED <<generation, opened, page, last>>

\* Mutant of the next definition: work that has begun may end.
NavigationKeepsWork == StartsFetching /\ UNCHANGED call

\* did-start-navigation in the main frame.
StartNavigation == StartsFetching /\ call' = NoCall

\* navigateBack: the guide is silenced before the history moves.
GoBack ==
    /\ IsOpen
    /\ page.doc # 0
    /\ started < MaxDocuments
    /\ browser' = "loading" /\ observed' = FALSE
    /\ offFlow' = "off" /\ timers' = timers \ {"off"}
    /\ call' = NoCall
    /\ shown' = Nothing /\ unavailable' = FALSE
    /\ UNCHANGED <<generation, opened, watchdog, page, fetching, started, leaving, firstLoad,
                   settling, afterSignIn, assisting, last, candidate>>

\* The new document replaces the old one, with its observer and its events.
Commit ==
    /\ fetching # 0
    /\ page.doc # fetching
    /\ \E content \in Pages : page' = [doc |-> fetching, content |-> content]
    /\ observed' = FALSE
    /\ leaving' = IF leaving.came THEN leaving ELSE NotLeaving
    /\ UNCHANGED <<viewer, fetching, started, firstLoad, guide>>

\* applyPageGuide: the script runs, and its result is on the way.
CallGuide ==
    call' = [doc |-> page.doc, saw |-> page.content, muted |-> IsSettling \/ afterSignIn]

\* did-finish-load: the observer is installed and the guide applied.
PageIsUsable ==
    /\ browser' = "ready" /\ watchdog' = FALSE
    /\ observed' = TRUE
    /\ CallGuide
    /\ UNCHANGED <<generation, opened, page, started, timers, patience, told>>

\* Of the newest document.
FinishLoad ==
    /\ fetching # 0
    /\ page.doc = fetching
    /\ fetching' = 0 /\ firstLoad' = FALSE
    /\ PageIsUsable
    /\ UNCHANGED leaving

\* Of a document that a navigation is about to replace: the handler does not ask.
FinishLoadLate ==
    /\ Unfinished
    /\ page.doc # fetching
    /\ leaving' = [leaving EXCEPT !.came = TRUE]
    /\ PageIsUsable
    /\ UNCHANGED <<fetching, firstLoad>>

\* The load ends without a document of its own: a download, an answer without
\* content, a stop.  did-fail-load with ERR_ABORTED, then did-stop-loading.
AbortLoad ==
    /\ fetching # 0
    /\ page.doc # fetching
    /\ fetching' = 0 /\ firstLoad' = FALSE
    /\ browser' = IF firstLoad THEN "recoverable-error"
                  ELSE IF browser = "loading" THEN "ready" ELSE browser
    /\ watchdog' = FALSE
    /\ UNCHANGED <<generation, opened, page, started, leaving, observed, guide>>

\* did-fail-load.
FailLoad ==
    /\ fetching # 0
    /\ fetching' = 0 /\ firstLoad' = FALSE
    /\ browser' = "recoverable-error" /\ watchdog' = FALSE
    /\ UNCHANGED <<generation, opened, page, started, leaving, observed, guide>>

\* The page changes itself; the observer tells, and a probe is due soon.
DomChanges ==
    /\ page.doc # 0
    /\ \E content \in Pages \ {page.content} : page' = [page EXCEPT !.content = content]
    /\ timers' = IF observed /\ browser = "ready" THEN timers \cup {"dom"} ELSE timers
    /\ UNCHANGED <<viewer, fetching, started, leaving, firstLoad, observed, call, patience, told>>

-----------------------------------------------------------------------------
(* Time.                                                                   *)

\* The time without a change, and the most that settling may take.
QuietPasses ==
    /\ settling.time = "fresh"
    /\ settling' = [settling EXCEPT !.time = "quiet"]
    /\ UNCHANGED <<viewer, chromium, call, timers, afterSignIn, assisting, last, offFlow, told>>

MaximumPasses ==
    /\ settling.time \in {"fresh", "quiet"}
    /\ settling' = [settling EXCEPT !.time = "over"]
    /\ UNCHANGED <<viewer, chromium, call, timers, afterSignIn, assisting, last, offFlow, told>>

OffFlowPasses ==
    /\ offFlow = "waiting"
    /\ offFlow' = "elapsed"
    /\ UNCHANGED <<viewer, chromium, call, timers, settling, afterSignIn, assisting, last, told>>

\* One of the timers fires; it does nothing unless the page is ready.  The
\* timer of an unknown page is set for the moment its time has passed.
Probe(kind) ==
    /\ kind \in timers
    /\ kind = "off" => offFlow = "elapsed"
    /\ timers' = timers \ {kind}
    /\ IF browser = "ready" THEN CallGuide ELSE call' = call
    /\ UNCHANGED <<viewer, chromium, patience, told>>

\* setStep, useCustomerNumber, or the copying of a credential in the page.
Ask ==
    /\ IsOpen
    /\ browser = "ready"
    /\ page.doc # 0
    /\ CallGuide
    /\ UNCHANGED <<viewer, chromium, timers, patience, told>>

-----------------------------------------------------------------------------
(* applyPageGuide, when the script returns.  A page that asks for a proof  *)
(* of identity is shown at once; a page reached after signing in may still *)
(* be redirected, and is shown when it has settled.                        *)

Returns(state) == IsOpen /\ call # NoCall /\ call.saw.state = state

LandingReturns == Returns("portal") \/ Returns("business")

MustSettle == IsSettling \/ afterSignIn \/ last = "signing-in"

\* settlingDecision.
Decision ==
    IF ~IsSettling \/ (settling.saw # call.saw.state /\ settling.time # "over")
    THEN [time |-> "fresh", saw |-> call.saw.state]
    ELSE [settling EXCEPT !.saw = call.saw.state]

Settled == browser = "ready" /\ Decision.time \in {"quiet", "over"}

\* The guide is applied again, with nothing left that would mute it; it is
\* not if the page failed meanwhile.
AgainUnmuted ==
    call' = IF browser = "ready" THEN [doc |-> page.doc, saw |-> page.content, muted |-> FALSE]
            ELSE NoCall

\* What the page is is told, with the candidates it offers.
Tell(state) ==
    /\ call' = NoCall
    /\ shown' = [doc |-> call.doc, state |-> state, muted |-> call.muted]
    /\ candidate' = [doc |-> call.doc, number |-> call.saw.business]
    /\ unavailable' = FALSE
    /\ last' = IF state \in SigningIn THEN "signing-in" ELSE "other"

\* Any page that is not unknown ends the wait for one that is.
KnownAgain == offFlow' = "off" /\ timers' = timers \ {"off"}

SignInContinues ==
    /\ \E state \in Immediate : Returns(state)
    /\ IsSettling \/ afterSignIn
    /\ settling' = NotSettling /\ afterSignIn' = FALSE
    /\ timers' = timers \ {"settle"}
    /\ last' = IF call.saw.state \in SigningIn THEN "signing-in" ELSE "other"
    /\ AgainUnmuted
    /\ UNCHANGED <<viewer, chromium, assisting, offFlow, told>>

\* Mutant of the next definition: the redirected page is waited for in vain.
SettlesUnprobed ==
    /\ LandingReturns
    /\ MustSettle
    /\ ~Settled
    /\ settling' = Decision
    /\ call' = NoCall
    /\ shown' = [doc |-> call.doc, state |-> "settling", muted |-> TRUE]
    /\ unavailable' = FALSE
    /\ timers' = timers
    /\ UNCHANGED <<viewer, chromium, afterSignIn, assisting, last, offFlow, candidate>>

LandingSettles ==
    /\ LandingReturns
    /\ MustSettle
    /\ ~Settled
    /\ settling' = Decision
    /\ call' = NoCall
    /\ shown' = [doc |-> call.doc, state |-> "settling", muted |-> TRUE]
    /\ unavailable' = FALSE
    /\ timers' = timers \cup {"settle"}
    /\ UNCHANGED <<viewer, chromium, afterSignIn, assisting, last, offFlow, candidate>>

LandingHasSettled ==
    /\ LandingReturns
    /\ MustSettle
    /\ Settled
    /\ settling' = NotSettling /\ afterSignIn' = FALSE /\ assisting' = TRUE
    /\ timers' = timers \ {"settle"}
    /\ last' = "other"
    /\ AgainUnmuted
    /\ UNCHANGED <<viewer, chromium, offFlow, told>>

LandingIsAssisted ==
    /\ LandingReturns
    /\ ~MustSettle /\ ~assisting
    /\ assisting' = TRUE
    /\ IF browser = "ready" THEN CallGuide ELSE call' = NoCall
    /\ UNCHANGED <<viewer, chromium, timers, settling, afterSignIn, last, offFlow, told>>

\* An unknown page of the portal is given a moment.
UnknownWaits ==
    /\ Returns("unknown")
    /\ offFlow # "elapsed"
    /\ offFlow' = "waiting"
    /\ timers' = timers \cup {"off"}
    /\ call' = NoCall
    /\ shown' = Nothing /\ unavailable' = FALSE
    /\ UNCHANGED <<viewer, chromium, settling, afterSignIn, assisting, last, candidate>>

UnknownIsOffFlow ==
    /\ Returns("unknown")
    /\ offFlow = "elapsed"
    /\ Tell("off-flow")
    /\ UNCHANGED <<viewer, chromium, timers, settling, afterSignIn, assisting, offFlow>>

PageIsTold ==
    /\ \/ (\E state \in Immediate : Returns(state)) /\ ~IsSettling /\ ~afterSignIn
       \/ LandingReturns /\ ~MustSettle /\ assisting
       \/ Returns("enabled") \/ Returns("submitted")
    /\ Tell(call.saw.state)
    /\ KnownAgain
    /\ UNCHANGED <<viewer, chromium, settling, afterSignIn, assisting>>

\* The script was rejected; nothing runs it again by itself.
GuideFails ==
    /\ call # NoCall
    /\ call' = NoCall
    /\ unavailable' = TRUE
    /\ UNCHANGED <<viewer, chromium, timers, patience, shown, candidate>>

GuideReturns ==
    \/ SignInContinues \/ LandingSettles \/ LandingHasSettled \/ LandingIsAssisted
    \/ UnknownWaits \/ UnknownIsOffFlow \/ PageIsTold

Next ==
    \/ Open \/ OpenFails \/ Close \/ WatchdogFires
    \/ StartNavigation \/ GoBack \/ Commit \/ FinishLoad \/ FinishLoadLate \/ AbortLoad \/ FailLoad
    \/ DomChanges \/ QuietPasses \/ MaximumPasses \/ OffFlowPasses
    \/ \E kind \in {"dom", "settle", "off"} : Probe(kind)
    \/ Ask \/ GuideReturns \/ GuideFails

\* Scripts return, the timers of the probes fire and time passes.  Nothing is assumed of the
\* person, of the portal or of the network.
Fairness ==
    /\ WF_vars(GuideReturns)
    /\ WF_vars(QuietPasses \/ MaximumPasses \/ OffFlowPasses)
    /\ WF_vars(\E kind \in {"dom", "settle", "off"} : Probe(kind))

Spec == Init /\ [][Next]_vars /\ Fairness

-----------------------------------------------------------------------------
(* Properties.                                                             *)

\* Every variable has its type, and the counters stay within their bounds.
TypeOK ==
    /\ generation \in 0 .. MaxOpens /\ opened \in 0 .. MaxOpens
    /\ browser \in {"closed", "creating", "loading", "ready", "startup-timeout", "recoverable-error"}
    /\ page \in [doc : {0} \cup Documents, content : Contents]
    /\ {fetching, started} \subseteq {0} \cup Documents
    /\ leaving \in [doc : {0} \cup Documents, came : BOOLEAN]
    /\ {watchdog, firstLoad, observed, afterSignIn, assisting, unavailable} \subseteq BOOLEAN
    /\ call \in [doc : {0} \cup Documents, saw : Contents, muted : BOOLEAN]
    /\ timers \subseteq {"dom", "settle", "off"}
    /\ settling \in [time : {"off", "fresh", "quiet", "over"}, saw : {"none", "portal", "business"}]
    /\ last \in {"signing-in", "other"}
    /\ offFlow \in {"off", "waiting", "elapsed"}
    /\ shown \in [doc : {0} \cup Documents, muted : BOOLEAN,
                  state : {"none", "login", "submitted", "verification", "portal", "business", "enabled",
                           "off-flow", "settling"}]
    /\ candidate \in [doc : {0} \cup Documents, number : Businesses \cup {Nobody}]

\* The page in the view is still to be read, or the guide does not vouch for it.
Owed == fetching = page.doc \/ call.doc = page.doc \/ unavailable \/ browser # "ready"

\* What was read from a document that was left after its load event came late.
Late(doc) == doc = leaving.doc /\ leaving.came

\* What the guide tells, and the customer number it offers to take over, come
\* from the document the view shows, never from an earlier opening, and from
\* an earlier document only if its load event came when a navigation had
\* already begun to replace it: then the new page is read as soon as it has
\* loaded, and the number goes when the new page is told.
\* (the work number and the generation in applyPageGuide)
GuideShowsCurrentPage ==
    /\ shown.doc \in {0, page.doc} \/ (Late(shown.doc) /\ Owed)
    /\ candidate.number # Nobody =>
           candidate.doc = page.doc
               \/ (Late(candidate.doc) /\ (Owed \/ IsSettling \/ offFlow # "off"))

\* The pages of the sign-in that are told at once and the pages it lands on
\* are never told with their highlights muted: every path that ends the
\* settling reads the page again (the recursive calls of applyPageGuide).
\* Other pages may be.
LandingsAreNotMuted ==
    shown.state \in Immediate \cup {"portal", "business"} => ~shown.muted

\* A page that stays, and whose observer stays, is told as what it is in the
\* end, whatever it said before and however often the guide was asked, unless
\* a script failed: settling and waiting for an unknown page both end.
Told(content) == IF content = Unknown THEN "off-flow" ELSE content.state

PageIsGuided ==
    <>[](observed /\ browser = "ready") /\ <>[][FALSE]_page
        => <>[](unavailable \/ (shown.doc = page.doc /\ shown.state = Told(page.content)))

=============================================================================
