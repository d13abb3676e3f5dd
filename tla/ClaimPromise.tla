----------------------------- MODULE ClaimPromise -----------------------------
(***************************************************************************)
(* What the program promises about one claim, whoever works on it: it is   *)
(* tried once at a time, its standing is that of its latest attempt, and   *)
(* only that attempt's own worker, an interruption or the user changes it. *)
(* There are no rows, no processes and no crashes here: what becomes of    *)
(* an attempt that was superseded does not show.  Submission implements    *)
(* this module.                                                            *)
(***************************************************************************)
EXTENDS Integers

CONSTANTS Claims, Tombstoned, MaxAttempts

VARIABLES
    standing,  \* what is known of the claim
    tries,     \* the number of its latest attempt, 0 before the first
    held       \* the claims whose latest attempt has a worker that may still report

vars == <<standing, tries, held>>

\* open: being tried; uncertain: it may have been filed; final: the portal has
\* answered; failed: it was not filed; confirmed and approved: what the user
\* says, that it was filed or that it may be tried again.
Standings == {"none", "open", "uncertain", "final", "failed", "confirmed", "approved"}

\* What old versions left is at most one attempt of a claim.
Init ==
    /\ standing \in [Claims -> {"none", "uncertain", "final", "failed"}]
    /\ tries \in [Claims -> 0 .. MaxAttempts]
    /\ \A c \in Claims : standing[c] = "none" <=> tries[c] = 0
    /\ \A c \in Tombstoned : standing[c] = "none"
    /\ held = {}

\* A claim is tried when it never was, after a failure up to the limit, or by
\* the user's approval; only this allows to try it beside another worker.
Try(c) ==
    /\ c \notin Tombstoned
    /\ \/ standing[c] = "none"
       \/ standing[c] = "failed" /\ tries[c] < MaxAttempts
       \/ standing[c] = "approved"
    /\ c \in held => standing[c] = "approved"
    /\ standing' = [standing EXCEPT ![c] = "open"]
    /\ tries' = [tries EXCEPT ![c] = @ + 1]
    /\ held' = held \cup {c}

\* The worker of the latest attempt reports, once, and not over a final answer.
Report(c) ==
    /\ c \in held
    /\ standing[c] \in {"open", "uncertain", "confirmed", "approved"}
    /\ \E answer \in {"final", "failed", "uncertain"} : standing' = [standing EXCEPT ![c] = answer]
    /\ held' = held \ {c}
    /\ UNCHANGED tries

\* A worker is gone without a report.
Vanish(c) ==
    /\ held' = held \ {c}
    /\ UNCHANGED <<standing, tries>>

\* The attempts that are open are marked, whether their workers live or not.
Interrupt ==
    /\ standing' = [c \in Claims |-> IF standing[c] = "open" THEN "uncertain" ELSE standing[c]]
    /\ UNCHANGED <<tries, held>>

\* The user settles what has no answer, even while a worker is busy with it.
Reconcile(c) ==
    /\ standing[c] \notin {"none", "final", "confirmed"}
    /\ \E answer \in {"confirmed", "approved"} : standing' = [standing EXCEPT ![c] = answer]
    /\ UNCHANGED <<tries, held>>

Next == Interrupt \/ \E c \in Claims : Try(c) \/ Report(c) \/ Vanish(c) \/ Reconcile(c)

Spec == Init /\ [][Next]_vars
=============================================================================
