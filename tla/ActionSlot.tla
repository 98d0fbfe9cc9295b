----------------------------- MODULE ActionSlot -----------------------------
(***************************************************************************)
(* What the browser server promises about the actions it accepts, with no  *)
(* threads, locks, ledger or chunks in sight: one slot that holds the      *)
(* latest valid action, at most one action being executed, every action    *)
(* executed or superseded at most once, and no execution that starts after *)
(* the slot has been closed by a quit request.                             *)
(***************************************************************************)

CONSTANTS Ids,      \* identifiers of user actions
          NoAction  \* an empty slot

VARIABLES waiting,     \* the accepted action that has not started, if any
          running,     \* the action being executed, if any
          done,        \* actions executed to the end
          superseded,  \* actions a later one took the place of
          open         \* FALSE once quit has been requested

vars == <<waiting, running, done, superseded, open>>

Seen == {waiting, running} \cup done \cup superseded

Init ==
    /\ waiting = NoAction
    /\ running = NoAction
    /\ done = {}
    /\ superseded = {}
    /\ open = TRUE

\* A new action takes the slot; the one that was waiting there, if any, will
\* never be executed.
Accept(a) ==
    /\ a \notin Seen
    /\ waiting' = a
    /\ superseded' = superseded \cup ({waiting} \ {NoAction})
    /\ UNCHANGED <<running, done, open>>

Start ==
    /\ open
    /\ running = NoAction
    /\ waiting # NoAction
    /\ running' = waiting
    /\ waiting' = NoAction
    /\ UNCHANGED <<done, superseded, open>>

Finish ==
    /\ running # NoAction
    /\ done' = done \cup {running}
    /\ running' = NoAction
    /\ UNCHANGED <<waiting, superseded, open>>

Close ==
    /\ open' = FALSE
    /\ UNCHANGED <<waiting, running, done, superseded>>

Next ==
    \/ \E a \in Ids : Accept(a)
    \/ Start
    \/ Finish
    \/ Close

Spec == Init /\ [][Next]_vars
=============================================================================
