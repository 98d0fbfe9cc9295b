----------------------------- MODULE FrameSource -----------------------------
(***************************************************************************)
(* What the frames that are published follow one another like: within an   *)
(* action RGB0 and the others in turn, none left out, up to some point;    *)
(* then RGB0 of a later action.  Presentation implements it, and the       *)
(* publisher of EventDelivery may take any of its steps.                   *)
(***************************************************************************)
EXTENDS Integers

CONSTANTS LastAction,  \* bound: actions 0..LastAction
          FrameCount   \* most frames of an action

VARIABLE newest        \* the frame published last

Places == [action : 0..LastAction, index : 0..(FrameCount - 1)]

Follows(f) ==
    \/ f.index = 0 /\ f.action > newest.action
    \/ f.action = newest.action /\ f.index = newest.index + 1

Init == newest = [action |-> -1, index |-> -1]

Publish ==
    /\ newest' \in Places
    /\ Follows(newest')

Spec == Init /\ [][Publish]_newest
=============================================================================
