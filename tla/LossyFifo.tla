------------------------------ MODULE LossyFifo ------------------------------
(***************************************************************************)
(* What every stage between the decoder and the screen promises about      *)
(* frames: it may lose some, it never reorders, repeats or invents any.    *)
(* Frames are numbered in the order they were produced.                    *)
(***************************************************************************)
EXTENDS Integers

VARIABLES sent,    \* number of the newest frame put in, -1 at first
          flight,  \* numbers of the frames inside
          last     \* number of the latest frame that came out, -1 at first

vars == <<sent, flight, last>>

Init ==
    /\ sent = -1
    /\ flight = {}
    /\ last = -1

\* A newer frame goes in; some of those inside may be lost to make room.
Send ==
    /\ sent' > sent
    /\ flight' \subseteq flight \cup {sent'}
    /\ UNCHANGED last

\* The oldest frame inside comes out.
Deliver ==
    /\ last' \in flight
    /\ \A n \in flight : last' <= n
    /\ flight' = flight \ {last'}
    /\ UNCHANGED sent

Lose ==
    /\ flight' \subseteq flight
    /\ UNCHANGED <<sent, last>>

Next == Send \/ Deliver \/ Lose

Spec == Init /\ [][Next]_vars
=============================================================================
