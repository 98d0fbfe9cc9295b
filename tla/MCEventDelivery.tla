-------------------------- MODULE MCEventDelivery --------------------------
(***************************************************************************)
(* EventDelivery for TLC: the behaviours of the attentive pages alone, and *)
(* shorter ones in which another page is there that never reads.           *)
(***************************************************************************)
EXTENDS EventDelivery

Others == Clients \ Attentive

\* What is published while another page is, or has been, there: RGB0 of every
\* action and the notes, one event more than its queue takes.
Accompanied == \E c \in Others : conn[c] # "away"

\* The other page loads before anything is published.  It may stop reading in
\* its greeting or behind it, and leave at any time; when that is in its
\* greeting it stays registered.
OtherPage(c) ==
    \/ newest = NoFrame /\ notes = 0 /\ (Connect(c) \/ Greet(c))
    \/ Disconnect(c)

MCNext ==
    \/ PublishFrame /\ (Accompanied => newest'.index = 0)
    \/ PublishNote
    \/ Signals
    \/ Loop
    \/ \E c \in Attentive : Handler(c) \/ Page(c) \/ Connect(c) \/ Disconnect(c)
    \/ \E c \in Others : OtherPage(c)

MCSpec == Init /\ [][MCNext]_vars /\ Fairness
=============================================================================
