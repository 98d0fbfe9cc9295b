--------------------------- MODULE RollingWindow ---------------------------
(***************************************************************************)
(* What causal generation may look at: a window over the sequence of       *)
(* latent frames that keeps the first Sink frames for ever and the most    *)
(* recent Size - Sink others.  A frame enters the window when its denoising *)
(* starts and becomes clean when its final latent has been committed; no    *)
(* frame enters while the previous one is not clean.                       *)
(***************************************************************************)
EXTENDS Integers

CONSTANTS Size, Sink

VARIABLES next,    \* number of frames that have entered so far
          window,  \* frames in the window
          dirty    \* frames in the window that are not clean yet

vars == <<next, window, dirty>>

Init ==
    /\ next = 0
    /\ window = {}
    /\ dirty = {}

Enter ==
    /\ dirty = {}
    /\ next' = next + 1
    /\ window' = {f \in window \cup {next} : f < Sink \/ f > next - (Size - Sink)}
    /\ dirty' = {next}

Commit ==
    /\ dirty # {}
    /\ dirty' = {}
    /\ UNCHANGED <<next, window>>

Next == Enter \/ Commit

Spec == Init /\ [][Next]_vars
=============================================================================
