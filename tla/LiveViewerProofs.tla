-------------------------- MODULE LiveViewerProofs --------------------------
(***************************************************************************)
(* Proofs about the Tk live viewer for any number of presses and actions:  *)
(* the newest key is never dropped, the report says what happened whatever *)
(* ended the session, and the viewer implements ActionSlot.                *)
(*                                                                         *)
(* All three need to know what is in the two places a key is stored in,    *)
(* and how far the caches are, at every point of the only thread.          *)
(***************************************************************************)
EXTENDS LiveViewer, FiniteSetTheorems, TLAPS

\* A key waits in one place only, and is newer than the action begun last.
KeysInv ==
    /\ label \in Presses => label <= pressed
    /\ pending # NoKey => pending <= pressed
    /\ waiting # NoKey =>
           /\ waiting <= pressed
           /\ pending = NoKey
           /\ pc \in {"window", "load", "begin", "wait", "ended"}
    /\ pc \in {"window", "load", "wait"} => pending = NoKey
    /\ pc = "wait" => script = NoScript
    /\ chunk = 0 => label = Bootstrap
    /\ script = NoScript =>
           /\ label \notin Scripted
           /\ pending # NoKey => label < pending
           /\ waiting # NoKey => label < waiting
    /\ script # NoScript =>
           /\ chunk > 0 => label = MaxPress + chunk
           /\ chunk <= script

\* Nothing is in flight outside an action, and quit ends every update.
PlaceInv ==
    /\ busy <=> pc \in {"denoise", "show_first", "show_refined", "commit", "show_last"}
    /\ pc = "choose" => ~quit
    /\ pc = "wait" => chunk < Available
    /\ status = "running" <=> pc # "ended"
    /\ status \in {"stopped", "success"} => Len(reported) = chunk + 1
    /\ status = "success" => chunk = Available

\* The chunks before the current one have their clean pass, those behind it
\* are untouched, and the place tells about the current one.
CacheInv ==
    /\ \A c \in Chunks : c < chunk => cache[c] = "clean"
    /\ \A c \in Chunks : c > chunk => cache[c] = "empty"
    /\ pc \in {"window", "load", "begin", "denoise"} => cache[chunk] = "empty"
    /\ pc \in {"show_first", "show_refined", "commit"} => cache[chunk] = "noisy"
    /\ pc = "show_last" => cache[chunk] = "clean"
    /\ Len(reported) = chunk + 1 => cache[chunk] = "clean"

\* One row per finished action, in the order they were begun.
RowsInv ==
    /\ Len(reported) \in {chunk, chunk + 1}
    /\ pc \in {"window", "load", "begin", "denoise", "show_first", "show_refined",
               "commit", "show_last"} => Len(reported) = chunk
    /\ pc \in {"choose", "wait"} => Len(reported) = chunk + 1
    /\ \A i \in 1..Len(reported) : reported[i].chunk = i - 1
    /\ \A i, j \in 1..Len(reported) : i < j => reported[i].action < reported[j].action
    /\ \A i \in 1..Len(reported) :
           IF i = chunk + 1 THEN reported[i].action = label ELSE reported[i].action < label
    /\ Len(reported) > 0 => reported[1].action = Bootstrap
    /\ script # NoScript =>
           \A i \in 2..Len(reported) : reported[i].action = MaxPress + i - 1

IInv ==
    /\ TypeOK
    /\ KeysInv
    /\ NewestKeyHeld
    /\ PlaceInv
    /\ CacheInv
    /\ RowsInv

USE ConstantsAssumption

-----------------------------------------------------------------------------
(* The inductive step, action by action *)

LEMMA InitHolds == Init => IInv
BY DEF Init, IInv, TypeOK, KeysInv, NewestKeyHeld, PlaceInv, CacheInv, RowsInv, Held,
    Labels, Presses, Scripted, Bootstrap, Chunks

\* Tk puts a key into the one place nothing waits in.
LEMMA DeliverStep == IInv /\ Deliver => IInv'
<1>1. IInv /\ Observe => IInv'
  BY DEF Observe, Updating, run, IInv, TypeOK, KeysInv, NewestKeyHeld, PlaceInv,
    CacheInv, RowsInv, Held, Labels, Presses, Scripted, Bootstrap, Chunks
<1>2. IInv /\ RequestQuit => IInv'
  BY DEF RequestQuit, Updating, run, IInv, TypeOK, KeysInv, NewestKeyHeld, PlaceInv,
    CacheInv, RowsInv, Held, Labels, Presses, Scripted, Bootstrap, Chunks
<1>3. QED
  BY <1>1, <1>2 DEF Deliver

\* Steps along the code that leave the keys where they are.
Onward ==
    \/ LeaveWindow
    \/ LoadModel
    \/ ShowFirst
    \/ ShowRefined
    \/ GenerateChunk
    \/ CommitClean
    \/ WaitForKey

LEMMA OnwardStep == IInv /\ Onward => IInv'
<1>1. IInv /\ LeaveWindow => IInv'
  BY DEF LeaveWindow, Goto, input, run, IInv, TypeOK, KeysInv, NewestKeyHeld,
    PlaceInv, CacheInv, RowsInv, Held, Labels, Presses, Scripted, Bootstrap,
    Chunks
<1>2. IInv /\ LoadModel => IInv'
  BY DEF LoadModel, Goto, input, run, IInv, TypeOK, KeysInv, NewestKeyHeld,
    PlaceInv, CacheInv, RowsInv, Held, Labels, Presses, Scripted, Bootstrap,
    Chunks
<1>3. IInv /\ ShowFirst => IInv'
  BY DEF ShowFirst, Shown, Goto, input, run, IInv, TypeOK, KeysInv,
    NewestKeyHeld, PlaceInv, CacheInv, RowsInv, Held, Labels, Presses,
    Scripted, Bootstrap, Chunks
<1>4. IInv /\ ShowRefined => IInv'
  BY DEF ShowRefined, Shown, Goto, input, run, IInv, TypeOK, KeysInv,
    NewestKeyHeld, PlaceInv, CacheInv, RowsInv, Held, Labels, Presses,
    Scripted, Bootstrap, Chunks
<1>5. IInv /\ GenerateChunk => IInv'
  BY DEF GenerateChunk, Goto, input, IInv, TypeOK, KeysInv, NewestKeyHeld,
    PlaceInv, CacheInv, RowsInv, Held, Labels, Presses, Scripted, Bootstrap,
    Chunks
<1>6. IInv /\ CommitClean => IInv'
  BY DEF CommitClean, Goto, input, IInv, TypeOK, KeysInv, NewestKeyHeld,
    PlaceInv, CacheInv, RowsInv, Held, Labels, Presses, Scripted, Bootstrap,
    Chunks
<1>7. IInv /\ WaitForKey => IInv'
  BY DEF WaitForKey, Goto, run, IInv, TypeOK, KeysInv, NewestKeyHeld,
    PlaceInv, CacheInv, RowsInv, Held, Labels, Presses, Scripted, Bootstrap,
    Chunks
<1> QED
  BY <1>1, <1>2, <1>3, <1>4, <1>5, <1>6, <1>7 DEF Onward

\* An exception in a forward leaves the current chunk noisy and unreported.
LEMMA AbortedStep ==
    ASSUME IInv, interrupted' \in BOOLEAN, NEW s \in {"interrupted", "failure"},
           Aborted(s)
    PROVE  IInv'
<1>1. TypeOK'
  BY DEF Aborted, IInv, TypeOK, Chunks
<1>2. KeysInv' /\ NewestKeyHeld'
  BY DEF Aborted, IInv, TypeOK, KeysInv, NewestKeyHeld, Held
<1>3. PlaceInv'
  BY DEF Aborted, IInv, TypeOK, PlaceInv
<1>4. CacheInv'
  BY DEF Aborted, IInv, TypeOK, CacheInv, RowsInv, Chunks
<1>5. RowsInv'
  BY DEF Aborted, IInv, RowsInv
<1> QED
  BY <1>1, <1>2, <1>3, <1>4, <1>5 DEF IInv

\* Every way out of main closes the action in flight.
Ends ==
    \/ Escape
    \/ AllDone
    \/ TimeUp
    \/ StopWaiting
    \/ ScriptEnds
    \/ CtrlC
    \/ Fails

LEMMA EndStep ==
    ASSUME IInv, interrupted' \in BOOLEAN, NEW s \in {"interrupted", "stopped", "success"},
           End(s), s # "interrupted" => Len(reported) = chunk + 1,
           s = "success" => chunk = Available
    PROVE  IInv'
<1>1. TypeOK'
  BY DEF End, run, IInv, TypeOK
<1>2. KeysInv' /\ NewestKeyHeld'
  BY DEF End, run, IInv, TypeOK, KeysInv, NewestKeyHeld, Held
<1>3. PlaceInv'
  BY DEF End, run, IInv, TypeOK, PlaceInv
<1>4. CacheInv'
  BY DEF End, run, IInv, CacheInv
<1>5. RowsInv'
  BY DEF End, run, IInv, RowsInv
<1> QED
  BY <1>1, <1>2, <1>3, <1>4, <1>5 DEF IInv

LEMMA EndsStep == IInv /\ Ends => IInv'
<1> SUFFICES ASSUME IInv, Ends PROVE IInv'
  OBVIOUS
<1>0. interrupted \in BOOLEAN /\ (pc \in {"choose", "wait"} => Len(reported) = chunk + 1)
  BY DEF IInv, TypeOK, RowsInv
<1>1. CASE Escape
  BY <1>0, <1>1, EndStep DEF Escape
<1>2. CASE AllDone
  BY <1>0, <1>2, EndStep DEF AllDone
<1>3. CASE TimeUp
  BY <1>0, <1>3, EndStep DEF TimeUp
<1>4. CASE StopWaiting
  BY <1>0, <1>4, EndStep DEF StopWaiting
<1>5. CASE ScriptEnds
  BY <1>0, <1>5, EndStep DEF ScriptEnds
<1>6. CASE CtrlC
  BY <1>6, AbortedStep DEF CtrlC
<1>7. CASE Fails
  BY <1>0, <1>7, AbortedStep DEF Fails
<1> QED
  BY <1>1, <1>2, <1>3, <1>4, <1>5, <1>6, <1>7 DEF Ends

LEMMA BeginActionStep == IInv /\ BeginAction => IInv'
<1> SUFFICES ASSUME IInv, BeginAction PROVE IInv'
  OBVIOUS
<1>1. TypeOK'
  BY DEF BeginAction, Goto, run, IInv, PlaceInv, TypeOK, Labels, Presses,
    Scripted, Bootstrap, Chunks
<1>2. KeysInv'
  BY DEF BeginAction, Goto, run, IInv, PlaceInv, TypeOK, KeysInv, Labels,
    Presses, Scripted, Bootstrap, Chunks
<1>3. NewestKeyHeld'
  BY DEF BeginAction, Goto, run, IInv, PlaceInv, TypeOK, KeysInv,
    NewestKeyHeld, Held, Labels, Presses, Scripted, Bootstrap, Chunks
<1>4. PlaceInv'
  BY DEF BeginAction, Goto, run, IInv, PlaceInv, TypeOK, RowsInv, Labels,
    Presses, Scripted, Bootstrap, Chunks
<1>5. CacheInv'
  BY DEF BeginAction, Goto, run, IInv, PlaceInv, TypeOK, CacheInv, RowsInv,
    Labels, Presses, Scripted, Bootstrap, Chunks
<1>6. RowsInv'
  BY DEF BeginAction, Goto, run, IInv, PlaceInv, TypeOK, KeysInv, RowsInv,
    Labels, Presses, Scripted, Bootstrap, Chunks
<1> QED
  BY <1>1, <1>2, <1>3, <1>4, <1>5, <1>6 DEF IInv

LEMMA RowActions ==
    ASSUME TypeOK
    PROVE  \A i \in 1..Len(reported) : reported[i].action \in Int
<1>1. Labels \subseteq Int
  BY DEF Labels, Presses, Scripted, Bootstrap
<1> DEFINE Row == [chunk : Chunks, action : Labels]
<1>2. reported \in Seq(Row)
  BY DEF TypeOK
<1>3. \A i \in 1..Len(reported) : reported[i] \in Row
  <2> HIDE DEF Row
  <2> QED
    BY <1>2
<1> QED
  BY <1>1, <1>3

\* The row of the action that is finished comes behind those of older ones.
LEMMA FinishActionStep == IInv /\ FinishAction => IInv'
<1> SUFFICES ASSUME IInv, FinishAction PROVE IInv'
  OBVIOUS
<1> DEFINE row == [chunk |-> chunk, action |-> label]
<1>0. /\ reported \in Seq([chunk : Chunks, action : Labels])
      /\ row \in [chunk : Chunks, action : Labels]
      /\ Len(reported) = chunk /\ chunk \in Nat /\ label \in Int
  BY DEF FinishAction, IInv, TypeOK, RowsInv, Chunks, Labels, Presses, Scripted,
    Bootstrap
<1>1. /\ reported' = Append(reported, row)
      /\ reported' \in Seq([chunk : Chunks, action : Labels])
      /\ Len(reported') = chunk + 1
      /\ \A i \in 1..Len(reported) : reported'[i] = reported[i]
      /\ reported'[chunk + 1].chunk = chunk /\ reported'[chunk + 1].action = label
  BY <1>0 DEF FinishAction, Goto
<1>2. TypeOK'
  BY <1>1 DEF FinishAction, Goto, IInv, TypeOK
<1>3. KeysInv' /\ NewestKeyHeld'
  BY DEF FinishAction, Goto, IInv, TypeOK, KeysInv, NewestKeyHeld, Held
<1>4. PlaceInv' /\ CacheInv'
  BY <1>0, <1>1 DEF FinishAction, Goto, IInv, PlaceInv, CacheInv
<1>5. RowsInv'
  <2>1. \A i \in 1..Len(reported) : reported[i].action \in Int
    BY RowActions DEF IInv
  <2>2. \A i \in 1..Len(reported') : reported'[i].chunk = i - 1
    BY <1>0, <1>1 DEF IInv, RowsInv
  <2>3. \A i, j \in 1..Len(reported') :
            i < j => reported'[i].action < reported'[j].action
    <3> SUFFICES ASSUME NEW i \in 1..Len(reported'), NEW j \in 1..Len(reported'), i < j
                 PROVE  reported'[i].action < reported'[j].action
      OBVIOUS
    <3>1. CASE j = chunk + 1
      BY <1>0, <1>1, <3>1 DEF IInv, RowsInv
    <3>2. CASE j # chunk + 1
      BY <1>0, <1>1, <3>2 DEF IInv, RowsInv
    <3> QED
      BY <3>1, <3>2
  <2>4. \A i \in 1..Len(reported') :
            IF i = chunk + 1 THEN reported'[i].action = label
                             ELSE reported'[i].action < label
    BY <1>0, <1>1 DEF IInv, RowsInv
  <2>5. script # NoScript =>
            \A i \in 2..Len(reported') : reported'[i].action = MaxPress + i - 1
    <3> SUFFICES ASSUME script # NoScript, NEW i \in 2..Len(reported')
                 PROVE  reported'[i].action = MaxPress + i - 1
      BY DEF FinishAction, Goto
    <3>1. CASE i = chunk + 1
      <4>1. chunk # 0 /\ label = MaxPress + chunk
        BY <1>0, <1>1, <3>1 DEF IInv, KeysInv
      <4> QED
        BY <1>0, <1>1, <3>1, <4>1
    <3>2. CASE i # chunk + 1
      <4>1. i \in 1..Len(reported) /\ i \in 2..Len(reported)
        BY <1>0, <1>1, <3>2
      <4>2. reported[i].action = MaxPress + i - 1
        BY <4>1 DEF IInv, RowsInv
      <4> QED
        BY <1>1, <4>1, <4>2
    <3> QED
      BY <3>1, <3>2
  <2>6. Len(reported') > 0 => reported'[1].action = Bootstrap
    BY <1>0, <1>1 DEF IInv, RowsInv, KeysInv
  <2> QED
    BY <1>1, <2>2, <2>3, <2>4, <2>5, <2>6 DEF RowsInv, FinishAction, Goto
<1> QED
  BY <1>2, <1>3, <1>4, <1>5 DEF IInv

\* The loop goes on with an action newer than every one in the report.
LEMMA StartStep ==
    ASSUME IInv, NEW key \in Presses \cup Scripted, Start(key),
           label < key, pc \in {"choose", "wait"}, chunk < Available
    PROVE  PlaceInv' /\ CacheInv' /\ RowsInv'
<1>0. /\ Len(reported) = chunk + 1 /\ chunk \in Nat /\ label \in Int /\ key \in Int
      /\ label' = key /\ chunk' = chunk + 1 /\ chunk' \in Chunks
      /\ \A i \in 1..Len(reported) : reported[i].action \in Int
  BY RowActions DEF IInv, TypeOK, RowsInv, Start, Goto, Chunks, Labels, Presses,
    Scripted, Bootstrap
<1>1. PlaceInv'
  BY <1>0 DEF Start, Goto, IInv, PlaceInv
<1>2. CacheInv'
  BY <1>0 DEF Start, Goto, IInv, CacheInv, Chunks
<1>3. \A i \in 1..Len(reported) : reported[i].action <= label
  BY <1>0, SMTT(30) DEF IInv, RowsInv
<1>4. \A i \in 1..Len(reported) : i # chunk' + 1 /\ reported[i].action < key
  BY <1>0, <1>3
<1>5. UNCHANGED <<reported, script>> /\ pc' = "begin"
  BY DEF Start, Goto
<1>6. RowsInv'
  BY <1>0, <1>4, <1>5 DEF IInv, RowsInv
<1> QED
  BY <1>1, <1>2, <1>6

LEMMA TakePendingStep == IInv /\ TakePending => IInv'
<1> SUFFICES ASSUME IInv, TakePending PROVE IInv'
  OBVIOUS
<1>1. pending \in Presses /\ label < pending
  BY DEF TakePending, IInv, TypeOK, KeysInv
<1>2. TypeOK'
  BY <1>1 DEF TakePending, Start, Goto, IInv, TypeOK, Labels, Presses, Chunks
<1>3. KeysInv' /\ NewestKeyHeld'
  BY <1>1 DEF TakePending, Start, Goto, IInv, TypeOK, KeysInv, NewestKeyHeld,
    Held, Labels, Presses, Scripted, Bootstrap, Chunks
<1>4. PlaceInv' /\ CacheInv' /\ RowsInv'
  BY <1>1, StartStep DEF TakePending
<1> QED
  BY <1>2, <1>3, <1>4 DEF IInv

LEMMA TakeWaitingStep == IInv /\ TakeWaiting => IInv'
<1> SUFFICES ASSUME IInv, TakeWaiting PROVE IInv'
  OBVIOUS
<1>1. waiting \in Presses /\ label < waiting /\ chunk < Available
  BY DEF TakeWaiting, IInv, TypeOK, KeysInv, PlaceInv
<1>2. TypeOK'
  BY <1>1 DEF TakeWaiting, Start, Goto, IInv, TypeOK, Labels, Presses, Chunks
<1>3. KeysInv' /\ NewestKeyHeld'
  BY <1>1 DEF TakeWaiting, Start, Goto, IInv, TypeOK, KeysInv, NewestKeyHeld,
    Held, Labels, Presses, Scripted, Bootstrap, Chunks
<1>4. PlaceInv' /\ CacheInv' /\ RowsInv'
  BY <1>1, StartStep DEF TakeWaiting
<1> QED
  BY <1>2, <1>3, <1>4 DEF IInv

LEMMA TakeScriptedStep == IInv /\ TakeScripted => IInv'
<1> SUFFICES ASSUME IInv, TakeScripted PROVE IInv'
  OBVIOUS
<1> DEFINE next == MaxPress + chunk + 1
<1>1. next \in Scripted /\ label < next
  BY DEF TakeScripted, IInv, TypeOK, KeysInv, Scripted, Chunks, Bootstrap
<1>2. TypeOK'
  BY <1>1 DEF TakeScripted, Start, Goto, IInv, TypeOK, Labels, Chunks
<1>3. KeysInv' /\ NewestKeyHeld'
  BY <1>1 DEF TakeScripted, Start, Goto, IInv, TypeOK, KeysInv, NewestKeyHeld,
    Held, Labels, Presses, Scripted, Bootstrap, Chunks
<1>4. PlaceInv' /\ CacheInv' /\ RowsInv'
  BY <1>1, StartStep DEF TakeScripted
<1> QED
  BY <1>2, <1>3, <1>4 DEF IInv

LEMMA StutterStep == IInv /\ UNCHANGED vars => IInv'
BY DEF vars, input, run, IInv, TypeOK, KeysInv, NewestKeyHeld, PlaceInv, CacheInv,
    RowsInv, Held

LEMMA NextHolds == IInv /\ [Next]_vars => IInv'
BY DeliverStep, OnwardStep, EndsStep, BeginActionStep, FinishActionStep,
    TakePendingStep, TakeWaitingStep, TakeScriptedStep, StutterStep
    DEF Next, Session, Onward, Ends, Ended

-----------------------------------------------------------------------------
(* What follows *)

\* Each part of IInv holds in every state that main can reach.
THEOREM InductiveInvariant == Spec => []IInv
<1>1. QED
  BY InitHolds, NextHolds, PTL DEF Spec

\* Every variable keeps its type.
THEOREM TypeCorrect == Spec => []TypeOK
<1>1. IInv => TypeOK
  BY DEF IInv
<1> QED
  BY <1>1, InductiveInvariant, PTL

\* The newest key is waiting, pending or under way, whatever wait_for_key and
\* begin_action reset.
THEOREM NewestKeyIsHeld == Spec => []NewestKeyHeld
<1>1. IInv => NewestKeyHeld
  BY DEF IInv
<1> QED
  BY <1>1, InductiveInvariant, PTL

\* As many chunks have been written to as actions were begun.
LEMMA WrittenChunks ==
    ASSUME IInv
    PROVE  Cardinality({c \in Chunks : cache[c] # "empty"}) - Len(reported) \in 0..1
<1> DEFINE written == {c \in Chunks : cache[c] # "empty"}
<1> SUFFICES Cardinality(written) - Len(reported) \in 0..1
  OBVIOUS
<1>0. chunk \in Nat /\ chunk <= Available /\ Available \in Nat
      /\ Len(reported) \in {chunk, chunk + 1}
  BY DEF IInv, TypeOK, RowsInv, Chunks
<1>1. \A a, b \in Int : a <= b + 1 => Cardinality(a..b) = b - a + 1
  BY FS_Interval
<1>2. CASE cache[chunk] = "empty"
  <2>1. Len(reported) = chunk
    BY <1>2 DEF IInv, RowsInv, CacheInv
  <2>2. written = 0..(chunk - 1)
    BY <1>0, <1>2 DEF IInv, CacheInv, Chunks
  <2>3. Cardinality(0..(chunk - 1)) = chunk
    BY <1>0, <1>1
  <2> HIDE DEF written
  <2> QED
    BY <1>0, <2>1, <2>2, <2>3
<1>3. CASE cache[chunk] # "empty"
  <2>1. written = 0..chunk
    BY <1>0, <1>3 DEF IInv, CacheInv, Chunks
  <2>2. Cardinality(0..chunk) = chunk + 1
    BY <1>0, <1>1
  <2> HIDE DEF written
  <2> QED
    BY <1>0, <2>1, <2>2
<1> QED
  BY <1>2, <1>3

\* live_metrics.json is true of the session: its rows, its status and, for a
\* scripted session, the script.
THEOREM ReportAlwaysHonest == Spec => []ReportIsHonest
<1>1. IInv => ReportIsHonest
  <2> SUFFICES ASSUME IInv PROVE ReportIsHonest
    OBVIOUS
  <2>0. /\ chunk \in Chunks /\ chunk \in Nat /\ Len(reported) \in {chunk, chunk + 1}
        /\ \A i \in 1..Len(reported) : i - 1 \in Chunks /\ i - 1 <= chunk
    BY DEF IInv, TypeOK, RowsInv, Chunks
  <2>1. \A i \in 1..Len(reported) :
            reported[i].chunk = i - 1 /\ cache[i - 1] = "clean"
    BY <2>0 DEF IInv, RowsInv, CacheInv
  <2>2. \A i \in 1..Len(reported) - 1 :
            reported[i].action < reported[i + 1].action
    BY <2>0 DEF IInv, RowsInv
  <2>3. ReportInOrder
    BY <2>1, <2>2, WrittenChunks DEF ReportInOrder
  <2>4. StatusIsHonest
    <3> SUFFICES ASSUME Len(reported) = chunk + 1
        PROVE  /\ \A c \in Chunks : cache[c] # "noisy"
               /\ \E i \in 1..Len(reported) : reported[i].action = label
      BY DEF StatusIsHonest, IInv, PlaceInv
    <3>1. \A c \in Chunks : cache[c] # "noisy"
      BY <2>0 DEF IInv, CacheInv, Chunks
    <3>2. chunk + 1 \in 1..Len(reported) /\ reported[chunk + 1].action = label
      BY <2>0 DEF IInv, RowsInv
    <3> QED
      BY <3>1, <3>2
  <2>5. ScriptIsFollowed
    BY <2>0 DEF ScriptIsFollowed, IInv, TypeOK, RowsInv, KeysInv, PlaceInv, Chunks
  <2> QED
    BY <2>3, <2>4, <2>5 DEF ReportIsHonest
<1> QED
  BY <1>1, InductiveInvariant, PTL
-----------------------------------------------------------------------------
(* The viewer implements ActionSlot *)

Slotted == IF pending # NoKey THEN pending ELSE waiting
Running == IF label \in Presses \ Executed THEN label ELSE NoKey
Superseded == (1..pressed) \ (Executed \cup Held)

\* What has been executed is older than the keys that wait.
LEMMA ExecutedKeys ==
    ASSUME IInv
    PROVE  /\ Executed \subseteq 1..pressed
           /\ pending \notin Executed
           /\ waiting \notin Executed
           /\ label \in Executed <=> label \in Presses /\ Len(reported) = chunk + 1
<1>0. /\ chunk \in Nat /\ label \in Int /\ pressed \in 0..MaxPress
      /\ Len(reported) \in Nat
      /\ \A i \in 1..Len(reported) : reported[i].action \in Int
  BY RowActions, SMTT(30) DEF IInv, TypeOK, Chunks, Labels, Presses, Scripted, Bootstrap
<1>1. ASSUME NEW e \in Executed
      PROVE  e \in Presses /\ e <= label /\ script = NoScript
  <2>1. PICK i \in 1..Len(reported) : e = reported[i].action
    BY DEF Executed
  <2>2. e \in Presses
    BY DEF Executed
  <2>3. e <= label
    BY <1>0, <2>1 DEF IInv, RowsInv
  <2>4. script = NoScript
    <3>1. i # 1
      BY <1>0, <2>1, <2>2 DEF IInv, RowsInv, Presses, Bootstrap
    <3>2. i \in 2..Len(reported)
      BY <1>0, <3>1
    <3> QED
      BY <1>0, <2>1, <2>2, <3>2 DEF IInv, RowsInv, Presses
  <2> QED
    BY <2>2, <2>3, <2>4
<1>2. Executed \subseteq 1..pressed
  BY <1>0, <1>1 DEF IInv, KeysInv, TypeOK, Presses, Scripted, Labels, Bootstrap
<1>3. pending \notin Executed /\ waiting \notin Executed
  BY <1>0, <1>1 DEF IInv, KeysInv, TypeOK, Presses
<1>4. label \in Executed <=> label \in Presses /\ Len(reported) = chunk + 1
  <2>1. ASSUME label \in Presses, Len(reported) = chunk + 1
        PROVE  label \in Executed
    <3>1. chunk + 1 \in 1..Len(reported) /\ reported[chunk + 1].action = label
      BY <1>0, <2>1 DEF IInv, RowsInv
    <3> QED
      BY <2>1, <3>1 DEF Executed
  <2>2. ASSUME label \in Executed
        PROVE  label \in Presses /\ Len(reported) = chunk + 1
    <3>1. PICK i \in 1..Len(reported) : label = reported[i].action /\ label \in Presses
      BY <2>2 DEF Executed
    <3>2. i = chunk + 1
      BY <1>0, <3>1 DEF IInv, RowsInv
    <3> QED
      BY <1>0, <3>1, <3>2 DEF IInv, RowsInv
  <2> QED
    BY <2>1, <2>2
<1> QED
  BY <1>2, <1>3, <1>4

\* Most steps leave the slot, the running action and the record alone.
LEMMA SlotStutter ==
    ASSUME pressed \in 0..MaxPress, UNCHANGED <<label, reported, pressed, quit>>, Slotted' = Slotted,
           {pending', waiting'} \cap Presses = {pending, waiting} \cap Presses
    PROVE  UNCHANGED Slot!vars
<1>1. UNCHANGED Executed
  BY DEF Executed
<1>2. UNCHANGED Running /\ UNCHANGED Superseded
  BY <1>1 DEF Running, Superseded, Held, Presses
<1> QED
  BY <1>1, <1>2 DEF Slot!vars, Slotted, Running, Superseded

\* A key that Tk delivers takes the place of the one that waits.
LEMMA ObserveAccepts == IInv /\ Observe => Slot!Accept(pressed + 1)
<1> SUFFICES ASSUME IInv, Observe PROVE Slot!Accept(pressed + 1)
  OBVIOUS
<1> DEFINE key == pressed + 1
<1>0. /\ pressed \in 0..MaxPress /\ key \in Presses /\ key \notin 1..pressed
      /\ pressed' = key /\ NoKey \notin Presses
      /\ pending \in Presses => pending \in 1..pressed
      /\ waiting \in Presses => waiting \in 1..pressed
      /\ label \in Presses => label \in 1..pressed
      /\ pending \in Presses \cup {NoKey} /\ waiting \in Presses \cup {NoKey}
  BY DEF Observe, IInv, TypeOK, KeysInv, Presses
<1>1. /\ UNCHANGED <<label, reported, quit>>
      /\ UNCHANGED Executed
      /\ UNCHANGED Running
  BY DEF Observe, run, Executed, Running
<1>2. \/ busy /\ pending' = key /\ waiting = NoKey /\ waiting' = NoKey
      \/ ~busy /\ waiting' = key /\ pending = NoKey /\ pending' = NoKey
  BY DEF Observe, Updating, IInv, PlaceInv, KeysInv
<1>3. Slotted' = key /\ Slotted \in Presses \cup {NoKey}
  BY <1>0, <1>2 DEF Slotted
<1>4. Slotted \notin Executed /\ Executed \subseteq 1..pressed
  BY ExecutedKeys DEF Slotted
<1>5. label # Slotted \/ label \notin Presses
  BY <1>0 DEF IInv, TypeOK, KeysInv, Slotted, Labels, Presses, Scripted, Bootstrap
<1>6. Held \cap Presses = {Slotted, label} \cap Presses
  BY <1>0, <1>2 DEF Held, Slotted
<1>7. Held' \cap Presses = {key, label} \cap Presses
  BY <1>0, <1>1, <1>2 DEF Held
<1>8. /\ 1..key = (1..pressed) \cup {key}
      /\ 1..key \subseteq Presses /\ NoKey \notin 1..pressed
  BY <1>0 DEF Presses
<1>9. Superseded = (1..pressed) \ (Executed \cup {Slotted, label})
  BY <1>6, <1>8 DEF Superseded
<1>10. Superseded' = (1..pressed) \ (Executed \cup {label})
  BY <1>0, <1>1, <1>7, <1>8 DEF Superseded
<1>11. Slotted # NoKey => Slotted \in 1..pressed
  BY <1>0, <1>2 DEF Slotted
<1>12. Superseded' = Superseded \cup ({Slotted} \ {NoKey})
  <2>1. CASE Slotted = NoKey
    BY <1>8, <1>9, <1>10, <2>1
  <2>2. CASE Slotted # NoKey
    <3>1. Slotted \in 1..pressed /\ Slotted \notin Executed /\ label # Slotted
      BY <1>4, <1>5, <1>8, <1>11, <2>2
    <3> QED
      BY <1>9, <1>10, <2>2, <3>1
  <2> QED
    BY <2>1, <2>2
<1>13. key \notin {Slotted, Running} \cup Executed \cup Superseded
  BY <1>0, <1>4, <1>9, <1>11 DEF Running
<1> QED
  BY <1>1, <1>3, <1>12, <1>13
  DEF Slot!Accept, Slot!Seen, Slotted, Running, Superseded

\* The row of a key ends its execution; a scripted item never had one.
LEMMA FinishFinishes == IInv /\ FinishAction => Slot!Finish \/ UNCHANGED Slot!vars
<1> SUFFICES ASSUME IInv, FinishAction PROVE Slot!Finish \/ UNCHANGED Slot!vars
  OBVIOUS
<1> DEFINE row == [chunk |-> chunk, action |-> label]
<1>0. /\ reported \in Seq([chunk : Chunks, action : Labels])
      /\ row \in [chunk : Chunks, action : Labels]
      /\ Len(reported) = chunk /\ chunk \in Nat
      /\ pressed \in 0..MaxPress /\ NoKey \notin Presses
      /\ label \in Presses => label \in 1..pressed
  BY DEF FinishAction, IInv, TypeOK, RowsInv, KeysInv, Chunks, Labels, Presses
<1>1. /\ Len(reported') = chunk + 1
      /\ \A i \in 1..Len(reported) : reported'[i] = reported[i]
      /\ reported'[chunk + 1].action = label
      /\ UNCHANGED <<pending, waiting, quit, label, pressed>>
  BY <1>0 DEF FinishAction, Goto
<1>2. Executed' = Executed \cup ({label} \cap Presses)
  BY <1>0, <1>1 DEF Executed
<1>3. label \notin Executed
  BY <1>0, ExecutedKeys
<1>4. UNCHANGED <<Slotted, quit>>
  BY <1>1 DEF Slotted
<1>5. UNCHANGED Superseded
  BY <1>0, <1>1, <1>2 DEF Superseded, Held
<1>6. CASE label \in Presses
  <2>1. Running = label /\ Running' = NoKey /\ Executed' = Executed \cup {label}
    BY <1>1, <1>2, <1>3, <1>6 DEF Running
  <2> QED
    BY <1>0, <1>4, <1>5, <1>6, <2>1 DEF Slot!Finish, Slotted, Running, Superseded
<1>7. CASE label \notin Presses
  <2>1. UNCHANGED <<Running, Executed>>
    BY <1>1, <1>2, <1>7 DEF Running
  <2> QED
    BY <1>4, <1>5, <2>1 DEF Slot!vars, Slotted, Running, Superseded
<1> QED
  BY <1>6, <1>7

\* The key that waits is begun: its predecessor has its row by then.
LEMMA StartStarts ==
    ASSUME IInv, pc \in {"choose", "wait"}, ~quit, Slotted # NoKey, Start(Slotted),
           pending' = NoKey, waiting' = NoKey
    PROVE  Slot!Start
<1>0. /\ NoKey \notin Presses /\ Slotted \in Presses /\ pressed \in 0..MaxPress
      /\ UNCHANGED <<reported, quit, pressed>> /\ label' = Slotted
      /\ pending' = NoKey /\ waiting' = NoKey
      /\ waiting # NoKey => pending = NoKey
      /\ Len(reported) = chunk + 1
  BY DEF Start, Goto, Slotted, IInv, TypeOK, KeysInv, RowsInv, Presses
<1>1. UNCHANGED Executed /\ Slotted \notin Executed
  BY <1>0, ExecutedKeys DEF Executed, Slotted
<1>2. label \in Presses => label \in Executed
  BY <1>0, ExecutedKeys
<1>3. Running = NoKey /\ Running' = Slotted /\ Slotted' = NoKey
  BY <1>0, <1>1, <1>2 DEF Running, Slotted
<1>4. {pending, waiting} \cap Presses = {Slotted}
  BY <1>0 DEF Slotted, IInv, TypeOK
<1>5. UNCHANGED Superseded
  BY <1>0, <1>1, <1>2, <1>4 DEF Superseded, Held, Presses
<1> QED
  BY <1>0, <1>1, <1>3, <1>5 DEF Slot!Start, Slotted, Running, Superseded

\* The slot of ActionSlot is whichever of the two places holds a key; the
\* viewer accepts, starts and finishes keys as the browser's mailbox does.
THEOREM ViewerImplementsSlot == Spec => ImplementsActionSlot
<1>1. Init => Slot!Init
  BY DEF Init, Slot!Init, Executed, Held, Presses, Bootstrap
<1>2. IInv /\ [Next]_vars => [Slot!Next]_(Slot!vars)
  <2> SUFFICES ASSUME IInv, [Next]_vars PROVE Slot!Next \/ UNCHANGED Slot!vars
    OBVIOUS
  <2>0. /\ pressed \in 0..MaxPress /\ NoKey \notin Presses
        /\ pending \in Presses \cup {NoKey} /\ waiting \in Presses \cup {NoKey}
        /\ waiting # NoKey => pending = NoKey
    BY DEF IInv, TypeOK, KeysInv, Presses
  <2>1. CASE Observe
    <3>1. pressed + 1 \in Presses
      BY <2>0, <2>1 DEF Observe, Presses
    <3> QED
      BY <2>1, <3>1, ObserveAccepts DEF Slot!Next
  <2>2. CASE RequestQuit
    <3>1. UNCHANGED <<Executed, Slotted, Running, Superseded>>
      BY <2>2 DEF RequestQuit, run, Executed, Slotted, Running, Superseded, Held
    <3> QED
      BY <2>2, <3>1 DEF RequestQuit, Slot!Next, Slot!Close, Slotted, Running, Superseded
  <2>3. CASE Onward \/ Ends
    <3>1. UNCHANGED <<label, reported, pressed, quit, pending>>
      BY <2>3 DEF Onward, LeaveWindow, LoadModel, ShowFirst, ShowRefined, Shown,
        GenerateChunk, CommitClean, WaitForKey, Goto, input, run, Ends, Escape,
        AllDone, TimeUp, StopWaiting, ScriptEnds, CtrlC, Fails, Aborted, End
    <3>2. waiting' = waiting
      BY <2>3 DEF Onward, LeaveWindow, LoadModel, ShowFirst, ShowRefined, Shown,
        GenerateChunk, CommitClean, WaitForKey, Goto, input, run, Ends, Escape,
        AllDone, TimeUp, StopWaiting, ScriptEnds, CtrlC, Fails, Aborted, End,
        IInv, KeysInv
    <3> QED
      BY <2>0, <3>1, <3>2, SlotStutter DEF Slotted
  <2>4. CASE BeginAction
    <3>1. UNCHANGED <<label, reported, pressed, quit>>
      BY <2>4 DEF BeginAction, Goto, run
    <3>2. /\ Slotted' = Slotted
          /\ {pending', waiting'} \cap Presses = {pending, waiting} \cap Presses
      BY <2>0, <2>4 DEF BeginAction, Slotted
    <3> QED
      BY <2>0, <3>1, <3>2, SlotStutter
  <2>5. CASE FinishAction
    BY <2>5, FinishFinishes DEF Slot!Next
  <2>6. CASE TakePending
    <3>1. waiting = NoKey /\ ~quit /\ Slotted = pending
      BY <2>6 DEF TakePending, IInv, KeysInv, PlaceInv, Slotted
    <3> QED
      BY <2>6, <3>1, StartStarts DEF TakePending, Slot!Next
  <2>7. CASE TakeWaiting
    <3>1. pending = NoKey /\ Slotted = waiting
      BY <2>7 DEF TakeWaiting, IInv, KeysInv, Slotted
    <3> QED
      BY <2>7, <3>1, StartStarts DEF TakeWaiting, Slot!Next
  <2>8. CASE TakeScripted
    <3>1. /\ label \notin Presses /\ label' \notin Presses
          /\ UNCHANGED <<reported, pressed, quit, pending, waiting>>
      BY <2>8 DEF TakeScripted, Start, Goto, IInv, TypeOK, KeysInv, Presses, Scripted,
        Bootstrap, Chunks
    <3>2. UNCHANGED <<Executed, Slotted, Running>>
      BY <3>1 DEF Executed, Slotted, Running
    <3>3. UNCHANGED Superseded
      BY <2>0, <3>1, <3>2 DEF Superseded, Held, Presses
    <3> QED
      BY <3>1, <3>2, <3>3 DEF Slot!vars, Slotted, Running, Superseded
  <2>9. CASE UNCHANGED vars
    <3>1. UNCHANGED <<label, reported, pressed, quit, pending, waiting>>
      BY <2>9 DEF vars, input, run
    <3> QED
      BY <2>0, <3>1, SlotStutter DEF Slotted
  <2> QED
    BY <2>1, <2>2, <2>3, <2>4, <2>5, <2>6, <2>7, <2>8, <2>9
    DEF Next, Deliver, Session, Onward, Ends, Ended
<1> QED
  BY <1>1, <1>2, InductiveInvariant, PTL DEF Spec, ImplementsActionSlot, Slot!Spec
=============================================================================
