------------------------- MODULE PresentationProofs -------------------------
(***************************************************************************)
(* Proofs about the presentation queue and its JPEG thread, for any number *)
(* of actions and any frame count and bound with FrameMax <= QueueMax:     *)
(* only frames of superseded actions are dropped, each is counted, and the *)
(* frames come out in the order they went in.                              *)
(*                                                                         *)
(* The argument: once RGB0 of an action is in, the queue holds frames of   *)
(* that action only, at most as many as were submitted.  So the bound of   *)
(* the queue never drops anything; only RGB0 of the next action does.      *)
(***************************************************************************)
EXTENDS Presentation, FiniteSetTheorems, SequenceTheorems, TLAPS

\* The order of production.
Before(f, g) ==
    \/ f.action < g.action
    \/ f.action = g.action /\ f.index < g.index

\* What has been submitted is older than what the owner submits next.
SubmittedInv ==
    /\ IsFiniteSet(submitted)
    /\ \A f \in submitted :
           /\ f.action <= action
           /\ at = "first" => f.action < action
           /\ at = "tails" /\ f.action = action => f.index < index
    /\ at = "tails" => index \in 1..frames

\* The queue holds frames of one action, in order; its tails fit.
QueueInv ==
    /\ \A i \in 1..Len(queue) :
           /\ queue[i] \in submitted
           /\ at = "first" => queue[i].action = action - 1
           /\ at \in {"tails", "wait", "idle"} => queue[i].action = action
    /\ \A i, j \in 1..Len(queue) : i < j => Before(queue[i], queue[j])
    /\ at = "tails" => Len(queue) <= index

\* The worker's frame is older than those in the queue, younger than those
\* published before it.
WorkerInv ==
    /\ worker \in {"head", "take", "exited"} => item = NoFrame
    /\ worker \in {"encode", "mark", "dead"} =>
           /\ item \in submitted
           /\ \A i \in 1..Len(queue) : Before(item, queue[i])
    /\ \A p \in 1..Len(published) :
           /\ published[p] \in submitted
           /\ \A i \in 1..Len(queue) : Before(published[p], queue[i])
           /\ worker = "encode" => Before(published[p], item)
    /\ worker = "mark" => item \in ToSet(published)

IInv ==
    /\ TypeOK
    /\ SubmittedInv
    /\ QueueInv
    /\ WorkerInv
    /\ NewestFirstFrameKept

USE ConstantsAssumption

-----------------------------------------------------------------------------
(* BoundedPresentationQueue.submit *)

LEMMA DisjointUnion ==
    ASSUME NEW S, NEW T, IsFiniteSet(S), IsFiniteSet(T), S \cap T = {}
    PROVE  Cardinality(S \cup T) = Cardinality(S) + Cardinality(T)
<1>1. Cardinality(S) \in Nat /\ Cardinality(T) \in Nat
  BY FS_CardinalityType
<1>2. Cardinality(S \cap T) = 0
  BY FS_EmptySet
<1>3. Cardinality(S \cup T) = Cardinality(S) + Cardinality(T) - Cardinality(S \cap T)
  BY FS_Union
<1> QED
  BY <1>1, <1>2, <1>3

LEMMA QueuedFrames ==
    ASSUME IInv
    PROVE  \A i \in 1..Len(queue) :
               queue[i] \in Frame /\ queue[i].action \in Int /\ queue[i].index \in Int
<1>1. \A i \in 1..Len(queue) : queue[i] \in Frame
  BY DEF IInv, TypeOK
<1> QED
  BY <1>1 DEF Frame, Actions

\* RGB0 finds frames of the action before only: all of them go.
LEMMA FirstTrimsAll ==
    ASSUME IInv, at = "first"
    PROVE  Trimmed([action |-> action, index |-> 0]) = <<>>
<1> DEFINE f == [action |-> action, index |-> 0]
           same == {i \in 1..Len(queue) : queue[i].action = action}
<1>1. same = {}
  BY DEF IInv, TypeOK, QueueInv, Actions
<1>2. Cardinality(same) = 0
  BY <1>1, FS_EmptySet
<1>3. Kept(f) = <<>>
  <2>1. Kept(f) = [n \in 1..Cardinality(same) |-> queue[Nth(n, same)]]
    BY DEF Kept
  <2> HIDE DEF same
  <2> DEFINE none == [n \in 1..0 |-> queue[Nth(n, same)]]
  <2>2. none \in Seq({}) /\ Len(none) = 0
    BY 1..0 = {}
  <2>3. none = <<>>
    <3> HIDE DEF none
    <3> QED
      BY <2>2, EmptySeq
  <2> QED
    BY <1>2, <2>1, <2>3
<1> QED
  BY <1>3 DEF Trimmed

\* A tail finds at most the earlier frames of its action: there is room.
LEMMA TailsFit ==
    ASSUME IInv, at = "tails", index < frames
    PROVE  Trimmed([action |-> action, index |-> index]) = queue
<1>1. /\ index \in Nat /\ index > 0 /\ index < FrameMax
      /\ Len(queue) \in Nat /\ Len(queue) <= index
  BY DEF IInv, TypeOK, SubmittedInv, QueueInv
<1>2. Kept([action |-> action, index |-> index]) = queue
  BY <1>1 DEF Kept
<1> QED
  BY <1>1, <1>2 DEF Trimmed

LEMMA TailsNumber ==
    ASSUME IInv
    PROVE  Tails(queue) \in Nat
<1>1. IsFiniteSet(1..Len(queue))
  BY FS_Interval DEF IInv, TypeOK
<1>2. IsFiniteSet({i \in 1..Len(queue) : queue[i].index > 0})
  BY <1>1, FS_Subset
<1> QED
  BY <1>2, FS_CardinalityType DEF Tails

\* No frame is in the queue twice.
LEMMA TailsAreFrames ==
    ASSUME IInv
    PROVE  Tails(queue) = Cardinality({f \in ToSet(queue) : f.index > 0})
<1> DEFINE I == {i \in 1..Len(queue) : queue[i].index > 0}
           F == {f \in ToSet(queue) : f.index > 0}
           g == [i \in I |-> queue[i]]
<1>0. Len(queue) \in Nat /\ DOMAIN queue = 1..Len(queue)
  BY DEF IInv, TypeOK
<1>1. IsFiniteSet(I)
  <2>1. IsFiniteSet(1..Len(queue))
    BY <1>0, FS_Interval
  <2> QED
    BY <2>1, FS_Subset
<1>2. g \in [I -> F] /\ \A f \in F : \E i \in I : g[i] = f
  BY <1>0 DEF ToSet
<1>3. \A i, j \in I : i # j => g[i] # g[j]
  <2>1. \A i, j \in 1..Len(queue) : i < j => queue[i] # queue[j]
    <3>1. \A i \in 1..Len(queue) : queue[i].action \in Int /\ queue[i].index \in Int
      BY QueuedFrames
    <3> QED
      BY <3>1 DEF IInv, QueueInv, Before
  <2> QED
    BY <1>0, <2>1
<1>4. ExistsBijection(I, F)
  BY <1>2, <1>3, ZenonT(60) DEF ExistsBijection, Bijection, Injection, Surjection, IsInjective
<1>5. Cardinality(F) = Cardinality(I)
  BY <1>1, <1>4, FS_Bijection
<1> QED
  BY <1>5 DEF Tails

LEMMA SubmittedNumbers ==
    ASSUME IInv
    PROVE  \A f \in submitted : f \in Frame /\ f.action \in Int /\ f.index \in Int
<1>1. \A f \in submitted : f \in Frame
  BY DEF IInv, TypeOK
<1> QED
  BY <1>1 DEF Frame, Actions

\* The accounts stay true while nothing is lost.
LEMMA AccountsKept ==
    ASSUME IInv, Lost' = Lost, UNCHANGED <<dropped, droppedBy>>,
           action' \in {action, action + 1}
    PROVE  NewestFirstFrameKept'
<1>1. action \in Int /\ \A f \in Lost : f.action < action /\ f.action \in Int
  <2>1. Lost \subseteq Frame /\ action \in Int
    BY DEF IInv, TypeOK, Lost, Actions
  <2> QED
    BY <2>1 DEF IInv, NewestFirstFrameKept, Frame, Actions
<1> QED
  BY <1>1 DEF IInv, NewestFirstFrameKept

\* RGB0 is a new frame and displaces the whole queue.
LEMMA FirstSubmitted ==
    ASSUME IInv, SubmitFirst
    PROVE  /\ [action |-> action, index |-> 0] \in Frame \ submitted
           /\ queue' = <<[action |-> action, index |-> 0]>>
           /\ submitted' = submitted \cup {[action |-> action, index |-> 0]}
           /\ dropped' = dropped + Tails(queue)
           /\ droppedBy' = [droppedBy EXCEPT ![action] = @ + Tails(queue)]
<1> DEFINE f == [action |-> action, index |-> 0]
<1>1. f \in Frame /\ f.action = action
  BY DEF IInv, TypeOK, Frame
<1>2. f \notin submitted
  BY <1>1 DEF SubmitFirst, IInv, TypeOK, SubmittedInv, Actions
<1>3. Trimmed(f) = <<>>
  BY FirstTrimsAll DEF SubmitFirst
<1>4. Tails(<<>>) = 0 /\ Tails(queue) \in Nat
  <2>1. {j \in 1..Len(<<>>) : <<>>[j].index > 0} = {}
    OBVIOUS
  <2>2. Tails(<<>>) = 0
    BY <2>1, FS_EmptySet DEF Tails
  <2> QED
    BY <2>2, TailsNumber
<1>5. Submit(f)
  BY DEF SubmitFirst
<1> HIDE DEF f
<1>6. /\ queue' = Append(<<>>, f) /\ submitted' = submitted \cup {f}
      /\ dropped' = dropped + (Tails(queue) - 0)
      /\ droppedBy' = [droppedBy EXCEPT ![f.action] = @ + (Tails(queue) - 0)]
  BY <1>3, <1>4, <1>5 DEF Submit
<1>7. Append(<<>>, f) = <<f>> /\ Tails(queue) - 0 = Tails(queue)
  BY <1>4
<1> QED
  BY <1>1, <1>2, <1>6, <1>7 DEF f

LEMMA SubmitFirstStep == IInv /\ SubmitFirst => IInv'
<1> SUFFICES ASSUME IInv, SubmitFirst PROVE IInv'
  OBVIOUS
<1> DEFINE f == [action |-> action, index |-> 0]
<1>0. /\ f \in Frame /\ f \notin submitted /\ f.action = action /\ f.index = 0
      /\ queue' = <<f>> /\ Len(queue') = 1 /\ queue'[1] = f
      /\ submitted' = submitted \cup {f}
      /\ dropped' = dropped + Tails(queue)
      /\ droppedBy' = [droppedBy EXCEPT ![action] = @ + Tails(queue)]
      /\ at = "first" /\ at' = "tails" /\ index' = 1 /\ frames' \in 1..FrameMax
      /\ UNCHANGED <<action, waited, stop, worker, item, encoded, published>>
      /\ action \in Actions /\ action \in Int
      /\ \A g \in submitted : g.action \in Int /\ g.index \in Int /\ g.action < action
  <2>1. \A g \in submitted : g \in Frame
    BY DEF IInv, TypeOK
  <2>2. \A g \in submitted : g.action \in Int /\ g.index \in Int
    BY <2>1 DEF Frame, Actions
  <2> QED
    BY FirstSubmitted, <2>2 DEF SubmitFirst, jpeg, IInv, TypeOK, SubmittedInv, Actions
<1> DEFINE Q == {g \in ToSet(queue) : g.index > 0}
           L == {g \in Lost : g.index > 0}
<1>1. /\ ToSet(queue) \subseteq submitted
      /\ ToSet(queue) \cap ({item} \cup ToSet(published)) = {}
      /\ \A g \in ToSet(queue) : g.action = action - 1
  <2>1. ToSet(queue) = {queue[j] : j \in 1..Len(queue)}
    BY DEF ToSet, IInv, TypeOK
  <2>2. ToSet(queue) \subseteq submitted
    BY <2>1 DEF IInv, QueueInv
  <2>3. \A g \in ToSet(queue) : g.action = action - 1
    BY <1>0, <2>1 DEF IInv, QueueInv
  <2>4. item \notin ToSet(queue)
    <3>1. CASE worker \in {"head", "take", "exited"}
      BY <1>0, <2>2, <3>1 DEF IInv, WorkerInv, NoFrame, TypeOK, Frame, Actions
    <3>2. CASE worker \in {"encode", "mark", "dead"}
      BY <1>0, <2>1, <2>2, <3>2 DEF IInv, WorkerInv, Before
    <3> QED
      BY <3>1, <3>2 DEF IInv, TypeOK
  <2>5. \A p \in 1..Len(published) : published[p] \notin ToSet(queue)
    <3> SUFFICES ASSUME NEW p \in 1..Len(published), NEW j \in 1..Len(queue)
                 PROVE  published[p] # queue[j]
      BY <2>1
    <3>1. Before(published[p], queue[j]) /\ published[p] \in submitted
      BY DEF IInv, WorkerInv
    <3> QED
      BY <1>0, <3>1 DEF Before
  <2>6. ToSet(published) = {published[p] : p \in 1..Len(published)}
    BY DEF ToSet, IInv, TypeOK
  <2> QED
    BY <2>2, <2>3, <2>4, <2>5, <2>6
<1>2. Lost' = Lost \cup ToSet(queue) /\ Lost \cap ToSet(queue) = {}
  <2>1. ToSet(queue') = {f}
    BY <1>0 DEF ToSet
  <2> QED
    BY <1>0, <1>1, <2>1 DEF Lost
<1>3. IsFiniteSet(L) /\ IsFiniteSet(Q) /\ L \cap Q = {} /\ Tails(queue) = Cardinality(Q)
  <2>1. L \subseteq submitted /\ Q \subseteq submitted
    BY <1>1 DEF Lost
  <2> QED
    BY <1>2, <2>1, FS_Subset, TailsAreFrames DEF IInv, SubmittedInv
<1>4. Cardinality(L) \in Nat /\ Cardinality(Q) \in Nat
  BY <1>3, FS_CardinalityType
<1>5. dropped' = Cardinality({g \in Lost' : g.index > 0})
  <2>1. {g \in Lost' : g.index > 0} = L \cup Q
    BY <1>2
  <2>2. dropped = Cardinality(L)
    BY DEF IInv, NewestFirstFrameKept
  <2> HIDE DEF L, Q
  <2>3. Cardinality(L \cup Q) = Cardinality(L) + Cardinality(Q)
    BY <1>3, DisjointUnion
  <2> QED
    BY <1>0, <1>3, <2>1, <2>2, <2>3
<1>6. ASSUME NEW a \in Actions
      PROVE  droppedBy'[a] = Cardinality({g \in Lost' : g.index > 0 /\ g.action = a - 1})
  <2> DEFINE La == {g \in Lost : g.index > 0 /\ g.action = a - 1}
  <2>1. droppedBy[a] = Cardinality(La) /\ a \in Int /\ droppedBy \in [Actions -> Nat]
    BY DEF IInv, TypeOK, NewestFirstFrameKept, Actions
  <2>2. CASE a = action
    <3>1. {g \in Lost' : g.index > 0 /\ g.action = a - 1} = La \cup Q
      BY <1>1, <1>2, <2>2
    <3>2. La \subseteq L
      OBVIOUS
    <3> HIDE DEF L, La, Q
    <3>3. IsFiniteSet(La) /\ La \cap Q = {}
      BY <1>3, <3>2, FS_Subset
    <3>4. Cardinality(La \cup Q) = Cardinality(La) + Cardinality(Q)
      BY <1>3, <3>3, DisjointUnion
    <3> QED
      BY <1>0, <1>3, <2>1, <2>2, <3>1, <3>4
  <2>3. CASE a # action
    <3>1. {g \in Lost' : g.index > 0 /\ g.action = a - 1} = La
      BY <1>0, <1>1, <1>2, <2>1, <2>3
    <3> HIDE DEF La
    <3> QED
      BY <1>0, <2>1, <2>3, <3>1
  <2> QED
    BY <2>2, <2>3
<1>7. NewestFirstFrameKept'
  <2>1. \A g \in Lost' : g.action < action'
    BY <1>0, <1>1, <1>2 DEF IInv, NewestFirstFrameKept
  <2> QED
    BY <1>5, <1>6, <2>1 DEF NewestFirstFrameKept
<1>8. TypeOK'
  <2>1. dropped' \in Nat /\ droppedBy' \in [Actions -> Nat]
    BY <1>0, <1>3, <1>4, SMTT(30) DEF IInv, TypeOK
  <2> QED
    BY <1>0, <2>1 DEF IInv, TypeOK
<1>9. SubmittedInv'
  BY <1>0, FS_AddElement DEF IInv, SubmittedInv
<1>10. QueueInv'
  BY <1>0 DEF IInv, QueueInv
<1>11. WorkerInv'
  BY <1>0 DEF IInv, WorkerInv, Before
<1> QED
  BY <1>7, <1>8, <1>9, <1>10, <1>11 DEF IInv

\* A tail is a new frame and displaces nothing.
LEMMA SubmitTailStep == IInv /\ SubmitTail => IInv'
<1> SUFFICES ASSUME IInv, SubmitTail PROVE IInv'
  OBVIOUS
<1> DEFINE f == [action |-> action, index |-> index]
<1>1. /\ at = "tails" /\ index \in 1..frames /\ index < frames /\ frames \in 1..FrameMax
      /\ action \in Actions /\ action \in Int /\ Len(queue) \in Nat /\ Len(queue) <= index
      /\ queue \in Seq(Frame)
  BY DEF SubmitTail, IInv, TypeOK, SubmittedInv, QueueInv, Actions
<1>2. f \in Frame /\ f.action = action /\ f.index = index
  BY <1>1 DEF Frame
<1>3. f \notin submitted
  BY <1>1, <1>2 DEF IInv, SubmittedInv
<1>4. Trimmed(f) = queue
  BY <1>1, TailsFit
<1>5. Tails(queue) - Tails(queue) = 0
  BY TailsNumber
<1>6. Submit(f) /\ at' = "tails" /\ index' = index + 1
      /\ UNCHANGED <<action, frames, waited, stop, worker, item, encoded, published>>
  BY <1>1 DEF SubmitTail, jpeg
<1>7. /\ queue' = Append(queue, f) /\ submitted' = submitted \cup {f}
      /\ dropped' = dropped /\ droppedBy' = droppedBy
  <2> HIDE DEF f
  <2>1. /\ queue' = Append(queue, f) /\ submitted' = submitted \cup {f}
        /\ dropped' = dropped + 0
        /\ droppedBy' = [droppedBy EXCEPT ![f.action] = @ + 0]
    BY <1>4, <1>5, <1>6 DEF Submit
  <2> QED
    BY <1>1, <1>2, <2>1 DEF IInv, TypeOK
<1>8. /\ Len(queue') = Len(queue) + 1 /\ queue'[Len(queue) + 1] = f
      /\ \A i \in 1..Len(queue) : queue'[i] = queue[i]
      /\ queue' \in Seq(Frame)
  <2> HIDE DEF f
  <2> QED
    BY <1>1, <1>2, <1>7
<1>9. \A g \in submitted : Before(g, f)
  <2>1. \A g \in submitted : g.action \in Int /\ g.index \in Int
    BY SubmittedNumbers
  <2> QED
    BY <1>1, <1>2, <2>1 DEF IInv, SubmittedInv, Before
<1> HIDE DEF f
<1>10. TypeOK'
  BY <1>1, <1>2, <1>6, <1>7, <1>8 DEF IInv, TypeOK
<1>11. SubmittedInv'
  BY <1>1, <1>2, <1>6, <1>7, FS_AddElement, SubmittedNumbers DEF IInv, SubmittedInv
<1>12. QueueInv'
  <2>1. \A i, j \in 1..Len(queue') : i < j => Before(queue'[i], queue'[j])
    <3> SUFFICES ASSUME NEW i \in 1..Len(queue'), NEW j \in 1..Len(queue'), i < j
                 PROVE  Before(queue'[i], queue'[j])
      OBVIOUS
    <3>1. i \in 1..Len(queue) /\ queue'[i] = queue[i] /\ queue[i] \in submitted
      BY <1>1, <1>8 DEF IInv, QueueInv
    <3>2. CASE j = Len(queue) + 1
      BY <1>8, <1>9, <3>1, <3>2
    <3>3. CASE j # Len(queue) + 1
      BY <1>1, <1>8, <3>1, <3>3 DEF IInv, QueueInv
    <3> QED
      BY <3>2, <3>3
  <2>2. \A i \in 1..Len(queue') :
            queue'[i] \in submitted' /\ queue'[i].action = action'
    BY <1>1, <1>2, <1>6, <1>7, <1>8 DEF IInv, QueueInv
  <2> QED
    BY <1>1, <1>6, <1>8, <2>1, <2>2 DEF QueueInv
<1>13. WorkerInv'
  <2>1. ASSUME NEW g \in submitted, \A i \in 1..Len(queue) : Before(g, queue[i])
        PROVE  \A i \in 1..Len(queue') : Before(g, queue'[i])
    BY <1>1, <1>8, <1>9, <2>1
  <2> QED
    BY <1>6, <1>7, <2>1 DEF IInv, WorkerInv
<1>14. Lost' = Lost
  <2>1. ToSet(queue') = ToSet(queue) \cup {f}
    BY <1>1, <1>8 DEF ToSet
  <2> QED
    BY <1>3, <1>6, <1>7, <2>1 DEF Lost
<1> QED
  BY <1>1, <1>6, <1>7, <1>10, <1>11, <1>12, <1>13, <1>14, AccountsKept DEF IInv

-----------------------------------------------------------------------------
(* The other steps *)

\* The owner moves on, stops the worker or is told about the first frame.
OwnerMoves ==
    \/ EndAction
    \/ WaitEncoded
    \/ NextAction
    \/ StopPresentation
    \/ Joined

LEMMA OwnerMovesStep == IInv /\ OwnerMoves => IInv'
<1> SUFFICES ASSUME IInv, OwnerMoves PROVE IInv'
  OBVIOUS
<1>1. /\ UNCHANGED <<queue, dropped, droppedBy, worker, item, encoded, published, submitted>>
      /\ action' \in {action, action + 1}
  BY DEF OwnerMoves, EndAction, WaitEncoded, NextAction, StopPresentation, Joined,
    fifo, jpeg
<1>2. TypeOK'
  <2>1. waited' \in BOOLEAN
    <3>1. CASE WaitEncoded
      <4> DEFINE marked == [action |-> 0, index |-> 0] \in encoded
      <4>1. waited' = marked
        BY <3>1 DEF WaitEncoded
      <4>2. marked \in BOOLEAN
        OBVIOUS
      <4> HIDE DEF marked
      <4> QED
        BY <4>1, <4>2
    <3>2. CASE ~WaitEncoded
      BY <3>2 DEF OwnerMoves, EndAction, NextAction, StopPresentation, Joined, IInv, TypeOK
    <3> QED
      BY <3>1, <3>2
  <2>0. stop' \in BOOLEAN /\ UNCHANGED <<index, frames>>
    BY DEF OwnerMoves, EndAction, WaitEncoded, NextAction, StopPresentation, Joined,
      IInv, TypeOK
  <2>2. /\ at' \in {"first", "tails", "wait", "idle", "joining", "finished"}
        /\ action' \in Actions
    BY DEF OwnerMoves, EndAction, WaitEncoded, NextAction, StopPresentation, Joined,
      IInv, TypeOK, Actions
  <2> QED
    BY <1>1, <2>0, <2>1, <2>2 DEF IInv, TypeOK
<1>3. SubmittedInv' /\ QueueInv'
  <2>1. action \in Int /\ \A g \in submitted : g.action \in Int
    BY SubmittedNumbers DEF IInv, TypeOK, Actions
  <2>2. CASE NextAction
    BY <1>1, <2>1, <2>2 DEF NextAction, IInv, SubmittedInv, QueueInv
  <2>3. CASE ~NextAction
    BY <1>1, <2>1, <2>3 DEF OwnerMoves, EndAction, WaitEncoded, StopPresentation,
      Joined, IInv, SubmittedInv, QueueInv
  <2> QED
    BY <2>2, <2>3
<1>4. WorkerInv'
  BY <1>1 DEF IInv, WorkerInv
<1>5. Lost' = Lost
  BY <1>1 DEF Lost
<1> QED
  BY <1>1, <1>2, <1>3, <1>4, <1>5, AccountsKept DEF IInv

WorkerMoves == WorkerStep \/ WorkerFails

\* The worker takes the oldest frame and passes it on.
LEMMA WorkerMovesStep == IInv /\ WorkerMoves => IInv'
<1> SUFFICES ASSUME IInv, WorkerMoves PROVE IInv'
  OBVIOUS
<1>1. /\ UNCHANGED <<at, action, index, frames, waited, dropped, droppedBy, stop, submitted>>
  BY DEF WorkerMoves, WorkerStep, WorkerHead, WorkerTake, WorkerPublish, WorkerMark,
    WorkerFails, owner, fifo
<1>2. SubmittedInv'
  BY <1>1 DEF IInv, SubmittedInv
<1>3. queue \in Seq(Frame) /\ Len(queue) \in Nat /\ queue' \in {queue, Tail(queue)}
      /\ (queue' # queue => queue # <<>>)
      /\ published \in Seq(Frame) /\ item \in Frame \cup {NoFrame}
  BY DEF WorkerMoves, WorkerStep, WorkerHead, WorkerTake, WorkerPublish, WorkerMark,
    WorkerFails, fifo, IInv, TypeOK
<1>4. CASE queue' = queue
  <2>1. QueueInv'
    BY <1>1, <1>4 DEF IInv, QueueInv
  <2>2. CASE WorkerPublish
    <3>1. item \in Frame /\ item \in submitted
      BY <1>3, <2>2 DEF WorkerPublish, IInv, TypeOK, WorkerInv
    <3>2. /\ published' \in Seq(Frame) /\ Len(published') = Len(published) + 1
          /\ published'[Len(published) + 1] = item
          /\ \A p \in 1..Len(published) : published'[p] = published[p]
          /\ Len(published) \in Nat
      BY <1>3, <2>2, <3>1 DEF WorkerPublish
    <3>3. ToSet(published') = ToSet(published) \cup {item}
      BY <1>3, <3>2 DEF ToSet
    <3>4. TypeOK'
      BY <1>1, <1>4, <2>2, <3>2 DEF WorkerPublish, IInv, TypeOK
    <3>5. WorkerInv'
      BY <1>1, <1>4, <2>2, <3>1, <3>2, <3>3 DEF WorkerPublish, IInv, WorkerInv
    <3>6. Lost' = Lost
      BY <1>1, <1>4, <2>2, <3>3 DEF WorkerPublish, Lost
    <3> QED
      BY <1>1, <1>2, <2>1, <3>4, <3>5, <3>6, AccountsKept DEF IInv
  <2>3. CASE WorkerMark
    <3>1. TypeOK'
      BY <1>1, <1>4, <2>3 DEF WorkerMark, IInv, TypeOK, WorkerInv
    <3>2. WorkerInv'
      BY <1>1, <1>4, <2>3 DEF WorkerMark, IInv, WorkerInv
    <3>3. Lost' = Lost
      <4>1. NoFrame \notin submitted
        BY DEF IInv, TypeOK, Frame, NoFrame, Actions
      <4> QED
        BY <1>1, <1>4, <2>3, <4>1 DEF WorkerMark, IInv, WorkerInv, Lost
    <3> QED
      BY <1>1, <1>2, <2>1, <3>1, <3>2, <3>3, AccountsKept DEF IInv
  <2>4. CASE WorkerHead \/ WorkerFails \/ WorkerTake
    <3>1. UNCHANGED <<encoded, published>> /\ (~WorkerTake \/ queue = <<>> => UNCHANGED item)
      BY <2>4 DEF WorkerHead, WorkerFails, WorkerTake
    <3>2. queue # <<>> => Tail(queue) # queue
      BY <1>3
    <3>3. UNCHANGED item /\ worker' \in {"exited", "take", "dead", "head"}
      BY <1>4, <2>4, <3>1, <3>2 DEF WorkerTake, WorkerHead, WorkerFails
    <3>4. WorkerInv'
      BY <1>1, <1>4, <2>4, <3>1, <3>3 DEF WorkerHead, WorkerFails, WorkerTake, IInv, WorkerInv
    <3>5. TypeOK' /\ Lost' = Lost
      BY <1>1, <1>4, <3>1, <3>3 DEF IInv, TypeOK, Lost
    <3> QED
      BY <1>1, <1>2, <2>1, <3>4, <3>5, AccountsKept DEF IInv
  <2> QED
    BY <2>2, <2>3, <2>4 DEF WorkerMoves, WorkerStep
<1>5. CASE queue' # queue
  <2>1. /\ worker = "take" /\ worker' = "encode" /\ queue # <<>>
        /\ item' = queue[1] /\ queue' = Tail(queue)
        /\ UNCHANGED <<encoded, published>>
    BY <1>3, <1>5 DEF WorkerMoves, WorkerStep, WorkerHead, WorkerTake, WorkerPublish,
      WorkerMark, WorkerFails, fifo
  <2>2. /\ Len(queue') = Len(queue) - 1 /\ Len(queue) >= 1 /\ queue' \in Seq(Frame)
        /\ \A i \in 1..Len(queue') : i + 1 \in 1..Len(queue) /\ queue'[i] = queue[i + 1]
        /\ queue[1] \in Frame
    BY <1>3, <2>1
  <2>3. TypeOK'
    BY <1>1, <2>1, <2>2 DEF IInv, TypeOK
  <2>4. QueueInv'
    <3>1. \A i, j \in 1..Len(queue') : i < j => Before(queue'[i], queue'[j])
      <4> SUFFICES ASSUME NEW i \in 1..Len(queue'), NEW j \in 1..Len(queue'), i < j
                   PROVE  Before(queue[i + 1], queue[j + 1])
        BY <2>2
      <4>1. i + 1 \in 1..Len(queue) /\ j + 1 \in 1..Len(queue) /\ i + 1 < j + 1
        BY <2>2
      <4> QED
        BY <4>1 DEF IInv, QueueInv
    <3>2. at = "tails" => Len(queue') <= index
      BY <1>3, <2>2 DEF IInv, QueueInv, TypeOK
    <3> QED
      BY <1>1, <2>2, <3>1, <3>2 DEF IInv, QueueInv
  <2>5. WorkerInv'
    <3>1. \A i \in 1..Len(queue') : Before(queue[1], queue'[i])
      <4> SUFFICES ASSUME NEW i \in 1..Len(queue') PROVE Before(queue[1], queue[i + 1])
        BY <2>2
      <4>1. 1 \in 1..Len(queue) /\ i + 1 \in 1..Len(queue) /\ 1 < i + 1
        BY <2>2
      <4> QED
        BY <4>1 DEF IInv, QueueInv
    <3>2. queue[1] \in submitted /\ 1 \in 1..Len(queue)
      BY <1>3, <2>2 DEF IInv, QueueInv
    <3>3. \A p \in 1..Len(published) :
              /\ Before(published[p], queue[1])
              /\ \A i \in 1..Len(queue') : Before(published[p], queue'[i])
      BY <2>2, <3>2 DEF IInv, WorkerInv
    <3> QED
      BY <1>1, <2>1, <3>1, <3>2, <3>3 DEF IInv, WorkerInv
  <2>6. Lost' = Lost
    <3>1. ToSet(queue) = ToSet(queue') \cup {queue[1]}
      <4>1. DOMAIN queue = 1..Len(queue) /\ DOMAIN queue' = 1..Len(queue')
        BY <1>3, <2>2
      <4>2. \A j \in 1..Len(queue) : j # 1 => j - 1 \in 1..Len(queue') /\ queue'[j - 1] = queue[j]
        BY <1>3, <2>2
      <4>3. ASSUME NEW f \in ToSet(queue) PROVE f \in ToSet(queue') \cup {queue[1]}
        <5>1. PICK j \in 1..Len(queue) : f = queue[j]
          BY <4>1 DEF ToSet
        <5>2. j # 1 => \E i \in 1..Len(queue') : f = queue'[i]
          BY <4>2, <5>1
        <5> QED
          BY <4>1, <5>1, <5>2 DEF ToSet
      <4>4. ToSet(queue') \cup {queue[1]} \subseteq ToSet(queue)
        BY <2>2, <4>1, SMTT(30) DEF ToSet
      <4> QED
        BY <4>3, <4>4
    <3>2. item \notin submitted
      BY <2>1 DEF IInv, TypeOK, WorkerInv, Frame, NoFrame, Actions
    <3> QED
      BY <1>1, <2>1, <3>1, <3>2 DEF Lost
  <2> QED
    BY <1>1, <1>2, <2>3, <2>4, <2>5, <2>6, AccountsKept DEF IInv
<1> QED
  BY <1>4, <1>5

LEMMA InitHolds == Init => IInv
<1> SUFFICES ASSUME Init PROVE IInv
  OBVIOUS
<1>1. Lost = {}
  BY DEF Init, Lost
<1>2. {f \in Lost : f.index > 0} = {}
      /\ \A a \in Actions : {f \in Lost : f.index > 0 /\ f.action = a - 1} = {}
  BY <1>1
<1>3. NewestFirstFrameKept
  BY <1>1, <1>2, FS_EmptySet DEF Init, NewestFirstFrameKept
<1>4. TypeOK
  BY DEF Init, TypeOK, Actions
<1>5. SubmittedInv /\ QueueInv /\ WorkerInv
  BY FS_EmptySet DEF Init, SubmittedInv, QueueInv, WorkerInv
<1> QED
  BY <1>3, <1>4, <1>5 DEF IInv

LEMMA NextHolds == IInv /\ [Next]_vars => IInv'
<1>1. IInv /\ UNCHANGED vars => IInv'
  BY DEF vars, IInv, TypeOK, SubmittedInv, QueueInv, WorkerInv, NewestFirstFrameKept, Lost
<1> QED
  BY <1>1, SubmitFirstStep, SubmitTailStep, OwnerMovesStep, WorkerMovesStep
  DEF Next, OwnerStep, OwnerMoves, WorkerMoves, Finished

-----------------------------------------------------------------------------
(* What follows *)

\* Each part of IInv holds in every state the two threads can reach.
THEOREM InductiveInvariant == Spec => []IInv
<1>1. QED
  BY InitHolds, NextHolds, PTL DEF Spec

\* Every variable keeps its type; the queue never holds more than QueueMax.
THEOREM TypeCorrect == Spec => []TypeOK
<1>1. IInv => TypeOK
  BY DEF IInv
<1> QED
  BY <1>1, InductiveInvariant, PTL

\* Only frames of superseded actions are dropped, and each dropped tail is
\* counted once, on the account of the next action.
THEOREM NewestFirstFrameIsKept == Spec => []NewestFirstFrameKept
<1>1. IInv => NewestFirstFrameKept
  BY DEF IInv
<1> QED
  BY <1>1, InductiveInvariant, PTL

-----------------------------------------------------------------------------
(* What is published follows one another as FrameSource says *)

\* The frame published last, and the last one in front of the queue.
Shown == IF published = <<>> THEN NoFrame ELSE Last(published)
Ahead == IF worker = "encode" THEN item ELSE Shown

Succeeds(f, g) ==
    \/ f.index = 0 /\ f.action > g.action
    \/ f.action = g.action /\ f.index = g.index + 1

\* As long as the worker lives: each frame on its way succeeds the one in front
\* of it, and what the owner submits next succeeds the last of them.
TurnInv ==
    worker # "dead" =>
        /\ worker = "encode" => Succeeds(item, Shown)
        /\ queue # <<>> => Succeeds(queue[1], Ahead)
        /\ \A i \in 1..(Len(queue) - 1) : Succeeds(queue[i + 1], queue[i])
        /\ at = "tails" =>
               [action |-> action, index |-> index - 1]
                   = IF queue = <<>> THEN Ahead ELSE queue[Len(queue)]

\* A frame that is ahead of the queue is an old one.
LEMMA AheadFacts ==
    ASSUME IInv
    PROVE  /\ Shown \in submitted \cup {NoFrame} /\ Ahead \in submitted \cup {NoFrame}
           /\ \A f \in submitted \cup {NoFrame} : f.action \in Int /\ f.index \in Int
           /\ action \in Nat
<1>1. Shown \in submitted \cup {NoFrame}
  <2>1. CASE published = <<>>
    BY <2>1 DEF Shown
  <2>2. CASE published # <<>>
    <3>1. published \in Seq(Frame)
      BY DEF IInv, TypeOK
    <3>2. Len(published) \in 1..Len(published) /\ Last(published) = published[Len(published)]
      BY <2>2, <3>1 DEF Last
    <3> QED
      BY <2>2, <3>2 DEF Shown, IInv, WorkerInv
  <2> QED
    BY <2>1, <2>2
<1>2. Ahead \in submitted \cup {NoFrame}
  BY <1>1 DEF Ahead, IInv, WorkerInv
<1>3. \A f \in submitted \cup {NoFrame} : f.action \in Int /\ f.index \in Int
  BY SubmittedNumbers DEF NoFrame
<1>4. action \in Nat
  BY DEF IInv, TypeOK, Actions
<1> QED
  BY <1>1, <1>2, <1>3, <1>4

LEMMA TurnFirst == IInv /\ TurnInv /\ SubmitFirst => TurnInv'
<1> SUFFICES ASSUME IInv, TurnInv, SubmitFirst, worker # "dead" PROVE TurnInv'
  BY DEF TurnInv, SubmitFirst, jpeg
<1> DEFINE f == [action |-> action, index |-> 0]
<1>1. /\ queue' = <<f>> /\ at = "first" /\ at' = "tails" /\ index' = 1
      /\ UNCHANGED <<action, worker, item, published>>
  BY FirstSubmitted DEF SubmitFirst, jpeg
<1>2. Shown' = Shown /\ Ahead' = Ahead
  BY <1>1 DEF Shown, Ahead
<1>3. Succeeds(f, Ahead)
  <2>1. Ahead.action < action
    <3>1. \A g \in submitted : g.action < action
      BY <1>1 DEF IInv, SubmittedInv
    <3>2. NoFrame.action = -1
      BY DEF NoFrame
    <3> QED
      BY <3>1, <3>2, AheadFacts
  <2> QED
    BY <2>1, AheadFacts DEF Succeeds
<1>4. queue' # <<>> /\ Len(queue') = 1 /\ queue'[1] = f
  BY <1>1
<1>5. worker' = "encode" => Succeeds(item', Shown')
  BY <1>1, <1>2 DEF TurnInv
<1>6. [action |-> action', index |-> index' - 1] = f
  BY <1>1
<1>7. \A i \in 1..(Len(queue') - 1) : FALSE
  BY <1>4
<1> HIDE DEF f
<1> QED
  BY <1>1, <1>2, <1>3, <1>4, <1>5, <1>6, <1>7 DEF TurnInv

LEMMA TurnTail == IInv /\ TurnInv /\ SubmitTail => TurnInv'
<1> SUFFICES ASSUME IInv, TurnInv, SubmitTail, worker # "dead" PROVE TurnInv'
  BY DEF TurnInv, SubmitTail, jpeg
<1> DEFINE f == [action |-> action, index |-> index]
           g == [action |-> action, index |-> index - 1]
<1>1. /\ at = "tails" /\ index < frames /\ at' = "tails" /\ index' = index + 1
      /\ queue' = Append(queue, f)
      /\ UNCHANGED <<action, worker, item, published>>
  BY TailsFit DEF SubmitTail, Submit, jpeg
<1>2. queue \in Seq(Frame) /\ index \in Nat /\ index > 0 /\ action \in Nat
  BY <1>1 DEF IInv, TypeOK, SubmittedInv, Actions
<1>3. f \in Frame
  BY <1>1, <1>2 DEF IInv, TypeOK, Frame
<1>4. Succeeds(f, g)
  BY <1>2 DEF Succeeds
<1>5. [action |-> action', index |-> index' - 1] = f
  BY <1>1, <1>2
<1>6. g = IF queue = <<>> THEN Ahead ELSE queue[Len(queue)]
  BY <1>1 DEF TurnInv
<1>7. Shown' = Shown /\ Ahead' = Ahead
  BY <1>1 DEF Shown, Ahead
<1> HIDE DEF f, g
<1>8. /\ queue' # <<>> /\ Len(queue') = Len(queue) + 1 /\ Len(queue) \in Nat
      /\ queue'[Len(queue) + 1] = f
      /\ \A i \in 1..Len(queue) : queue'[i] = queue[i]
      /\ (queue = <<>> <=> Len(queue) = 0)
  BY <1>1, <1>2, <1>3
<1>9. Succeeds(queue'[1], Ahead)
  <2>1. CASE queue = <<>>
    BY <1>4, <1>6, <1>8, <2>1
  <2>2. CASE queue # <<>>
    BY <1>8, <2>2 DEF TurnInv
  <2> QED
    BY <2>1, <2>2
<1>10. ASSUME NEW i \in 1..(Len(queue') - 1) PROVE Succeeds(queue'[i + 1], queue'[i])
  <2>1. i \in 1..Len(queue)
    BY <1>8
  <2>2. CASE i = Len(queue)
    BY <1>4, <1>6, <1>8, <2>1, <2>2
  <2>3. CASE i # Len(queue)
    <3>1. i \in 1..(Len(queue) - 1) /\ i + 1 \in 1..Len(queue)
      BY <1>8, <2>1, <2>3
    <3> QED
      BY <1>8, <2>1, <3>1 DEF TurnInv
  <2> QED
    BY <2>2, <2>3
<1>11. worker' = "encode" => Succeeds(item', Shown')
  BY <1>1, <1>7 DEF TurnInv
<1> QED
  BY <1>5, <1>7, <1>8, <1>9, <1>10, <1>11 DEF TurnInv

\* Nobody but the owner and the worker's three steps moves a frame.
LEMMA TurnElse ==
    ASSUME IInv, TurnInv,
           OwnerMoves \/ WorkerHead \/ WorkerMark \/ WorkerFails \/ Finished \/ UNCHANGED vars
    PROVE  TurnInv' /\ published' = published
<1>1. /\ queue' = queue /\ published' = published
      /\ at' = "tails" => at = "tails" /\ action' = action /\ index' = index
  BY DEF OwnerMoves, EndAction, WaitEncoded, NextAction, Joined,
    StopPresentation, WorkerHead, WorkerMark, WorkerFails, Finished, vars, fifo, owner, jpeg
<1>2. worker' = "dead" \/ /\ worker # "dead"
                          /\ worker = "encode" <=> worker' = "encode"
                          /\ worker = "encode" => item' = item
  BY DEF OwnerMoves, EndAction, WaitEncoded, NextAction, Joined,
    StopPresentation, WorkerHead, WorkerMark, WorkerFails, Finished, vars, fifo, owner, jpeg
<1>3. CASE worker' = "dead"
  BY <1>1, <1>3 DEF TurnInv
<1>4. CASE worker' # "dead"
  <2>1. Shown' = Shown /\ Ahead' = Ahead
    BY <1>1, <1>2, <1>4 DEF Shown, Ahead
  <2> QED
    BY <1>1, <1>2, <1>4, <2>1 DEF TurnInv
<1> QED
  BY <1>3, <1>4

LEMMA TurnTake == IInv /\ TurnInv /\ WorkerTake => TurnInv' /\ published' = published
<1> SUFFICES ASSUME IInv, TurnInv, WorkerTake PROVE TurnInv' /\ published' = published
  OBVIOUS
<1>1. /\ worker = "take" /\ UNCHANGED <<at, action, index, published>>
      /\ \/ queue = <<>> /\ worker' = "head" /\ queue' = queue
         \/ queue # <<>> /\ item' = Head(queue) /\ queue' = Tail(queue) /\ worker' = "encode"
  BY DEF WorkerTake, owner
<1>2. Shown' = Shown /\ Ahead = Shown /\ queue \in Seq(Frame)
  BY <1>1 DEF Shown, Ahead, IInv, TypeOK
<1>3. CASE queue = <<>> /\ worker' = "head" /\ queue' = queue
  <2>1. Ahead' = Ahead
    BY <1>2, <1>3 DEF Ahead
  <2> QED
    BY <1>1, <1>2, <1>3, <2>1 DEF TurnInv
<1>4. CASE queue # <<>> /\ item' = Head(queue) /\ queue' = Tail(queue) /\ worker' = "encode"
  <2>1. /\ item' = queue[1] /\ Len(queue) \in Nat /\ Len(queue) >= 1
        /\ Len(queue') = Len(queue) - 1
        /\ \A i \in 1..Len(queue') : queue'[i] = queue[i + 1]
        /\ (queue' = <<>> <=> Len(queue) = 1)
    <3>1. Len(queue) \in Nat /\ Len(queue) >= 1
      BY <1>2, <1>4
    <3>2. queue' \in Seq(Frame) /\ Len(queue') = Len(queue) - 1 /\ item' = queue[1]
      BY <1>2, <1>4
    <3>3. \A i \in 1..Len(queue') : queue'[i] = queue[i + 1]
      BY <1>2, <1>4, <3>2
    <3>4. queue' = <<>> <=> Len(queue') = 0
      BY <3>2
    <3> QED
      BY <3>1, <3>2, <3>3, <3>4
  <2>2. Ahead' = queue[1] /\ Succeeds(queue[1], Shown)
    BY <1>1, <1>2, <1>4, <2>1 DEF Ahead, TurnInv
  <2>3. \A i \in 1..(Len(queue) - 1) : Succeeds(queue[i + 1], queue[i])
    BY <1>1 DEF TurnInv
  <2>4. queue' # <<>> => Succeeds(queue'[1], Ahead')
    <3> SUFFICES ASSUME queue' # <<>> PROVE Succeeds(queue'[1], Ahead')
      OBVIOUS
    <3>1. 1 \in 1..Len(queue') /\ 1 \in 1..(Len(queue) - 1)
      BY <2>1
    <3>2. queue'[1] = queue[1 + 1] /\ Succeeds(queue[1 + 1], queue[1])
      BY <2>1, <2>3, <3>1
    <3> QED
      BY <2>2, <3>2
  <2>5. ASSUME NEW i \in 1..(Len(queue') - 1) PROVE Succeeds(queue'[i + 1], queue'[i])
    <3>1. /\ i \in 1..Len(queue') /\ i + 1 \in 1..Len(queue')
          /\ i + 1 \in 1..(Len(queue) - 1)
      BY <2>1
    <3>2. queue'[i] = queue[i + 1] /\ queue'[i + 1] = queue[(i + 1) + 1]
      BY <2>1, <3>1
    <3> QED
      BY <2>3, <3>1, <3>2
  <2>6. at' = "tails" =>
            [action |-> action', index |-> index' - 1]
                = IF queue' = <<>> THEN Ahead' ELSE queue'[Len(queue')]
    <3> SUFFICES ASSUME at = "tails"
                 PROVE  queue[Len(queue)]
                            = IF queue' = <<>> THEN Ahead' ELSE queue'[Len(queue')]
      BY <1>1, <1>4 DEF TurnInv
    <3>1. CASE queue' = <<>>
      BY <2>1, <2>2, <3>1
    <3>2. CASE queue' # <<>>
      <4>1. Len(queue') \in 1..Len(queue') /\ Len(queue') + 1 = Len(queue)
        BY <2>1, <3>2
      <4> QED
        BY <2>1, <3>2, <4>1
    <3> QED
      BY <3>1, <3>2
  <2>7. Succeeds(item', Shown')
    BY <1>2, <2>1, <2>2
  <2> QED
    BY <1>1, <1>4, <2>4, <2>5, <2>6, <2>7 DEF TurnInv
<1> QED
  BY <1>1, <1>3, <1>4

LEMMA TurnPublish ==
    IInv /\ TurnInv /\ WorkerPublish
        => TurnInv' /\ Shown' \in Frame /\ Succeeds(Shown', Shown)
<1> SUFFICES ASSUME IInv, TurnInv, WorkerPublish
             PROVE  TurnInv' /\ Shown' \in Frame /\ Succeeds(Shown', Shown)
  OBVIOUS
<1>1. /\ worker = "encode" /\ worker' = "mark" /\ published' = Append(published, item)
      /\ UNCHANGED <<at, action, index, queue>>
  BY DEF WorkerPublish, owner, fifo
<1>2. item \in Frame /\ published \in Seq(Frame)
  BY <1>1, SubmittedNumbers DEF IInv, TypeOK, WorkerInv
<1>3. Shown' = item
  <2>1. published' # <<>> /\ Last(published') = item
    BY <1>1, <1>2 DEF Last
  <2> QED
    BY <2>1 DEF Shown
<1>4. Ahead = item /\ Ahead' = item
  BY <1>1, <1>3 DEF Ahead
<1>5. Succeeds(item, Shown)
  BY <1>1 DEF TurnInv
<1> QED
  BY <1>1, <1>2, <1>3, <1>4, <1>5 DEF TurnInv

\* Only WorkerPublish publishes, and what it publishes succeeds the frame before.
LEMMA TurnStep ==
    ASSUME IInv, TurnInv, [Next]_vars
    PROVE  /\ TurnInv'
           /\ \/ Shown' = Shown
              \/ (Shown' \in Frame /\ Succeeds(Shown', Shown))
<1>0. ASSUME published' = published PROVE Shown' = Shown
  BY <1>0 DEF Shown
<1>1. CASE SubmitFirst
  <2>1. published' = published
    BY <1>1 DEF SubmitFirst, jpeg
  <2> QED
    BY <1>0, <1>1, <2>1, TurnFirst
<1>2. CASE SubmitTail
  <2>1. published' = published
    BY <1>2 DEF SubmitTail, jpeg
  <2> QED
    BY <1>0, <1>2, <2>1, TurnTail
<1>3. CASE OwnerMoves \/ WorkerHead \/ WorkerMark \/ WorkerFails \/ Finished \/ UNCHANGED vars
  BY <1>0, <1>3, TurnElse
<1>4. CASE WorkerTake
  BY <1>0, <1>4, TurnTake
<1>5. CASE WorkerPublish
  BY <1>5, TurnPublish
<1> QED
  BY <1>1, <1>2, <1>3, <1>4, <1>5 DEF Next, OwnerStep, WorkerStep, OwnerMoves

\* The frames of an action are published from RGB0 on, none left out before
\* RGB0 of a later one: what EventDelivery assumes of its publisher.
THEOREM PresentationFollows == Spec => Source!Spec
<1>1. Init => IInv /\ TurnInv /\ Source!Init
  BY InitHolds DEF Init, TurnInv, Source!Init, NoFrame
<1>2. IInv /\ TurnInv /\ [Next]_vars => IInv' /\ TurnInv'
  BY NextHolds, TurnStep
<1>3. IInv /\ TurnInv /\ [Next]_vars => [Source!Publish]_Shown
  <2>1. Frame = Source!Places
    BY DEF Frame, Actions, Source!Places
  <2>2. ASSUME Succeeds(Shown', Shown), Shown' \in Frame PROVE Source!Publish
    BY <2>1, <2>2 DEF Source!Publish, Source!Follows, Succeeds, Shown
  <2> QED
    BY <2>2, TurnStep
<1>4. [Source!Publish]_Shown
          => [Source!Publish]_(IF published = <<>> THEN NoFrame ELSE Last(published))
  BY DEF Shown
<1> QED
  BY <1>1, <1>2, <1>3, <1>4, PTL DEF Spec, Source!Spec

-----------------------------------------------------------------------------
(* Queue and worker implement LossyFifo *)

\* Numbers respect the order of production.
LEMMA NumberOrder ==
    ASSUME NEW f \in Frame, NEW g \in Frame, Before(f, g)
    PROVE  /\ Number(f) \in Nat /\ Number(g) \in Nat
           /\ Number(f) < Number(g)
<1>1. /\ f.action \in Nat /\ g.action \in Nat /\ FrameMax \in Nat
      /\ f.index \in 0..(FrameMax - 1) /\ g.index \in 0..(FrameMax - 1)
  BY DEF Frame, Actions
<1>2. CASE f.action = g.action
  BY <1>1, <1>2 DEF Number, Before
<1>3. CASE f.action < g.action
  <2>1. \E d \in Nat : g.action = f.action + 1 + d
    <3>1. g.action - f.action - 1 \in Nat
      BY <1>1, <1>3
    <3> QED
      BY <1>1, <3>1
  <2>2. PICK d \in Nat : g.action = f.action + 1 + d
    BY <2>1
  <2>3. g.action * FrameMax = f.action * FrameMax + FrameMax + d * FrameMax
    BY <1>1, <2>2
  <2>4. d * FrameMax \in Nat /\ f.action * FrameMax \in Nat
    BY <1>1
  <2> QED
    BY <1>1, <2>3, <2>4 DEF Number
<1> QED
  BY <1>1, <1>2, <1>3 DEF Before

Newest == Max({-1} \cup {Number(f) : f \in submitted})
Flight == {Number(f) : f \in ToSet(queue)}
          \cup (IF worker = "encode" THEN {Number(item)} ELSE {})
Latest == IF published = <<>> THEN -1 ELSE Number(Last(published))

\* One of the frames submitted is the newest.
HasNewest ==
    submitted = {} \/ \E f \in submitted : \A g \in submitted : g = f \/ Before(g, f)

LEMMA MaxIs ==
    ASSUME NEW S, S \subseteq Int, NEW x \in S, \A y \in S : y <= x
    PROVE  Max(S) = x
<1>1. \A y \in S : x >= y
  OBVIOUS
<1>2. Max(S) \in S /\ \A y \in S : Max(S) >= y
  BY <1>1 DEF Max
<1>3. ASSUME NEW m \in Int, m \in S, \A y \in S : m >= y
      PROVE  m = x
  BY <1>3
<1> QED
  BY <1>2, <1>3

\* Every frame the owner submits is newer than those before it.
LEMMA NewFrames ==
    ASSUME IInv, SubmitFirst \/ SubmitTail
    PROVE  \E f \in Frame :
               /\ submitted' = submitted \cup {f}
               /\ \A g \in submitted : Before(g, f)
               /\ ToSet(queue') \subseteq ToSet(queue) \cup {f}
<1>1. CASE SubmitFirst
  <2> DEFINE f == [action |-> action, index |-> 0]
  <2>1. f \in Frame /\ queue' = <<f>> /\ submitted' = submitted \cup {f}
    BY <1>1, FirstSubmitted
  <2>2. \A g \in submitted : Before(g, f)
    BY <1>1, SubmittedNumbers DEF SubmitFirst, IInv, SubmittedInv, Before
  <2> QED
    BY <2>1, <2>2 DEF ToSet
<1>2. CASE SubmitTail
  <2> DEFINE f == [action |-> action, index |-> index]
  <2>0. /\ index \in 1..frames /\ index < frames /\ frames \in 1..FrameMax
        /\ action \in Actions /\ action \in Int /\ queue \in Seq(Frame)
    BY <1>2 DEF SubmitTail, IInv, TypeOK, SubmittedInv, Actions
  <2>1. f \in Frame /\ f.action = action /\ f.index = index
    BY <2>0 DEF Frame
  <2>2. queue' = Append(queue, f) /\ submitted' = submitted \cup {f}
    BY <1>2, TailsFit DEF SubmitTail, Submit
  <2>3. \A g \in submitted : Before(g, f)
    BY <1>2, <2>0, <2>1, SubmittedNumbers DEF SubmitTail, IInv, SubmittedInv, Before
  <2>4. ToSet(queue') \subseteq ToSet(queue) \cup {f}
    <3> HIDE DEF f
    <3> QED
      BY <2>0, <2>1, <2>2 DEF ToSet
  <2> QED
    BY <2>1, <2>2, <2>3, <2>4
<1> QED
  BY <1>1, <1>2

\* The number of the newest frame grows with every submission.
LEMMA NewestGrows ==
    ASSUME IInv, HasNewest, NEW f \in Frame, \A g \in submitted : Before(g, f),
           submitted' = submitted \cup {f}
    PROVE  Newest' = Number(f) /\ Newest' > Newest
<1> DEFINE Old == {-1} \cup {Number(g) : g \in submitted}
           New == {-1} \cup {Number(g) : g \in submitted'}
<1>1. Number(f) \in Nat
  BY DEF Number, Frame, Actions
<1>2. \A g \in submitted : Number(g) \in Nat /\ Number(g) < Number(f)
  BY SubmittedNumbers, NumberOrder
<1>3. New \subseteq Int /\ Number(f) \in New /\ \A y \in New : y <= Number(f)
  BY <1>1, <1>2
<1>4. Newest' = Max(New) /\ Newest = Max(Old)
  BY DEF Newest
<1> HIDE DEF New, Old
<1>5. Newest' = Number(f)
  BY <1>3, <1>4, MaxIs
<1>6. \E m \in Old : m < Number(f) /\ \A y \in Old : y <= m
  <2>1. CASE submitted = {}
    <3>1. Old = {-1}
      BY <2>1 DEF Old
    <3> QED
      BY <1>1, <3>1
  <2>2. CASE submitted # {}
    <3>1. PICK n \in submitted : \A g \in submitted : g = n \/ Before(g, n)
      BY <2>2 DEF HasNewest
    <3>2. \A g \in submitted : Number(g) <= Number(n)
      BY <1>2, <3>1, SubmittedNumbers, NumberOrder
    <3>3. Number(n) \in Old /\ Number(n) < Number(f)
      BY <1>2, <3>1 DEF Old
    <3>4. \A y \in Old : y <= Number(n)
      BY <1>2, <3>1, <3>2 DEF Old
    <3> QED
      BY <3>3, <3>4
  <2> QED
    BY <2>1, <2>2
<1>7. PICK m \in Old : m < Number(f) /\ \A y \in Old : y <= m
  BY <1>6
<1>8. Old \subseteq Int
  BY <1>2 DEF Old
<1>9. Newest = m
  BY <1>4, <1>7, <1>8, MaxIs
<1> QED
  BY <1>1, <1>5, <1>7, <1>8, <1>9

LEMMA HasNewestStep == IInv /\ HasNewest /\ [Next]_vars => HasNewest'
<1> SUFFICES ASSUME IInv, HasNewest, [Next]_vars PROVE HasNewest'
  OBVIOUS
<1>1. CASE SubmitFirst \/ SubmitTail
  <2>1. PICK f \in Frame : /\ submitted' = submitted \cup {f}
                           /\ \A g \in submitted : Before(g, f)
    BY <1>1, NewFrames
  <2>2. \A g \in submitted' : g = f \/ Before(g, f)
    BY <2>1
  <2> QED
    BY <2>1, <2>2 DEF HasNewest
<1>2. CASE ~(SubmitFirst \/ SubmitTail)
  <2>1. UNCHANGED submitted
    BY <1>2 DEF Next, OwnerStep, EndAction, WaitEncoded, NextAction, Joined,
      StopPresentation, WorkerStep, WorkerHead, WorkerTake, WorkerPublish,
      WorkerMark, WorkerFails, Finished, vars
  <2> QED
    BY <2>1 DEF HasNewest
<1> QED
  BY <1>1, <1>2

\* Frames come out in the order they were submitted; some are lost.
THEOREM PresentationKeepsOrder == Spec => KeepsOrder
<1>1. Init => IInv /\ HasNewest
  BY InitHolds DEF Init, HasNewest
<1>2. IInv /\ HasNewest /\ [Next]_vars => IInv' /\ HasNewest'
  BY NextHolds, HasNewestStep
<1>3. Init => Channel!Init
  <2> SUFFICES ASSUME Init PROVE Channel!Init
    OBVIOUS
  <2>1. {-1} \cup {Number(f) : f \in submitted} = {-1}
    BY DEF Init
  <2>2. Newest = -1
    <3> DEFINE S == {-1} \cup {Number(f) : f \in submitted}
    <3>1. S \subseteq Int /\ -1 \in S /\ \A y \in S : y <= -1
      BY <2>1
    <3> HIDE DEF S
    <3>2. Max(S) = -1
      BY <3>1, MaxIs
    <3> QED
      BY <3>2 DEF Newest, S
  <2>3. Flight = {} /\ Latest = -1
    BY DEF Init, Flight, Latest, ToSet
  <2> QED
    BY <2>2, <2>3 DEF Channel!Init, Newest, Flight, Latest
<1>4. IInv /\ HasNewest /\ [Next]_vars => [Channel!Next]_(Channel!vars)
  <2> SUFFICES ASSUME IInv, HasNewest, [Next]_vars
               PROVE  Channel!Next \/ UNCHANGED Channel!vars
    OBVIOUS
  <2>1. CASE SubmitFirst \/ SubmitTail
    <3>1. PICK f \in Frame : /\ submitted' = submitted \cup {f}
                             /\ \A g \in submitted : Before(g, f)
                             /\ ToSet(queue') \subseteq ToSet(queue) \cup {f}
      BY <2>1, NewFrames
    <3>2. Newest' = Number(f) /\ Newest' > Newest
      BY <3>1, NewestGrows
    <3>3. UNCHANGED <<worker, item, published>>
      BY <2>1 DEF SubmitFirst, SubmitTail, jpeg
    <3>4. Flight' \subseteq Flight \cup {Newest'} /\ UNCHANGED Latest
      BY <3>1, <3>2, <3>3 DEF Flight, Latest
    <3> QED
      BY <3>2, <3>4 DEF Channel!Next, Channel!Send, Newest, Flight, Latest
  <2>2. CASE OwnerMoves \/ WorkerHead \/ WorkerMark \/ Finished \/ UNCHANGED vars
    <3>1. /\ UNCHANGED <<submitted, queue, published>>
          /\ worker = "encode" <=> worker' = "encode"
          /\ worker = "encode" => item' = item
      BY <2>2 DEF OwnerMoves, EndAction, WaitEncoded, NextAction, Joined,
        StopPresentation, WorkerHead, WorkerMark, Finished, vars, fifo, jpeg
    <3>2. UNCHANGED <<Newest, Flight, Latest>>
      BY <3>1 DEF Newest, Flight, Latest
    <3> QED
      BY <3>2 DEF Channel!vars, Newest, Flight, Latest
  <2>3. CASE WorkerTake
    <3>1. UNCHANGED <<submitted, published>>
      BY <2>3 DEF WorkerTake
    <3>2. Flight' \subseteq Flight
      <4>1. queue \in Seq(Frame)
        BY DEF IInv, TypeOK
      <4>2. CASE queue = <<>>
        BY <2>3, <4>2 DEF WorkerTake, Flight
      <4>3. CASE queue # <<>>
        <5>1. queue' = Tail(queue) /\ item' = queue[1] /\ worker' = "encode"
          BY <2>3, <4>1, <4>3 DEF WorkerTake
        <5>2. ToSet(queue') \subseteq ToSet(queue) /\ queue[1] \in ToSet(queue)
          BY <4>1, <4>3, <5>1 DEF ToSet
        <5> QED
          BY <5>1, <5>2 DEF Flight
      <4> QED
        BY <4>2, <4>3
    <3>3. UNCHANGED <<Newest, Latest>>
      BY <3>1 DEF Newest, Latest
    <3> QED
      BY <3>2, <3>3 DEF Channel!Next, Channel!Lose, Newest, Flight, Latest
  <2>4. CASE WorkerFails
    <3>1. /\ UNCHANGED <<submitted, published, queue>> /\ worker' = "dead"
      BY <2>4 DEF WorkerFails, fifo
    <3>2. Flight' \subseteq Flight /\ UNCHANGED <<Newest, Latest>>
      BY <3>1 DEF Newest, Flight, Latest
    <3> QED
      BY <3>2 DEF Channel!Next, Channel!Lose, Newest, Flight, Latest
  <2>5. CASE WorkerPublish
    <3>1. /\ worker = "encode" /\ worker' = "mark" /\ published' = Append(published, item)
          /\ UNCHANGED <<submitted, queue, item>>
      BY <2>5 DEF WorkerPublish, fifo
    <3>2. item \in Frame /\ published \in Seq(Frame)
      BY <3>1, SubmittedNumbers DEF IInv, TypeOK, WorkerInv
    <3>3. Latest' = Number(item)
      <4>1. published' # <<>> /\ Last(published') = item
        BY <3>1, <3>2 DEF Last
      <4> QED
        BY <4>1, <3>1 DEF Latest
    <3>4. \A f \in ToSet(queue) : Number(item) \in Nat /\ Number(f) \in Nat /\ Number(item) < Number(f)
      <4>1. \A f \in ToSet(queue) : f \in Frame /\ Before(item, f)
        <5>1. ToSet(queue) = {queue[i] : i \in 1..Len(queue)}
          BY DEF ToSet, IInv, TypeOK
        <5>2. \A i \in 1..Len(queue) : queue[i] \in Frame /\ Before(item, queue[i])
          BY <3>1, QueuedFrames DEF IInv, WorkerInv
        <5> QED
          BY <5>1, <5>2
      <4> QED
        BY <3>2, <4>1, NumberOrder
    <3>5. Number(item) \in Int
      BY <3>2 DEF Number, Frame, Actions
    <3>6. Number(item) \in Flight /\ \A n \in Flight : Number(item) <= n
      BY <3>1, <3>4, <3>5 DEF Flight
    <3>7. Flight' = Flight \ {Number(item)}
      BY <3>1, <3>4 DEF Flight
    <3>8. UNCHANGED Newest
      BY <3>1 DEF Newest
    <3> QED
      BY <3>3, <3>6, <3>7, <3>8 DEF Channel!Next, Channel!Deliver, Newest, Flight, Latest
  <2> QED
    BY <2>1, <2>2, <2>3, <2>4, <2>5 DEF Next, OwnerStep, OwnerMoves, WorkerStep
<1> QED
  BY <1>1, <1>2, <1>3, <1>4, PresentationFollows, PTL DEF Spec, KeepsOrder, Channel!Spec
=============================================================================
