---------------------------- MODULE Presentation ----------------------------
(***************************************************************************)
(* The way of a decoded frame from the model owner to the event bus:       *)
(* BoundedPresentationQueue (scripts/browser_protocol.py) between the      *)
(* model owner thread and the JPEG thread of PresentationWorker            *)
(* (scripts/run_browser.py).                                               *)
(*                                                                         *)
(* The model owner submits RGB0 of an action as soon as it is decoded and  *)
(* the other frames after the clean commit; the bootstrap's RGB0 is waited *)
(* for.  The worker takes, encodes, publishes and marks one frame at a     *)
(* time.  Abstracted: the pixels, and where the owner is in between.       *)
(***************************************************************************)
EXTENDS Integers, FiniteSets, SequencesExt

CONSTANTS LastAction,  \* bound: the bootstrap and actions 1..LastAction
          FrameMax,    \* most frames of one latent: t_upscale of the decoder
          QueueMax     \* max_frames of the queue

ASSUME ConstantsAssumption ==
    /\ LastAction \in Nat
    /\ FrameMax \in Nat \ {0}
    /\ QueueMax \in Nat \ {0}
    /\ FrameMax <= QueueMax  \* 4 and 8 in the code

Actions == 0..LastAction
Frame == [action : Actions, index : 0..(FrameMax - 1)]
NoFrame == [action |-> -1, index |-> -1]

VARIABLES
    at, action, index, frames,   \* the owner: position, frame, frame_count
    waited,                      \* what wait_encoded answered
    queue, dropped, droppedBy,   \* BoundedPresentationQueue
    stop,                        \* _stop of the worker
    worker, item, encoded,       \* the worker thread, its frame, _encoded
    published,                   \* history: frames given to bus.publish
    submitted                    \* history: frames given to submit, a set

owner == <<at, action, index, frames, waited>>
fifo == <<queue, dropped, droppedBy>>
jpeg == <<worker, item, encoded, published>>
vars == <<at, action, index, frames, waited, queue, dropped, droppedBy, stop,
          worker, item, encoded, published, submitted>>

Tails(s) == Cardinality({i \in 1..Len(s) : s[i].index > 0})

Init ==
    /\ at = "first" /\ action = 0 /\ index = 0 /\ frames = 1
    /\ waited = FALSE
    /\ queue = <<>> /\ dropped = 0 /\ droppedBy = [a \in Actions |-> 0]
    /\ stop = FALSE
    /\ worker = "head" /\ item = NoFrame /\ encoded = {}
    /\ published = <<>> /\ submitted = {}

-----------------------------------------------------------------------------
(* BoundedPresentationQueue.submit *)

Nth(n, I) == CHOOSE i \in I : Cardinality({j \in I : j <= i}) = n

\* RGB0 of an action removes every frame of the others, their RGB0 included;
\* what remains keeps its order.
Kept(f) ==
    LET same == {i \in 1..Len(queue) : queue[i].action = f.action}
    IN  IF f.index = 0 THEN [n \in 1..Cardinality(same) |-> queue[Nth(n, same)]]
                       ELSE queue

\* Mutant of Trimmed: the bound is taken for the length of an action.
TrimmedShort(f) ==
    LET kept == Kept(f)
        excess == Len(kept) + 2 - FrameMax
    IN  IF excess > 0 THEN SubSeq(kept, excess + 1, Len(kept)) ELSE kept

\* Then the oldest frames go until there is room for one more.
Trimmed(f) ==
    LET kept == Kept(f)
        excess == Len(kept) + 1 - QueueMax
    IN  IF excess > 0 THEN SubSeq(kept, excess + 1, Len(kept)) ELSE kept

\* Only tails are counted, on the account of the action that displaced them.
Submit(f) ==
    LET lost == Tails(queue) - Tails(Trimmed(f))
    IN  /\ queue' = Append(Trimmed(f), f)
        /\ dropped' = dropped + lost
        /\ droppedBy' = [droppedBy EXCEPT ![f.action] = @ + lost]
        /\ submitted' = submitted \cup {f}

-----------------------------------------------------------------------------
(* The model owner, as far as presentation sees it *)

\* RGB0 after begin_latent; drain_latent will yield frames - 1 others.
SubmitFirst ==
    /\ at = "first"
    /\ Submit([action |-> action, index |-> 0])
    /\ at' = "tails"
    /\ index' = 1
    /\ frames' \in 1..FrameMax
    /\ UNCHANGED <<action, waited, stop, jpeg>>

SubmitTail ==
    /\ at = "tails"
    /\ index < frames
    /\ Submit([action |-> action, index |-> index])
    /\ index' = index + 1
    /\ UNCHANGED <<at, action, frames, waited, stop, jpeg>>

\* The end of _generate; _run waits for the bootstrap's first frame only.
EndAction ==
    /\ at = "tails"
    /\ index = frames
    /\ at' = IF action = 0 THEN "wait" ELSE "idle"
    /\ UNCHANGED <<action, index, frames, waited, fifo, stop, jpeg, submitted>>

\* wait_encoded(0, 0, 20.0): as soon as the frame is marked, or on timeout.
WaitEncoded ==
    /\ at = "wait"
    /\ waited' = ([action |-> 0, index |-> 0] \in encoded)
    /\ at' = "idle"
    /\ UNCHANGED <<action, index, frames, fifo, stop, jpeg, submitted>>

NextAction ==
    /\ at = "idle"
    /\ action < LastAction
    /\ action' = action + 1
    /\ at' = "first"
    /\ UNCHANGED <<index, frames, waited, fifo, stop, jpeg, submitted>>

\* quit or an exception, at any point: the finally of _run.
StopPresentation ==
    /\ at \in {"first", "tails", "wait", "idle"}
    /\ stop' = TRUE
    /\ at' = "joining"
    /\ UNCHANGED <<action, index, frames, waited, fifo, jpeg, submitted>>

\* join(timeout=2.0) returns, with the worker gone or not.
Joined ==
    /\ at = "joining"
    /\ at' = "finished"
    /\ UNCHANGED <<action, index, frames, waited, fifo, stop, jpeg, submitted>>

-----------------------------------------------------------------------------
(* The worker thread *)

WorkerHead ==
    /\ worker = "head"
    /\ worker' = IF stop THEN "exited" ELSE "take"
    /\ UNCHANGED <<owner, fifo, stop, item, encoded, published, submitted>>

\* Mutant of WorkerTake: it takes the newest frame.
WorkerTakeNewest ==
    /\ worker = "take"
    /\ IF queue = <<>>
       THEN worker' = "head" /\ UNCHANGED <<queue, item>>
       ELSE /\ item' = Last(queue)
            /\ queue' = Front(queue)
            /\ worker' = "encode"
    /\ UNCHANGED <<owner, dropped, droppedBy, stop, encoded, published, submitted>>

\* queue.take(0.1): the oldest frame, or nothing.
WorkerTake ==
    /\ worker = "take"
    /\ IF queue = <<>>
       THEN worker' = "head" /\ UNCHANGED <<queue, item>>
       ELSE item' = Head(queue) /\ queue' = Tail(queue) /\ worker' = "encode"
    /\ UNCHANGED <<owner, dropped, droppedBy, stop, encoded, published, submitted>>

\* Mutant of WorkerPublish: it publishes only frames that are already marked.
WorkerPublishMarked ==
    /\ worker = "encode"
    /\ published' = IF item \in encoded THEN Append(published, item)
                    ELSE published
    /\ worker' = "mark"
    /\ UNCHANGED <<owner, fifo, stop, item, encoded, submitted>>

\* Encode to JPEG, bus.publish.
WorkerPublish ==
    /\ worker = "encode"
    /\ published' = Append(published, item)
    /\ worker' = "mark"
    /\ UNCHANGED <<owner, fifo, stop, item, encoded, submitted>>

WorkerMark ==
    /\ worker = "mark"
    /\ encoded' = encoded \cup {item}
    /\ item' = NoFrame
    /\ worker' = "head"
    /\ UNCHANGED <<owner, fifo, stop, published, submitted>>

\* Nothing catches an exception of the conversion or the encoder: the thread
\* is gone, and nobody looks.
WorkerFails ==
    /\ worker = "encode"
    /\ worker' = "dead"
    /\ UNCHANGED <<owner, fifo, stop, item, encoded, published, submitted>>

-----------------------------------------------------------------------------
Finished ==
    /\ at = "finished"
    /\ worker \in {"exited", "dead"}
    /\ UNCHANGED vars

OwnerStep ==
    \/ SubmitFirst
    \/ SubmitTail
    \/ EndAction
    \/ WaitEncoded
    \/ NextAction
    \/ Joined

WorkerStep ==
    \/ WorkerHead
    \/ WorkerTake
    \/ WorkerPublish
    \/ WorkerMark

Next ==
    \/ OwnerStep
    \/ StopPresentation
    \/ WorkerStep
    \/ WorkerFails
    \/ Finished

Spec == Init /\ [][Next]_vars

\* The worker is a thread that is always scheduled again; when and whether the
\* owner goes on is up to the users and the model.
FairSpec == Spec /\ WF_vars(WorkerStep)

-----------------------------------------------------------------------------
(* Properties *)

\* Every variable has its type.
TypeOK ==
    /\ at \in {"first", "tails", "wait", "idle", "joining", "finished"}
    /\ action \in Actions /\ index \in 0..FrameMax /\ frames \in 1..FrameMax
    /\ waited \in BOOLEAN /\ stop \in BOOLEAN
    /\ queue \in Seq(Frame) /\ Len(queue) <= QueueMax
    /\ dropped \in Nat /\ droppedBy \in [Actions -> Nat]
    /\ worker \in {"head", "take", "encode", "mark", "exited", "dead"}
    /\ item \in Frame \cup {NoFrame}
    /\ encoded \subseteq Frame /\ submitted \subseteq Frame
    /\ published \in Seq(Frame)

\* Frames that went in and are neither waiting, nor in the worker's hands, nor
\* published.
Lost == submitted \ (ToSet(queue) \cup {item} \cup ToSet(published))

\* RGB0 of the newest action is never lost, whatever its own tails and the
\* bound of the queue do; a lost frame belongs to an action whose successor
\* has been presented, and every lost tail is counted once, in the total and
\* on the account of the action that displaced it, its direct successor.
NewestFirstFrameKept ==
    /\ \A f \in Lost : f.action < action
    /\ dropped = Cardinality({f \in Lost : f.index > 0})
    /\ \A a \in Actions :
           droppedBy[a] = Cardinality({f \in Lost : f.index > 0 /\ f.action = a - 1})

\* RGB0 of an action is published, unless a newer action takes over, the
\* presentation is stopped or the worker is gone.
FirstFramePublished ==
    \A a \in Actions :
        [action |-> a, index |-> 0] \in submitted
            ~> \/ [action |-> a, index |-> 0] \in ToSet(published)
               \/ action > a \/ stop \/ worker = "dead"

\* Queue and worker together are an order-preserving lossy channel.
Number(f) == f.action * FrameMax + f.index

Channel == INSTANCE LossyFifo WITH
    sent <- Max({-1} \cup {Number(f) : f \in submitted}),
    flight <- {Number(f) : f \in ToSet(queue)}
              \cup (IF worker = "encode" THEN {Number(item)} ELSE {}),
    last <- IF published = <<>> THEN -1 ELSE Number(Last(published))

\* And it leaves out nothing of an action before RGB0 of the next one.
Source == INSTANCE FrameSource WITH
    FrameCount <- FrameMax,
    newest <- IF published = <<>> THEN NoFrame ELSE Last(published)

KeepsOrder == Channel!Spec /\ Source!Spec
=============================================================================
