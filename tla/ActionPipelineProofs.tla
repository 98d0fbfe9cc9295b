------------------------ MODULE ActionPipelineProofs ------------------------
(***************************************************************************)
(* Proofs about ActionPipeline for any number of ids and of chunks.         *)
(***************************************************************************)
EXTENDS ActionPipeline, SessionGeometry, TLAPS

\* What the labels of the ledger say: user ids carry keys, the bootstrap's id
\* does not, and a record without a real label is untouched scaffolding.
LabelInv ==
    /\ ledger[Bootstrap].label # "key"
    /\ \A a \in Ids : ledger[a].label # "bootstrap"
    /\ \A a \in Actions : Fresh(a) => ledger[a].status = "running"

\* The three places an accepted action can be in are disjoint, and what is in
\* one of the first two is on record as running.
HandlerInv ==
    /\ handler.at = "submit" =>
         /\ handler.id \in Ids
         /\ Running(handler.id)
         /\ handler.id \notin {pending, current}
    /\ handler.at = "replace" =>
         /\ handler.id \in Ids
         /\ handler.old \in Ids
         /\ Running(handler.old)
         /\ handler.old \notin {pending, current}

MailboxInv ==
    /\ pending # NoAction => Running(pending) /\ pending # current
    /\ current # NoAction => ledger[current].label = "key" /\ ~Superseded(current)

\* Between take and complete the owner acts on the mailbox's current request.
BusyAt == {"selected", "start", "denoise", "rgb0", "commit", "drain", "record"}

OwnerInv ==
    /\ pc = "loading" => acting = Bootstrap
    /\ pc \in {"loading", "wait_encoded", "take"} => current = NoAction
    /\ pc \in BusyAt => \/ acting = Bootstrap /\ current = NoAction
                        \/ acting \in Ids /\ current = acting /\ Running(acting)
    /\ pc = "selected" => acting # Bootstrap
    /\ pc = "complete" => current # NoAction /\ Complete(current)

\* The chunks generated so far: all before the current one are clean, all after
\* it empty, and the current one is clean once its commit has returned.
ChunkInv ==
    /\ chunk = actionCount
    /\ pc = "loading" \/ (pc = "start" /\ acting = Bootstrap) => chunk = 0
    /\ pc \in {"denoise", "rgb0", "commit", "drain", "record"} => chunk \in Chunks
    /\ \A c \in Chunks :
         /\ c < chunk => slot[c].kv = "clean"
         /\ c > chunk => slot[c].kv = "empty"
         /\ c = chunk /\ pc \in {"drain", "record", "wait_encoded", "complete",
                                 "take", "selected"} => slot[c].kv = "clean"
         /\ c = chunk /\ pc = "start" /\ acting # Bootstrap
                => slot[c].kv = "clean"
         /\ c = chunk /\ (pc = "loading" \/ (pc = "start" /\ acting = Bootstrap))
                => slot[c].kv = "empty"

IInv ==
    /\ TypeOK
    /\ LabelInv
    /\ HandlerInv
    /\ MailboxInv
    /\ NoActionLost
    /\ OwnerInv
    /\ ChunkInv

-----------------------------------------------------------------------------
(* Lemmas about the ledger *)

LEMMA FieldNames ==
    {"input_received", "input_selected", "generation_start", "accepted_x0",
     "base_rgb_ready", "clean_kv_start", "clean_kv_complete", "all_rgb_ready",
     "next_ready"} \subseteq Fields
  <1>1. /\ Boundaries[1] = "input_received" /\ Boundaries[2] = "input_selected"
        /\ Boundaries[3] = "generation_start" /\ Boundaries[4] = "accepted_x0"
        /\ Boundaries[5] = "base_rgb_ready" /\ Boundaries[6] = "clean_kv_start"
        /\ Boundaries[7] = "clean_kv_complete" /\ Boundaries[8] = "all_rgb_ready"
        /\ Boundaries[9] = "next_ready"
    BY DEF Boundaries
  <1> QED BY <1>1 DEF Fields

\* Marking a boundary leaves the label and the fate of a record alone, unless
\* there was no record.
LEMMA MarkedRecord ==
    ASSUME NEW r \in Record, NEW F \in SUBSET Fields
    PROVE  /\ Marked(r, F) \in Record
           /\ Marked(r, F).status = IF r.label = "absent" THEN "running"
                                    ELSE r.status
           /\ Marked(r, F).label = IF r.label = "absent" THEN "unknown"
                                   ELSE r.label
           /\ Marked(r, F).by = IF r.label = "absent" THEN NoAction ELSE r.by
  BY DEF Marked, Ensured, Started, Record

LEMMA EnsuredRecord ==
    ASSUME NEW r \in Record
    PROVE  /\ Ensured(r) \in Record
           /\ Ensured(r).status = IF r.label = "absent" THEN "running"
                                  ELSE r.status
           /\ Ensured(r).label = IF r.label = "absent" THEN "unknown"
                                 ELSE r.label
           /\ Ensured(r).by = IF r.label = "absent" THEN NoAction ELSE r.by
  BY DEF Ensured, Started, Record

LEMMA StartedRecord ==
    ASSUME NEW label \in {"absent", "unknown", "bootstrap", "key"},
           NEW F \in SUBSET Fields
    PROVE  /\ Started(label, F) \in Record
           /\ Started(label, F).status = "running"
           /\ Started(label, F).label = label
  BY DEF Started, Record

LEMMA ReplacedRecord ==
    ASSUME NEW r \in Record, r.label # "absent", NEW b \in Ids
    PROVE  /\ Replaced(r, b) \in Record
           /\ Replaced(r, b).status = "replaced"
           /\ Replaced(r, b).label = r.label
  BY DEF Replaced, Ensured, Record

LEMMA CompletedRecord ==
    ASSUME NEW r \in Record, r.label # "absent",
           NEW label \in {"bootstrap", "key"}
    PROVE  /\ Completed(r, label) \in Record
           /\ Completed(r, label).status = "complete"
           /\ Completed(r, label).label = label
  BY DEF Completed, Ensured, Record

-----------------------------------------------------------------------------
(* The inductive step, one lemma per action *)

LEMMA InitHolds == Init => IInv
  <1> SUFFICES ASSUME Init PROVE IInv
    OBVIOUS
  <1> USE ConstantsAssumption
  <1>1. Absent \in Record /\ Absent.label = "absent" /\ Absent.status = "running"
    BY StartedRecord DEF Absent
  <1>2. TypeOK
    BY <1>1 DEF Init, TypeOK, Idle, EmptyChunk, Actions, Bootstrap
  <1>3. LabelInv
    BY <1>1 DEF Init, LabelInv, Fresh, Actions, Bootstrap
  <1>4. HandlerInv /\ MailboxInv /\ OwnerInv
    BY DEF Init, HandlerInv, MailboxInv, OwnerInv, Idle, BusyAt
  <1>5. NoActionLost
    BY <1>1 DEF Init, NoActionLost, Running, Actions
  <1>6. ChunkInv
    BY DEF Init, ChunkInv, EmptyChunk, Chunks
  <1> QED BY <1>2, <1>3, <1>4, <1>5, <1>6 DEF IInv

LEMMA SubmitActionStep ==
    ASSUME IInv, NEW a \in Ids, SubmitAction(a) PROVE IInv'
  <1> USE ConstantsAssumption
  <1>0. /\ a \in Actions /\ ledger \in [Actions -> Record]
        /\ {"input_received"} \in SUBSET Fields /\ Ids \subseteq Actions
    BY FieldNames DEF IInv, TypeOK, Actions
  <1>1. /\ ledger' \in [Actions -> Record]
        /\ ledger'[a].label = "key" /\ ledger'[a].status = "running"
        /\ \A b \in Actions : b # a => ledger'[b] = ledger[b]
        /\ handler'.at = "submit" /\ handler'.id = a
        /\ handler' \in [at : {"idle", "submit", "replace"},
                         id : Ids \cup {NoAction}, old : Ids \cup {NoAction}]
        /\ handler.at = "idle"
    BY <1>0, StartedRecord DEF SubmitAction, LoopFree
  <1>2. /\ pending' = pending /\ current' = current /\ quit' = quit
        /\ pc' = pc /\ acting' = acting /\ chunk' = chunk
        /\ actionCount' = actionCount /\ ready' = ready /\ error' = error
        /\ finished' = finished /\ slot' = slot /\ server' = server
        /\ report' = report /\ accepted' = accepted
    BY DEF SubmitAction, mailbox, owner, serving
  <1>3. a # pending /\ a # current /\ a # Bootstrap
        /\ (ledger[a].label # "key") /\ ledger[a].status = "running"
    BY <1>0 DEF SubmitAction, IInv, LabelInv, MailboxInv, Fresh, Running, Ids,
                Bootstrap
  <1>4. TypeOK'
    BY <1>1, <1>2 DEF IInv, TypeOK
  <1>5. LabelInv'
    BY <1>0, <1>1, <1>3 DEF IInv, LabelInv, Fresh, Actions, Bootstrap
  <1>6. HandlerInv'
    BY <1>1, <1>2, <1>3 DEF HandlerInv, Running
  <1>7. MailboxInv'
    BY <1>0, <1>1, <1>2, <1>3 DEF IInv, TypeOK, MailboxInv, Running, Superseded
  <1>8. NoActionLost'
    BY <1>0, <1>1, <1>2, <1>3
       DEF IInv, TypeOK, NoActionLost, InHandler, Running
  <1>9. OwnerInv'
    BY <1>0, <1>1, <1>2, <1>3
       DEF IInv, TypeOK, OwnerInv, Running, Complete
  <1>10. ChunkInv'
    BY <1>2 DEF IInv, ChunkInv
  <1> QED BY <1>4, <1>5, <1>6, <1>7, <1>8, <1>9, <1>10 DEF IInv

LEMMA MailboxSubmitStep == IInv /\ MailboxSubmit => IInv'
  <1> SUFFICES ASSUME IInv, MailboxSubmit PROVE IInv'
    OBVIOUS
  <1> USE ConstantsAssumption
  <1>0. /\ handler.at = "submit" /\ handler.id \in Ids /\ Running(handler.id)
        /\ handler.id \notin {pending, current} /\ NoAction \notin Ids
    BY DEF IInv, HandlerInv, MailboxSubmit, Actions
  <1>1. /\ pending' = handler.id
        /\ accepted' = Append(accepted, handler.id)
        /\ pending = NoAction => handler' = Idle
        /\ pending # NoAction => /\ handler' = [handler EXCEPT !.at = "replace",
                                                             !.old = pending]
                                 /\ pending \in Ids
        /\ current' = current /\ quit' = quit /\ ledger' = ledger
        /\ pc' = pc /\ acting' = acting /\ chunk' = chunk
        /\ actionCount' = actionCount /\ ready' = ready /\ error' = error
        /\ finished' = finished /\ slot' = slot /\ server' = server
        /\ report' = report
    BY DEF MailboxSubmit, owner, serving, IInv, TypeOK
  <1>2. /\ pending # NoAction => /\ handler'.at = "replace"
                                 /\ handler'.old = pending
                                 /\ handler'.id = handler.id
        /\ pending = NoAction => handler'.at = "idle"
        /\ handler' \in [at : {"idle", "submit", "replace"},
                         id : Ids \cup {NoAction}, old : Ids \cup {NoAction}]
    <2>1. CASE pending = NoAction
      BY <2>1, <1>1 DEF Idle
    <2>2. CASE pending # NoAction
      <3>1. handler \in [at : {"idle", "submit", "replace"},
                        id : Ids \cup {NoAction}, old : Ids \cup {NoAction}]
        BY DEF IInv, TypeOK
      <3> QED BY <2>2, <3>1, <1>1
    <2> QED BY <2>1, <2>2
  <1>3. TypeOK'
    BY <1>0, <1>1, <1>2 DEF IInv, TypeOK
  <1>4. LabelInv'
    BY <1>1 DEF IInv, LabelInv, Fresh
  <1>5. HandlerInv'
    BY <1>0, <1>1, <1>2 DEF IInv, MailboxInv, HandlerInv, Running
  <1>6. MailboxInv'
    BY <1>0, <1>1 DEF IInv, MailboxInv, Running, Superseded
  <1>7. NoActionLost'
    BY <1>0, <1>1, <1>2 DEF IInv, NoActionLost, InHandler, Running
  <1>8. OwnerInv' /\ ChunkInv'
    BY <1>1 DEF IInv, OwnerInv, ChunkInv, Running, Complete
  <1> QED BY <1>3, <1>4, <1>5, <1>6, <1>7, <1>8 DEF IInv

LEMMA LedgerReplaceStep == IInv /\ LedgerReplace => IInv'
  <1> SUFFICES ASSUME IInv, LedgerReplace PROVE IInv'
    OBVIOUS
  <1> USE ConstantsAssumption
  <1> DEFINE a == handler.old
  <1>0. /\ handler.at = "replace" /\ handler.id \in Ids /\ a \in Ids /\ Running(a)
        /\ a \notin {pending, current} /\ NoAction \notin Ids
        /\ a \in Actions /\ Ids \subseteq Actions /\ a # Bootstrap
        /\ ledger \in [Actions -> Record]
    BY DEF IInv, TypeOK, HandlerInv, LedgerReplace, Actions, Ids, Bootstrap
  <1>1. /\ ledger' \in [Actions -> Record]
        /\ ledger'[a].label = "key" /\ ledger'[a].status = "replaced"
        /\ \A b \in Actions : b # a => ledger'[b] = ledger[b]
    <2>1. ledger[a] \in Record /\ ledger[a].label = "key"
      BY <1>0 DEF Running
    <2> QED BY <1>0, <2>1, ReplacedRecord DEF LedgerReplace
  <1>2. /\ handler' = Idle /\ handler'.at = "idle"
        /\ handler' \in [at : {"idle", "submit", "replace"},
                         id : Ids \cup {NoAction}, old : Ids \cup {NoAction}]
        /\ pending' = pending /\ current' = current /\ quit' = quit
        /\ pc' = pc /\ acting' = acting /\ chunk' = chunk
        /\ actionCount' = actionCount /\ ready' = ready /\ error' = error
        /\ finished' = finished /\ slot' = slot /\ server' = server
        /\ report' = report /\ accepted' = accepted
    BY DEF LedgerReplace, mailbox, owner, serving, Idle
  <1> HIDE DEF a
  <1>3. TypeOK'
    BY <1>1, <1>2 DEF IInv, TypeOK
  <1>4. LabelInv'
    BY <1>0, <1>1 DEF IInv, LabelInv, Fresh, Actions, Bootstrap
  <1>5. HandlerInv'
    BY <1>2 DEF HandlerInv
  <1>6. MailboxInv'
    BY <1>0, <1>1, <1>2 DEF IInv, TypeOK, MailboxInv, Running, Superseded
  <1>7. NoActionLost'
    BY <1>0, <1>1, <1>2 DEF IInv, TypeOK, NoActionLost, InHandler, Running, a
  <1>8. OwnerInv' /\ ChunkInv'
    BY <1>0, <1>1, <1>2
       DEF IInv, TypeOK, OwnerInv, ChunkInv, Running, Complete
  <1> QED BY <1>3, <1>4, <1>5, <1>6, <1>7, <1>8 DEF IInv

LEMMA BrowserTelemetryStep ==
    ASSUME IInv, NEW a \in Actions, BrowserTelemetry(a) PROVE IInv'
  <1> USE ConstantsAssumption
  <1>0. Ids \subseteq Actions /\ ledger \in [Actions -> Record]
    BY DEF IInv, TypeOK, Actions
  <1>1. /\ ledger' \in [Actions -> Record]
        /\ \A b \in Actions :
              /\ ledger'[b].status = IF ledger[b].label = "absent" /\ b = a
                                     THEN "running" ELSE ledger[b].status
              /\ ledger'[b].label = IF ledger[b].label = "absent" /\ b = a
                                    THEN "unknown" ELSE ledger[b].label
    BY <1>0, EnsuredRecord DEF BrowserTelemetry
  <1>2. /\ pending' = pending /\ current' = current /\ quit' = quit
        /\ pc' = pc /\ acting' = acting /\ chunk' = chunk
        /\ actionCount' = actionCount /\ ready' = ready /\ error' = error
        /\ finished' = finished /\ slot' = slot /\ server' = server
        /\ report' = report /\ accepted' = accepted /\ handler' = handler
    BY DEF BrowserTelemetry, mailbox, owner, serving
  <1>3. \A b \in Actions :
          ledger[b].label = "absent" => ledger[b].status = "running"
    BY DEF IInv, LabelInv, Fresh
  <1>4. \A b \in Actions : /\ ledger'[b].status = ledger[b].status
                           /\ Running(b)' = Running(b)
                           /\ Complete(b)' = Complete(b)
                           /\ Superseded(b)' = Superseded(b)
    BY <1>1, <1>3 DEF Running, Complete, Superseded
  <1>5. TypeOK'
    BY <1>1, <1>2 DEF IInv, TypeOK
  <1>6. LabelInv'
    BY <1>0, <1>1, <1>4 DEF IInv, LabelInv, Fresh, Actions
  <1>7. HandlerInv' /\ MailboxInv' /\ NoActionLost' /\ OwnerInv' /\ ChunkInv'
    BY <1>0, <1>1, <1>2, <1>4
       DEF IInv, TypeOK, HandlerInv, MailboxInv, NoActionLost, OwnerInv,
           ChunkInv, InHandler
  <1> QED BY <1>5, <1>6, <1>7 DEF IInv

\* Steps of the control flow: the ledger, the two requests of the mailbox and
\* the handler stay as they are.
LEMMA ControlFrame ==
    ASSUME IInv, UNCHANGED <<pending, current, ledger, handler>>
    PROVE  LabelInv' /\ HandlerInv' /\ MailboxInv' /\ NoActionLost'
  BY DEF IInv, LabelInv, HandlerInv, MailboxInv, NoActionLost, Fresh, InHandler,
         Running, Superseded

LEMMA LoopStep ==
    ASSUME IInv, RequestQuit \/ ServerStep \/ Signal \/ Exited \/ UNCHANGED vars
    PROVE  IInv'
  <1>1. UNCHANGED <<pending, current, ledger, handler, pc, acting, chunk,
                    actionCount, ready, error, finished, slot, accepted>>
    BY DEF RequestQuit, ServerStep, Signal, Interrupt, InterruptAgain, Killed,
           Exited, vars, PollFinished, WaitEnds,
           WriteReport, Exit, mailbox, owner, serving
  <1>2. /\ quit' \in BOOLEAN
        /\ server' \in {"polling", "waiting", "reporting", "closing", "exited"}
    BY DEF RequestQuit, ServerStep, Signal, Interrupt, InterruptAgain, Killed,
           Exited, vars, PollFinished, WaitEnds,
           WriteReport, Exit, mailbox, owner, serving, IInv, TypeOK
  <1>3. TypeOK'
    BY <1>1, <1>2 DEF IInv, TypeOK
  <1>4. OwnerInv' /\ ChunkInv'
    BY <1>1 DEF IInv, OwnerInv, ChunkInv, Running, Complete
  <1> QED BY <1>1, <1>3, <1>4, ControlFrame DEF IInv

LEMMA OwnerControlStep ==
    ASSUME IInv,
           Prepare \/ TakeQuit \/ BecomeReady \/ Cleanup \/ FinishOwner \/ OwnerFails
    PROVE  IInv'
  <1> USE ConstantsAssumption
  <1>1. UNCHANGED <<pending, current, quit, ledger, handler, acting, chunk,
                    actionCount, accepted, server, report>>
    BY DEF Prepare, TakeQuit, BecomeReady, Cleanup, FinishOwner, OwnerFails,
           mailbox, serving
  <1>2. ready' \in BOOLEAN /\ error' \in BOOLEAN /\ finished' \in BOOLEAN
    BY DEF Prepare, TakeQuit, BecomeReady, Cleanup, FinishOwner, OwnerFails,
           IInv, TypeOK
  <1>3. CASE UNCHANGED slot /\ ~OwnerFails
    <2>1. \/ pc = "loading" /\ pc' = "start"
          \/ pc \in {"take", "cleanup", "stopping"}
             /\ pc' \in {"cleanup", "stopping", "finished"}
          \/ pc = "wait_encoded" /\ pc' = "take"
      BY <1>3 DEF Prepare, TakeQuit, BecomeReady, Cleanup, FinishOwner, OwnerAt
    <2>2. TypeOK'
      BY <1>1, <1>2, <1>3, <2>1 DEF IInv, TypeOK
    <2>3. OwnerInv' /\ ChunkInv'
      BY <1>1, <1>3, <2>1
         DEF IInv, TypeOK, OwnerInv, ChunkInv, BusyAt, Running, Complete
    <2> QED BY <1>1, <2>2, <2>3, ControlFrame DEF IInv
  <1>4. CASE OwnerFails
    <2>1. /\ pc \in MayFail /\ pc' = "cleanup"
          /\ pc \in {"denoise", "commit"} => WriteChunk("noisy")
          /\ pc \notin {"denoise", "commit"} => slot' = slot
      BY <1>4 DEF OwnerFails
    <2>2. TypeOK'
      BY <1>1, <1>2, <2>1 DEF IInv, TypeOK, WriteChunk
    <2>3. ChunkInv'
      BY <1>1, <2>1 DEF IInv, TypeOK, ChunkInv, WriteChunk, Chunks
    <2>4. OwnerInv'
      BY <1>1, <2>1 DEF OwnerInv, BusyAt
    <2> QED BY <1>1, <2>2, <2>3, <2>4, ControlFrame DEF IInv
  <1>5. OwnerFails \/ UNCHANGED slot
    BY DEF Prepare, TakeQuit, BecomeReady, Cleanup, FinishOwner
  <1> QED BY <1>3, <1>4, <1>5

\* A step that only marks boundaries on the record of the acting request.
LEMMA MarkFrame ==
    ASSUME IInv, NEW F \in SUBSET Fields,
           ledger' = [ledger EXCEPT ![acting] = Marked(@, F)],
           UNCHANGED <<pending, current, handler>>
    PROVE  /\ ledger' \in [Actions -> Record]
           /\ \A b \in Actions : /\ ledger'[b].status = ledger[b].status
                                 /\ Running(b)' = Running(b)
                                 /\ Complete(b)' = Complete(b)
                                 /\ Superseded(b)' = Superseded(b)
           /\ LabelInv' /\ HandlerInv' /\ MailboxInv' /\ NoActionLost'
  <1>0. Ids \subseteq Actions /\ ledger \in [Actions -> Record] /\ acting \in Actions
        /\ Bootstrap \in Actions
    BY DEF IInv, TypeOK, Actions
  <1>1. /\ ledger' \in [Actions -> Record]
        /\ \A b \in Actions :
              /\ ledger'[b].status = IF ledger[b].label = "absent" /\ b = acting
                                     THEN "running" ELSE ledger[b].status
              /\ ledger'[b].label = IF ledger[b].label = "absent" /\ b = acting
                                    THEN "unknown" ELSE ledger[b].label
    BY <1>0, MarkedRecord
  <1>2. \A b \in Actions :
          ledger[b].label = "absent" => ledger[b].status = "running"
    BY DEF IInv, LabelInv, Fresh
  <1>3. \A b \in Actions : /\ ledger'[b].status = ledger[b].status
                           /\ Running(b)' = Running(b)
                           /\ Complete(b)' = Complete(b)
                           /\ Superseded(b)' = Superseded(b)
    BY <1>1, <1>2 DEF Running, Complete, Superseded
  <1>4. LabelInv'
    BY <1>0, <1>1, <1>3 DEF IInv, LabelInv, Fresh
  <1>5. \A b \in Ids : ledger'[b].label = "key" <=> ledger[b].label = "key"
    BY <1>0, <1>1
  <1>6. HandlerInv'
    BY <1>0, <1>3 DEF IInv, HandlerInv
  <1>7. MailboxInv' /\ NoActionLost'
    BY <1>0, <1>3, <1>5
       DEF IInv, TypeOK, MailboxInv, NoActionLost, InHandler
  <1> QED BY <1>1, <1>3, <1>4, <1>6, <1>7

LEMMA TakePendingStep == IInv /\ TakePending => IInv'
  <1> SUFFICES ASSUME IInv, TakePending PROVE IInv'
    OBVIOUS
  <1> USE ConstantsAssumption
  <1>1. /\ pc = "take" /\ pc' = "selected" /\ pending \in Ids /\ current = NoAction
        /\ current' = pending /\ acting' = pending /\ pending' = NoAction
        /\ NoAction \notin Ids /\ Ids \subseteq Actions /\ pending # Bootstrap
        /\ Running(pending)
    BY DEF TakePending, OwnerAt, IInv, TypeOK, OwnerInv, MailboxInv, Actions, Ids,
           Bootstrap
  <1>2. UNCHANGED <<quit, ledger, chunk, actionCount, ready, error, finished, slot,
                    handler, server, report, accepted>>
    BY DEF TakePending, serving
  <1>3. TypeOK'
    BY <1>1, <1>2 DEF IInv, TypeOK
  <1>4. LabelInv'
    BY <1>2 DEF IInv, LabelInv, Fresh
  <1>5. HandlerInv'
    BY <1>1, <1>2 DEF IInv, HandlerInv, Running
  <1>6. MailboxInv' /\ NoActionLost'
    BY <1>1, <1>2
       DEF IInv, MailboxInv, NoActionLost, InHandler, Running, Superseded
  <1>7. OwnerInv'
    BY <1>1, <1>2 DEF OwnerInv, BusyAt, Running
  <1>8. ChunkInv'
    BY <1>1, <1>2 DEF IInv, ChunkInv
  <1> QED BY <1>3, <1>4, <1>5, <1>6, <1>7, <1>8 DEF IInv

LEMMA SelectStep == IInv /\ Select => IInv'
  <1> SUFFICES ASSUME IInv, Select PROVE IInv'
    OBVIOUS
  <1> USE ConstantsAssumption
  <1>0. {"input_selected"} \in SUBSET Fields
    BY FieldNames
  <1>1. /\ pc = "selected" /\ pc' = "start"
        /\ ledger' = [ledger EXCEPT ![acting] = Marked(@, {"input_selected"})]
        /\ UNCHANGED <<pending, current, quit, acting, chunk, actionCount, ready,
                       error, finished, slot, handler, server, report, accepted>>
    BY DEF Select, OwnerAt, mailbox, serving
  <1>2. /\ ledger' \in [Actions -> Record]
        /\ \A b \in Actions : Running(b)' = Running(b)
        /\ LabelInv' /\ HandlerInv' /\ MailboxInv' /\ NoActionLost'
    BY <1>0, <1>1, MarkFrame
  <1>3. TypeOK'
    BY <1>1, <1>2 DEF IInv, TypeOK
  <1>4. OwnerInv'
    BY <1>1, <1>2 DEF IInv, TypeOK, OwnerInv, BusyAt
  <1>5. ChunkInv'
    BY <1>1 DEF IInv, ChunkInv, OwnerInv
  <1> QED BY <1>2, <1>3, <1>4, <1>5 DEF IInv

LEMMA GenerateFrame ==
    ASSUME IInv,
           NEW from \in BusyAt, NEW to \in BusyAt \ {"selected", "start"},
           NEW F \in SUBSET Fields,
           Generate(from, to, F)
    PROVE  /\ pc = from /\ pc' = to
           /\ UNCHANGED <<pending, current, quit, acting, chunk, actionCount, ready,
                          error, finished, handler, server, report, accepted>>
           /\ ledger' \in [Actions -> Record]
           /\ LabelInv' /\ HandlerInv' /\ MailboxInv' /\ NoActionLost' /\ OwnerInv'
  <1>1. /\ pc = from /\ pc' = to
        /\ ledger' = [ledger EXCEPT ![acting] = Marked(@, F)]
        /\ UNCHANGED <<pending, current, quit, acting, chunk, actionCount, ready,
                       error, finished, handler, server, report, accepted>>
    BY DEF Generate, OwnerAt, mailbox, serving
  <1>2. /\ ledger' \in [Actions -> Record]
        /\ \A b \in Actions : Running(b)' = Running(b)
        /\ LabelInv' /\ HandlerInv' /\ MailboxInv' /\ NoActionLost'
    BY <1>1, MarkFrame
  <1>3. OwnerInv'
    BY <1>1, <1>2 DEF IInv, TypeOK, OwnerInv, BusyAt, Actions
  <1> QED BY <1>1, <1>2, <1>3

LEMMA MarkingStep ==
    ASSUME IInv, Denoise \/ PresentFirst \/ CommitClean \/ DrainTails
    PROVE  IInv'
  <1> USE ConstantsAssumption
  <1>0. /\ {"accepted_x0"} \in SUBSET Fields
        /\ {"base_rgb_ready", "clean_kv_start"} \in SUBSET Fields
        /\ {"clean_kv_complete"} \in SUBSET Fields
        /\ {"all_rgb_ready", "next_ready"} \in SUBSET Fields
    BY FieldNames
  <1>1. ASSUME NEW from \in {"denoise", "rgb0", "commit", "drain"},
               NEW to \in {"rgb0", "commit", "drain", "record"},
               NEW F \in SUBSET Fields, Generate(from, to, F),
               slot' \in [Chunks -> [by : Actions \cup {NoAction},
                                    kv : {"empty", "noisy", "clean"}]],
               ChunkInv'
        PROVE  IInv'
    <2>1. from \in BusyAt /\ to \in BusyAt \ {"selected", "start"}
      BY DEF BusyAt
    <2>2. /\ pc' = to
          /\ UNCHANGED <<pending, current, quit, acting, chunk, actionCount, ready,
                         error, finished, handler, server, report, accepted>>
          /\ ledger' \in [Actions -> Record]
          /\ LabelInv' /\ HandlerInv' /\ MailboxInv' /\ NoActionLost' /\ OwnerInv'
      BY <1>1, <2>1, GenerateFrame
    <2>3. TypeOK'
      BY <1>1, <2>2 DEF IInv, TypeOK
    <2> QED BY <1>1, <2>2, <2>3 DEF IInv
  <1>2. ASSUME NEW kv \in {"noisy", "clean"}, WriteChunk(kv)
        PROVE  slot' \in [Chunks -> [by : Actions \cup {NoAction},
                                    kv : {"empty", "noisy", "clean"}]]
    BY <1>2 DEF WriteChunk, IInv, TypeOK
  <1>3. CASE Denoise
    <2>1. ChunkInv'
      BY <1>3 DEF Denoise, Generate, OwnerAt, WriteChunk, IInv, TypeOK, ChunkInv, Chunks
    <2> QED BY <1>0, <1>1, <1>2, <1>3, <2>1 DEF Denoise
  <1>4. CASE PresentFirst
    <2>1. ChunkInv' /\ slot' = slot
      BY <1>4 DEF PresentFirst, Generate, OwnerAt, IInv, ChunkInv
    <2> QED BY <1>0, <1>1, <1>4, <2>1 DEF PresentFirst, IInv, TypeOK
  <1>5. CASE CommitClean
    <2>1. ChunkInv'
      BY <1>5 DEF CommitClean, Generate, OwnerAt, WriteChunk, IInv, TypeOK, ChunkInv,
                  Chunks
    <2> QED BY <1>0, <1>1, <1>2, <1>5, <2>1 DEF CommitClean
  <1>6. CASE DrainTails
    <2>1. ChunkInv' /\ slot' = slot
      BY <1>6 DEF DrainTails, Generate, OwnerAt, IInv, ChunkInv
    <2> QED BY <1>0, <1>1, <1>6, <2>1 DEF DrainTails, IInv, TypeOK
  <1> QED BY <1>3, <1>4, <1>5, <1>6

LEMMA StartGenerationStep == IInv /\ StartGeneration => IInv'
  <1> SUFFICES ASSUME IInv, StartGeneration PROVE IInv'
    OBVIOUS
  <1> USE ConstantsAssumption
  <1> DEFINE next == IF acting = Bootstrap THEN 0 ELSE actionCount + 1
  <1>0. /\ {"generation_start"} \in SUBSET Fields /\ {} \in SUBSET Fields
        /\ ledger \in [Actions -> Record] /\ acting \in Actions
        /\ Ids \subseteq Actions /\ Bootstrap \in Actions /\ Bootstrap \notin Ids
    BY FieldNames DEF IInv, TypeOK, Actions, Ids, Bootstrap
  <1>1. /\ pc = "start" /\ chunk' = next /\ actionCount' = next
        /\ \/ acting # Bootstrap /\ next >= ChunkCount
              /\ pc' = "cleanup" /\ error' = TRUE
           \/ ~(acting # Bootstrap /\ next >= ChunkCount)
              /\ pc' = "denoise" /\ error' = error
        /\ UNCHANGED <<pending, current, quit, acting, ready, finished, slot,
                       handler, server, report, accepted>>
    BY DEF StartGeneration, OwnerAt, mailbox, serving
  <1>2. next \in Nat /\ chunk = actionCount /\ chunk \in Nat
    BY DEF IInv, TypeOK, ChunkInv
  <1>3. /\ ledger' \in [Actions -> Record] /\ LabelInv' /\ HandlerInv'
        /\ MailboxInv' /\ NoActionLost'
        /\ acting # Bootstrap => Running(acting)' = Running(acting)
    <2>1. CASE acting # Bootstrap
      <3>1. ledger' = [ledger EXCEPT ![acting] = Marked(@, {"generation_start"})]
        BY <1>0, <2>1 DEF StartGeneration
      <3> QED BY <1>0, <1>1, <3>1, MarkFrame
    <2>2. CASE acting = Bootstrap
      <3> DEFINE r == Started("bootstrap", {})
      <3>1. /\ r \in Record /\ r.status = "running" /\ r.label = "bootstrap"
        BY <1>0, StartedRecord
      <3>2. ledger' = [ledger EXCEPT ![Bootstrap] = Marked(r, {"generation_start"})]
        BY <2>2 DEF StartGeneration
      <3> HIDE DEF r
      <3>3. /\ ledger' \in [Actions -> Record]
            /\ ledger'[Bootstrap].label = "bootstrap"
            /\ ledger'[Bootstrap].status = "running"
            /\ \A b \in Ids : ledger'[b] = ledger[b]
        BY <1>0, <3>1, <3>2, MarkedRecord
      <3>4. LabelInv'
        BY <1>0, <3>3 DEF IInv, LabelInv, Fresh, Actions
      <3>5. HandlerInv'
        BY <1>0, <1>1, <3>3 DEF IInv, HandlerInv, Running
      <3>6. MailboxInv' /\ NoActionLost'
        BY <1>0, <1>1, <3>3
           DEF IInv, TypeOK, MailboxInv, NoActionLost, InHandler, Running,
               Superseded
      <3> QED BY <2>2, <3>3, <3>4, <3>5, <3>6
    <2> QED BY <2>1, <2>2
  <1>4. TypeOK'
    <2>1. /\ chunk' \in Nat /\ actionCount' \in Nat
          /\ pc' \in {"cleanup", "denoise"} /\ error' \in BOOLEAN
      BY <1>1, <1>2 DEF IInv, TypeOK
    <2> HIDE DEF next
    <2> QED BY <1>1, <1>3, <2>1 DEF IInv, TypeOK
  <1>5. OwnerInv'
    <2>1. pc' \in {"cleanup", "denoise"} /\ pc \in BusyAt
      BY <1>1 DEF BusyAt
    <2>2. \/ acting = Bootstrap /\ current = NoAction
          \/ acting \in Ids /\ current = acting /\ Running(acting)
      BY <2>1 DEF IInv, OwnerInv
    <2> HIDE DEF next
    <2> QED BY <1>0, <1>1, <1>3, <2>1, <2>2 DEF OwnerInv, BusyAt
  <1>6. ChunkInv'
    <2>1. chunk' \in Nat /\ chunk' = actionCount'
      BY <1>1, <1>2
    <2>2. CASE acting = Bootstrap
      BY <1>1, <2>2 DEF IInv, TypeOK, ChunkInv, Chunks
    <2>3. CASE acting # Bootstrap
      BY <1>1, <1>2, <2>3 DEF IInv, TypeOK, ChunkInv, Chunks
    <2> QED BY <2>2, <2>3
  <1> QED BY <1>3, <1>4, <1>5, <1>6 DEF IInv

LEMMA RecordCompleteStep == IInv /\ RecordComplete => IInv'
  <1> SUFFICES ASSUME IInv, RecordComplete PROVE IInv'
    OBVIOUS
  <1> USE ConstantsAssumption
  <1> DEFINE done == Completed(ledger[acting], Label(acting))
  <1>0. /\ ledger \in [Actions -> Record] /\ acting \in Actions
        /\ Ids \subseteq Actions /\ Bootstrap \in Actions /\ Bootstrap \notin Ids
        /\ NoAction \notin Actions
    BY DEF IInv, TypeOK, Actions, Ids, Bootstrap
  <1>1. /\ pc = "record"
        /\ pc' = IF acting = Bootstrap THEN "wait_encoded" ELSE "complete"
        /\ ledger' = [ledger EXCEPT ![acting] = done]
        /\ UNCHANGED <<pending, current, quit, acting, chunk, actionCount, ready,
                       error, finished, slot, handler, server, report, accepted>>
    BY DEF RecordComplete, OwnerAt, mailbox, serving
  <1>2. \/ acting = Bootstrap /\ current = NoAction
        \/ acting \in Ids /\ current = acting /\ Running(acting)
    BY <1>1 DEF IInv, OwnerInv, BusyAt
  <1>3. done \in Record /\ done.status = "complete" /\ done.label = Label(acting)
    <2> DEFINE r == Ensured(ledger[acting])
    <2>1. r \in Record
      BY <1>0, EnsuredRecord
    <2>2. Label(acting) \in {"bootstrap", "key"}
      BY DEF Label
    <2>3. done = [r EXCEPT !.status = "complete", !.label = Label(acting)]
      BY DEF Completed
    <2> HIDE DEF r, done
    <2> QED BY <2>1, <2>2, <2>3 DEF Record
  <1> HIDE DEF done
  <1>4. /\ ledger' \in [Actions -> Record]
        /\ ledger'[acting] = done
        /\ \A b \in Actions : b # acting => ledger'[b] = ledger[b]
    BY <1>0, <1>1, <1>3
  <1>5. TypeOK'
    BY <1>1, <1>4 DEF IInv, TypeOK
  <1>6. LabelInv'
    BY <1>0, <1>3, <1>4 DEF IInv, LabelInv, Fresh, Label
  <1>7. HandlerInv'
    BY <1>0, <1>1, <1>2, <1>4 DEF IInv, HandlerInv, Running, Bootstrap, Ids
  <1>8. MailboxInv'
    BY <1>0, <1>1, <1>2, <1>3, <1>4
       DEF IInv, TypeOK, MailboxInv, Running, Superseded, Label
  <1>9. NoActionLost'
    BY <1>0, <1>1, <1>2, <1>3, <1>4
       DEF IInv, TypeOK, MailboxInv, NoActionLost, InHandler, Running
  <1>10. OwnerInv'
    BY <1>0, <1>1, <1>2, <1>3, <1>4 DEF OwnerInv, BusyAt, Complete
  <1>11. ChunkInv'
    BY <1>1 DEF IInv, ChunkInv
  <1> QED BY <1>5, <1>6, <1>7, <1>8, <1>9, <1>10, <1>11 DEF IInv

LEMMA MailboxCompleteStep == IInv /\ MailboxComplete => IInv'
  <1> SUFFICES ASSUME IInv, MailboxComplete PROVE IInv'
    OBVIOUS
  <1> USE ConstantsAssumption
  <1>1. /\ pc = "complete" /\ pc' = "take" /\ current' = NoAction
        /\ current # NoAction /\ Complete(current)
        /\ UNCHANGED <<pending, quit, ledger, acting, chunk, actionCount, ready,
                       error, finished, slot, handler, server, report, accepted>>
    BY DEF MailboxComplete, OwnerAt, serving, IInv, OwnerInv
  <1>2. TypeOK'
    BY <1>1 DEF IInv, TypeOK
  <1>3. LabelInv' /\ OwnerInv'
    BY <1>1 DEF IInv, LabelInv, OwnerInv, BusyAt, Fresh
  <1>4. HandlerInv'
    BY <1>1 DEF IInv, HandlerInv, Running, Actions
  <1>5. MailboxInv'
    BY <1>1 DEF IInv, MailboxInv, Running, Superseded
  <1>6. NoActionLost'
    BY <1>1 DEF IInv, NoActionLost, InHandler, Running, Complete
  <1>7. ChunkInv'
    BY <1>1 DEF IInv, ChunkInv
  <1> QED BY <1>2, <1>3, <1>4, <1>5, <1>6, <1>7 DEF IInv

-----------------------------------------------------------------------------
(* Theorems *)

\* Every step of either thread keeps the inductive invariant.
LEMMA NextHolds == IInv /\ [Next]_vars => IInv'
  <1> SUFFICES ASSUME IInv, [Next]_vars PROVE IInv'
    OBVIOUS
  <1>1. ASSUME NEW a \in Ids, SubmitAction(a) PROVE IInv'
    BY <1>1, SubmitActionStep
  <1>2. ASSUME NEW a \in Actions, BrowserTelemetry(a) PROVE IInv'
    BY <1>2, BrowserTelemetryStep
  <1>3. CASE HandlerStep
    BY <1>3, MailboxSubmitStep, LedgerReplaceStep DEF HandlerStep
  <1>4. CASE GenerateStep
    BY <1>4, StartGenerationStep, MarkingStep, RecordCompleteStep DEF GenerateStep
  <1>5. CASE TakePending \/ Select \/ MailboxComplete
    BY <1>5, TakePendingStep, SelectStep, MailboxCompleteStep
  <1>6. CASE Prepare \/ TakeQuit \/ BecomeReady \/ Cleanup \/ FinishOwner \/ OwnerFails
    BY <1>6, OwnerControlStep
  <1>7. CASE RequestQuit \/ ServerStep \/ Signal \/ Exited \/ UNCHANGED vars
    BY <1>7, LoopStep
  <1> QED BY <1>1, <1>2, <1>3, <1>4, <1>5, <1>6, <1>7
             DEF Next, ClientMessage, OwnerStep

\* The ledger, the mailbox, the handler and the owner agree with each other in
\* every reachable state, for any number of ids and chunks.
THEOREM InductiveInvariant == Spec => []IInv
  <1>1. Init => IInv
    BY InitHolds
  <1>2. IInv /\ [Next]_vars => IInv'
    BY NextHolds
  <1> QED BY <1>1, <1>2, PTL DEF Spec

\* Type correctness of the browser server's control state.
THEOREM TypeCorrect == Spec => []TypeOK
  <1>1. IInv => TypeOK
    BY DEF IInv
  <1> QED BY <1>1, InductiveInvariant, PTL

\* No race between submit_action and the model owner loses an action: a record
\* that says "running" has a holder, and what waits is on record.
THEOREM NoActionIsLost == Spec => []NoActionLost
  <1>1. IInv => NoActionLost
    BY DEF IInv
  <1> QED BY <1>1, InductiveInvariant, PTL

\* _generate never starts on top of a chunk whose clean pass is missing.
THEOREM CleanBeforeNextHolds == Spec => []CleanBeforeNext
  <1>1. IInv => CleanBeforeNext
    <2> SUFFICES ASSUME IInv, NEW c \in Chunks, NEW d \in Chunks,
                        slot[c].kv # "empty", d < c
                 PROVE  slot[d].kv = "clean"
      BY DEF CleanBeforeNext
    <2>1. chunk \in Nat /\ c \in Nat /\ d \in Nat
      BY ConstantsAssumption DEF IInv, TypeOK, Chunks
    <2>2. c <= chunk
      BY <2>1 DEF IInv, ChunkInv
    <2> QED BY <2>1, <2>2 DEF IInv, ChunkInv
  <1> QED BY <1>1, InductiveInvariant, PTL

\* Once quit is requested the model owner selects nothing more, whatever is
\* pending.
THEOREM QuitPriority == Spec => NoSelectionAfterQuit
  <1>1. [Next]_vars => [NoSelectionStep]_vars
    <2> SUFFICES ASSUME [Next]_vars PROVE quit => current' \in {current, NoAction}
      BY DEF NoSelectionStep
    <2>1. CASE TakePending
      BY <2>1 DEF TakePending
    <2>2. CASE MailboxComplete
      BY <2>2 DEF MailboxComplete
    <2>3. ASSUME [Next]_vars, ~TakePending, ~MailboxComplete
          PROVE  current' = current
      BY <2>3 DEF Next, ClientMessage, HandlerStep, OwnerStep, GenerateStep,
          ServerStep, SubmitAction, MailboxSubmit, LedgerReplace, RequestQuit,
          BrowserTelemetry, Prepare, TakeQuit, Select, StartGeneration, Generate,
          Denoise, PresentFirst, CommitClean, DrainTails, RecordComplete,
          BecomeReady, OwnerFails, Cleanup, FinishOwner, PollFinished, Signal,
          Interrupt, InterruptAgain, Killed,
          WaitEnds, WriteReport, Exit, Exited, mailbox, vars
    <2> QED BY <2>1, <2>2, <2>3
  <1> QED BY <1>1, PTL DEF Spec, NoSelectionAfterQuit

-----------------------------------------------------------------------------
(* Fates of the records *)

\* The bootstrap's record is still running when _generate starts or completes
\* it: the two writes that could reopen or repeat a fate.
BootRunning ==
    pc = "loading" \/ (pc \in BusyAt /\ acting = Bootstrap)
        => ledger[Bootstrap].status = "running"

FateInv == IInv /\ BootRunning

\* Only LedgerReplace and RecordComplete give a record a fate, and no other
\* step touches the fate of a record that has one.
LEMMA FateFrame ==
    ASSUME FateInv, [Next]_vars, ~LedgerReplace, ~RecordComplete
    PROVE  \A b \in Actions :
               /\ ledger'[b].status = ledger[b].status
               /\ ledger[b].status # "running" => ledger'[b].by = ledger[b].by
  <1> USE ConstantsAssumption
  <1> DEFINE Kept == \A b \in Actions :
               /\ ledger'[b].status = ledger[b].status
               /\ ledger[b].status # "running" => ledger'[b].by = ledger[b].by
  <1>0. /\ ledger \in [Actions -> Record] /\ acting \in Actions
        /\ Ids \subseteq Actions /\ Bootstrap \in Actions
        /\ \A b \in Actions : Fresh(b) => ledger[b].status = "running"
    BY DEF FateInv, IInv, TypeOK, LabelInv, Actions
  <1>1. ASSUME NEW a \in Ids, SubmitAction(a) PROVE Kept
    BY <1>0, <1>1, StartedRecord, FieldNames DEF SubmitAction
  <1>2. ASSUME NEW a \in Actions, BrowserTelemetry(a) PROVE Kept
    BY <1>0, <1>2, EnsuredRecord DEF BrowserTelemetry, Fresh
  <1>3. ASSUME NEW F \in SUBSET Fields,
               ledger' = [ledger EXCEPT ![acting] = Marked(@, F)]
        PROVE  Kept
    BY <1>0, <1>3, MarkedRecord DEF Fresh
  <1>4. CASE Select \/ Denoise \/ PresentFirst \/ CommitClean \/ DrainTails
    <2>1. PICK F \in SUBSET Fields :
              ledger' = [ledger EXCEPT ![acting] = Marked(@, F)]
      BY <1>4, FieldNames
         DEF Select, Denoise, PresentFirst, CommitClean, DrainTails, Generate
    <2> QED BY <2>1, <1>3
  <1>5. CASE StartGeneration
    <2>1. {"generation_start"} \in SUBSET Fields /\ {} \in SUBSET Fields
      BY FieldNames
    <2>2. CASE acting # Bootstrap
      BY <1>3, <1>5, <2>1, <2>2 DEF StartGeneration
    <2>3. CASE acting = Bootstrap
      <3> DEFINE r == Started("bootstrap", {})
      <3>1. r \in Record /\ r.status = "running" /\ r.label = "bootstrap"
        BY <2>1, StartedRecord
      <3>2. ledger' = [ledger EXCEPT ![Bootstrap] = Marked(r, {"generation_start"})]
        BY <1>5, <2>3 DEF StartGeneration
      <3>3. ledger[Bootstrap].status = "running"
        BY <1>5, <2>3 DEF FateInv, BootRunning, BusyAt, StartGeneration, OwnerAt
      <3> HIDE DEF r
      <3> QED BY <1>0, <2>1, <3>1, <3>2, <3>3, MarkedRecord
    <2> QED BY <2>2, <2>3
  <1>6. CASE ledger' = ledger
    BY <1>6
  <1> QED BY <1>1, <1>2, <1>4, <1>5, <1>6
     DEF Next, ClientMessage, HandlerStep, OwnerStep, GenerateStep, ServerStep,
         MailboxSubmit, RequestQuit, Prepare, TakeQuit, TakePending, BecomeReady,
         MailboxComplete, OwnerFails, Cleanup, FinishOwner, PollFinished,
         Signal, Interrupt, InterruptAgain, Killed, WaitEnds, WriteReport,
         Exit, Exited, mailbox, vars

LEMMA FateBegins == Init => FateInv
  BY StartedRecord, InitHolds DEF Init, BootRunning, Absent, Actions, FateInv

LEMMA BootStep == FateInv /\ [Next]_vars => BootRunning'
  <1> SUFFICES ASSUME FateInv, [Next]_vars PROVE BootRunning'
    OBVIOUS
  <1>0. Bootstrap \in Actions /\ Bootstrap \notin Ids /\ ledger \in [Actions -> Record]
    BY DEF Actions, Bootstrap, Ids, FateInv, IInv, TypeOK
  <1>1. CASE LedgerReplace
    <2>1. handler.old \in Ids
      BY <1>1 DEF FateInv, IInv, HandlerInv, LedgerReplace
    <2> QED BY <1>0, <1>1, <2>1
            DEF LedgerReplace, FateInv, BootRunning, owner
  <1>2. CASE RecordComplete
    BY <1>2 DEF RecordComplete, BootRunning, BusyAt, OwnerAt
  <1>3. CASE ~LedgerReplace /\ ~RecordComplete
    <2>1. ledger'[Bootstrap].status = ledger[Bootstrap].status
      BY <1>0, <1>3, FateFrame
    <2>2. CASE TakePending
      <3>1. pending \in Ids
        BY <2>2 DEF FateInv, IInv, TypeOK, TakePending
      <3> QED BY <1>0, <2>2, <3>1 DEF TakePending, BootRunning
    <2>3. CASE ~TakePending
      <3>1. /\ acting' = acting
            /\ pc' = pc \/ pc' \notin BusyAt \cup {"loading"}
                        \/ pc \in BusyAt \cup {"loading"}
            /\ pc' = "loading" => pc = "loading"
        BY <2>3, <1>3
           DEF Next, ClientMessage, HandlerStep, OwnerStep, GenerateStep,
               ServerStep, SubmitAction, MailboxSubmit, RequestQuit,
               BrowserTelemetry, Prepare, TakeQuit, Select, StartGeneration,
               Generate, Denoise, PresentFirst, CommitClean, DrainTails,
               BecomeReady, MailboxComplete, OwnerFails, Cleanup, FinishOwner,
               PollFinished, Signal, Interrupt, InterruptAgain, Killed,
               WaitEnds, WriteReport, Exit, Exited,
               owner, vars, OwnerAt, BusyAt
      <3> QED BY <2>1, <3>1 DEF FateInv, IInv, OwnerInv, BootRunning, BusyAt
    <2> QED BY <2>2, <2>3
  <1> QED BY <1>1, <1>2, <1>3

LEMMA FateStep == FateInv /\ [Next]_vars => FateInv'
  BY BootStep, NextHolds DEF FateInv

LEMMA FateInvHolds == Spec => []FateInv
  BY FateBegins, FateStep, PTL DEF Spec

LEMMA TerminalFates == FateInv /\ [Next]_vars => [TerminalStep]_vars
  <1> SUFFICES ASSUME FateInv, [Next]_vars PROVE TerminalStep
    OBVIOUS
  <1>0. /\ Ids \subseteq Actions /\ Bootstrap \in Actions
        /\ ledger \in [Actions -> Record] /\ acting \in Actions
    BY DEF Actions, FateInv, IInv, TypeOK
  <1>1. CASE LedgerReplace
    <2>1. handler.old \in Ids /\ ledger[handler.old].status = "running"
      BY <1>1 DEF FateInv, IInv, HandlerInv, LedgerReplace, Running
    <2>2. \A b \in Actions : b # handler.old => ledger'[b] = ledger[b]
      BY <1>0, <1>1, <2>1 DEF LedgerReplace
    <2> QED BY <2>1, <2>2 DEF TerminalStep
  <1>2. CASE RecordComplete
    <2>1. ledger[acting].status = "running"
      BY <1>2 DEF FateInv, IInv, OwnerInv, BootRunning, BusyAt, RecordComplete,
                  OwnerAt, Running
    <2>2. \A b \in Actions : b # acting => ledger'[b] = ledger[b]
      BY <1>0, <1>2 DEF RecordComplete
    <2> QED BY <2>1, <2>2 DEF TerminalStep
  <1>3. CASE ~LedgerReplace /\ ~RecordComplete
    BY <1>3, FateFrame DEF TerminalStep
  <1> QED BY <1>1, <1>2, <1>3

\* A record that is complete or replaced never changes its fate again, not by
\* a repeated id, late telemetry, or a displacement that raced with take.
THEOREM TerminalRecords == Spec => TerminalRecordsStay
  <1> QED BY TerminalFates, FateInvHolds, PTL DEF Spec, TerminalRecordsStay

-----------------------------------------------------------------------------
(* The report *)

\* Why a report taken from a finished owner stays true: the owner is past its
\* finally clause, which has cleared ready, and no handler is half way through
\* submit_action, so that nothing is left that writes a labelled record.
Quiet ==
    /\ finished => pc = "finished"
    /\ pc \in {"stopping", "finished"} => ~ready
    /\ report.final => finished /\ handler.at = "idle"

ReportInv == Quiet /\ ReportIsFinal

\* Late telemetry is the only write to a record after a final report, and it
\* leaves every labelled record alone.
LEMMA TelemetryKeepsReport ==
    ASSUME IInv, ReportInv, NEW a \in Actions, BrowserTelemetry(a)
    PROVE  ReportInv'
  <1>1. ledger \in [Actions -> Record]
    BY DEF IInv, TypeOK
  <1>2. /\ ledger' = [ledger EXCEPT ![a] = Ensured(@)]
        /\ UNCHANGED <<finished, pc, ready, report, handler>>
    BY DEF BrowserTelemetry, owner, serving
  <1>3. Quiet'
    BY <1>2 DEF ReportInv, Quiet
  <1>4. ASSUME NEW b \in Actions, report.final,
               ledger'[b].label \in {"bootstrap", "key"}
        PROVE  ledger'[b] = report.ledger[b]
    <2>1. CASE b # a
      BY <1>1, <1>2, <1>4, <2>1 DEF ReportInv, ReportIsFinal
    <2>2. CASE b = a /\ ledger[a].label = "absent"
      <3>1. ledger'[a] = Started("unknown", {})
        BY <1>1, <1>2, <2>2 DEF Ensured
      <3> QED BY <1>4, <2>2, <3>1 DEF Started
    <2>3. CASE b = a /\ ledger[a].label # "absent"
      <3>1. ledger'[a] = ledger[a]
        BY <1>1, <1>2, <2>3 DEF Ensured
      <3> QED BY <1>4, <2>3, <3>1 DEF ReportInv, ReportIsFinal
    <2> QED BY <2>1, <2>2, <2>3
  <1>5. ReportIsFinal'
    BY <1>2, <1>4 DEF ReportIsFinal
  <1> QED BY <1>3, <1>5 DEF ReportInv

LEMMA ReportStep == IInv /\ ReportInv /\ [Next]_vars => ReportInv'
  <1> SUFFICES ASSUME IInv, ReportInv, [Next]_vars PROVE ReportInv'
    OBVIOUS
  <1>1. CASE \E a \in Actions : BrowserTelemetry(a)
    BY <1>1, TelemetryKeepsReport
  <1>2. CASE \E a \in Ids : SubmitAction(a)
    <2>1. ready /\ UNCHANGED <<finished, pc, ready, report>>
      BY <1>2 DEF SubmitAction, owner, serving
    <2>2. ~finished /\ ~report.final
      BY <2>1 DEF ReportInv, Quiet
    <2> QED BY <2>1, <2>2 DEF ReportInv, Quiet, ReportIsFinal
  <1>3. CASE HandlerStep
    <2>1. handler.at # "idle" /\ UNCHANGED <<finished, pc, ready, report>>
      BY <1>3 DEF HandlerStep, MailboxSubmit, LedgerReplace, owner, serving
    <2>2. ~report.final
      BY <2>1 DEF ReportInv, Quiet
    <2> QED BY <2>1, <2>2 DEF ReportInv, Quiet, ReportIsFinal
  <1>4. CASE OwnerStep \/ OwnerFails
    <2>1. pc # "finished" /\ UNCHANGED report
      BY <1>4 DEF OwnerStep, GenerateStep, OwnerFails, MayFail, OwnerAt, Generate,
         Prepare, TakeQuit, TakePending, Select, StartGeneration, Denoise,
         PresentFirst, CommitClean, DrainTails, RecordComplete, BecomeReady,
         MailboxComplete, Cleanup, FinishOwner, serving
    <2>2. ~finished /\ ~report.final
      BY <2>1 DEF ReportInv, Quiet
    <2>3. CASE Cleanup
      BY <2>1, <2>2, <2>3 DEF Cleanup, OwnerAt, ReportInv, Quiet, ReportIsFinal
    <2>4. CASE FinishOwner
      BY <2>1, <2>2, <2>4 DEF FinishOwner, OwnerAt, ReportInv, Quiet, ReportIsFinal
    <2>5. CASE ~Cleanup /\ ~FinishOwner
      <3>1. finished' = finished /\ pc' \notin {"stopping", "finished"}
        BY <1>4, <2>5 DEF OwnerStep, GenerateStep, OwnerFails, Generate,
           Prepare, TakeQuit, TakePending, Select, StartGeneration, Denoise,
           PresentFirst, CommitClean, DrainTails, RecordComplete, BecomeReady,
           MailboxComplete
      <3> QED BY <2>1, <2>2, <3>1 DEF Quiet, ReportInv, ReportIsFinal
    <2> QED BY <2>3, <2>4, <2>5
  <1>5. CASE WriteReport
    <2>1. /\ report' = [final |-> finished, ledger |-> ledger]
          /\ handler.at = "idle"
          /\ UNCHANGED <<finished, pc, ready, handler, ledger>>
      BY <1>5 DEF WriteReport, LoopFree, owner
    <2> QED BY <2>1 DEF ReportInv, Quiet, ReportIsFinal
  <1>6. CASE UNCHANGED <<finished, pc, ready, handler, ledger, report>>
    BY <1>6 DEF ReportInv, Quiet, ReportIsFinal
  <1> QED BY <1>1, <1>2, <1>3, <1>4, <1>5, <1>6
     DEF Next, ClientMessage, ServerStep, RequestQuit, PollFinished, WaitEnds, Exit,
         Signal, Interrupt, InterruptAgain, Killed, Exited, owner, serving, vars

\* browser_metrics.json tells the last word on every action whenever the owner
\* had finished before it was written, however long the pages go on sending.
THEOREM ReportHolds == Spec => []ReportIsFinal
  <1>1. Init => ReportInv
    BY DEF Init, ReportInv, Quiet, ReportIsFinal, NoReport
  <1>2. (IInv /\ ReportInv) /\ [Next]_vars => (IInv /\ ReportInv)'
    BY NextHolds, ReportStep
  <1>3. Init => IInv /\ ReportInv
    BY <1>1, InitHolds
  <1>4. Spec => [](IInv /\ ReportInv)
    BY <1>2, <1>3, PTL DEF Spec
  <1>5. IInv /\ ReportInv => ReportIsFinal
    BY DEF ReportInv
  <1> QED BY <1>4, <1>5, PTL

-----------------------------------------------------------------------------
(* Refinement *)

\* The mailbox, the ledger and the two threads implement the one-slot promise:
\* mailbox.submit accepts, take starts, ledger.finish of a user action finishes,
\* every way to request quit closes, and nothing else shows.
THEOREM ImplementsSlot == Spec => ImplementsActionSlot
  <1> USE ConstantsAssumption
  <1>1. Init => Slot!Init
    BY StartedRecord
       DEF Init, Slot!Init, Complete, Superseded, Absent, Idle, Actions
  <1>2. FateInv /\ [Next]_vars => [Slot!Next]_(Slot!vars)
    <2> SUFFICES ASSUME FateInv, [Next]_vars PROVE [Slot!Next]_(Slot!vars)
      OBVIOUS
    <2>0. /\ Ids \subseteq Actions /\ Bootstrap \in Actions /\ NoAction \notin Ids
          /\ Bootstrap \notin Ids /\ ledger \in [Actions -> Record]
          /\ acting \in Actions /\ current \in Ids \cup {NoAction}
          /\ pending \in Ids \cup {NoAction}
      BY DEF Actions, FateInv, IInv, TypeOK, Bootstrap, Ids
    <2>1. CASE MailboxSubmit
      <3>1. /\ handler.at = "submit" /\ handler.id \in Ids /\ Running(handler.id)
            /\ handler.id \notin {pending, current}
            /\ pending' = handler.id /\ current' = current /\ ledger' = ledger
            /\ quit' = quit
            /\ pending = NoAction => handler'.at = "idle"
            /\ pending # NoAction => handler'.at = "replace" /\ handler'.old = pending
        <4>1. handler \in [at : {"idle", "submit", "replace"},
                           id : Ids \cup {NoAction}, old : Ids \cup {NoAction}]
          BY DEF FateInv, IInv, TypeOK
        <4> QED BY <2>1, <4>1 DEF MailboxSubmit, FateInv, IInv, HandlerInv, Idle
      <3>2. Slot!Accept(handler.id)
        BY <2>0, <3>1
           DEF Slot!Accept, Slot!Seen, Running, Complete, Superseded
      <3> QED BY <3>1, <3>2 DEF Slot!Next
    <2>2. CASE LedgerReplace
      <3>1. /\ handler.at = "replace" /\ handler.old \in Ids
            /\ Running(handler.old) /\ handler.old \notin {pending, current}
            /\ handler'.at = "idle" /\ pending' = pending /\ current' = current
            /\ quit' = quit
            /\ ledger' = [ledger EXCEPT
                            ![handler.old] = Replaced(@, handler.id)]
        BY <2>2 DEF LedgerReplace, FateInv, IInv, HandlerInv, Idle, mailbox
      <3>2. ledger'[handler.old].status = "replaced"
        <4>1. /\ ledger[handler.old] \in Record
              /\ ledger[handler.old].label # "absent" /\ handler.id \in Ids
          BY <2>0, <2>2, <3>1 DEF Running, FateInv, IInv, HandlerInv
        <4> QED BY <2>0, <3>1, <4>1, ReplacedRecord
      <3>3. \A b \in Actions : b # handler.old => ledger'[b] = ledger[b]
        BY <2>0, <3>1
      <3>4. UNCHANGED Slot!vars
        BY <2>0, <3>1, <3>2, <3>3 DEF Slot!vars, Running, Complete, Superseded
      <3> QED BY <3>4
    <2>3. CASE RecordComplete
      <3>1. /\ pc \in BusyAt
            /\ ledger'[acting].status = "complete"
            /\ \A b \in Actions : b # acting => ledger'[b] = ledger[b]
            /\ UNCHANGED <<pending, current, quit, handler>>
        BY <2>0, <2>3, EnsuredRecord
           DEF RecordComplete, OwnerAt, BusyAt, Completed, Record, mailbox
      <3>2. CASE acting = Bootstrap
        <4>1. \A b \in Ids : ledger'[b] = ledger[b]
          BY <2>0, <3>1, <3>2
        <4>2. UNCHANGED Slot!vars
          BY <2>0, <3>1, <4>1 DEF Slot!vars, Complete, Superseded
        <4> QED BY <4>2
      <3>3. CASE acting # Bootstrap
        <4>1. acting \in Ids /\ current = acting /\ Running(acting)
          BY <3>1, <3>3 DEF FateInv, IInv, OwnerInv
        <4>2. Slot!Finish
          BY <2>0, <3>1, <4>1 DEF Slot!Finish, Running, Complete, Superseded
        <4> QED BY <4>2 DEF Slot!Next
      <3> QED BY <3>2, <3>3
    <2>4. ASSUME ~MailboxSubmit, ~LedgerReplace, ~RecordComplete
          PROVE  [Slot!Next]_(Slot!vars)
      <3>1. \A b \in Ids : /\ Complete(b)' = Complete(b)
                           /\ Superseded(b)' = Superseded(b)
        BY <2>0, <2>4, FateFrame DEF Complete, Superseded
      <3>2. handler'.at = "replace" <=> handler.at = "replace"
        BY <2>4 DEF Next, ClientMessage, HandlerStep, OwnerStep, GenerateStep,
           ServerStep, SubmitAction, LoopFree, RequestQuit, BrowserTelemetry,
           Prepare, TakeQuit, TakePending, Select, StartGeneration, Generate,
           Denoise, PresentFirst, CommitClean, DrainTails, BecomeReady,
           MailboxComplete, OwnerFails, Cleanup, FinishOwner, PollFinished,
           Signal, Interrupt, InterruptAgain, Killed, WaitEnds, WriteReport,
           Exit, Exited, vars
      <3>3. handler.at = "replace" => handler' = handler
        BY <2>4 DEF Next, ClientMessage, HandlerStep, OwnerStep, GenerateStep,
           ServerStep, SubmitAction, LoopFree, RequestQuit, BrowserTelemetry,
           Prepare, TakeQuit, TakePending, Select, StartGeneration, Generate,
           Denoise, PresentFirst, CommitClean, DrainTails, BecomeReady,
           MailboxComplete, OwnerFails, Cleanup, FinishOwner, PollFinished,
           Signal, Interrupt, InterruptAgain, Killed, WaitEnds, WriteReport,
           Exit, Exited, vars
      <3>4. CASE TakePending
        <4>1. /\ current = NoAction /\ pending \in Ids /\ Running(pending) /\ ~quit
              /\ current' = pending /\ pending' = NoAction /\ quit' = quit
          BY <2>0, <3>4
             DEF TakePending, OwnerAt, FateInv, IInv, OwnerInv, MailboxInv
        <4>2. Slot!Start
          BY <2>0, <3>1, <3>2, <3>3, <4>1 DEF Slot!Start, Running, Complete
        <4> QED BY <4>2 DEF Slot!Next
      <3>5. CASE MailboxComplete
        <4>1. /\ current \in Ids /\ Complete(current) /\ current' = NoAction
              /\ pending' = pending /\ quit' = quit
          BY <2>0, <3>5 DEF MailboxComplete, OwnerAt, FateInv, IInv, OwnerInv
        <4>2. UNCHANGED Slot!vars
          BY <2>0, <3>1, <3>2, <3>3, <4>1 DEF Slot!vars
        <4> QED BY <4>2
      <3>6. CASE ~TakePending /\ ~MailboxComplete
        <4>1. pending' = pending /\ current' = current
          BY <2>4, <3>6
             DEF Next, ClientMessage, HandlerStep, OwnerStep, GenerateStep,
             ServerStep, SubmitAction, RequestQuit, BrowserTelemetry, Prepare,
             TakeQuit, Select, StartGeneration, Generate, Denoise, PresentFirst,
             CommitClean, DrainTails, BecomeReady, OwnerFails, Cleanup,
             FinishOwner, PollFinished, Signal, Interrupt, InterruptAgain,
             Killed, WaitEnds, WriteReport, Exit,
             Exited, mailbox, vars
        <4>2. quit' = quit \/ quit' = TRUE
          BY <2>4, <3>6
             DEF Next, ClientMessage, HandlerStep, OwnerStep, GenerateStep,
             ServerStep, SubmitAction, RequestQuit, BrowserTelemetry, Prepare,
             TakeQuit, Select, StartGeneration, Generate, Denoise, PresentFirst,
             CommitClean, DrainTails, BecomeReady, OwnerFails, Cleanup,
             FinishOwner, PollFinished, Signal, Interrupt, InterruptAgain,
             Killed, WaitEnds, WriteReport, Exit,
             Exited, mailbox, vars
        <4>3. UNCHANGED Slot!vars \/ Slot!Close
          BY <2>0, <3>1, <3>2, <3>3, <4>1, <4>2 DEF Slot!vars, Slot!Close
        <4> QED BY <4>3 DEF Slot!Next
      <3> QED BY <3>4, <3>5, <3>6
    <2> QED BY <2>1, <2>2, <2>3, <2>4
  <1> QED BY <1>1, <1>2, FateInvHolds, PTL DEF Spec, ImplementsActionSlot, Slot!Spec
-----------------------------------------------------------------------------
(* The marks of a record *)

UpTo(first, last) == {Boundaries[i] : i \in first..last}

\* How many boundaries an action has passed when the owner stands at a pc.
Passed(at) ==
    CASE at = "selected" -> 1
      [] at = "start" -> 2
      [] at = "denoise" -> 3
      [] at = "rgb0" -> 4
      [] at = "commit" -> 6
      [] at = "drain" -> 7
      [] OTHER -> 9

\* An action on its way has passed as many boundaries as its place says: one
\* while submit_action or the mailbox has it, then those of the owner's pc.
MarksInv ==
    /\ MarksInOrder
    /\ \A a \in Actions : Fresh(a) => ledger[a].marks = {}
    /\ handler.at = "submit" => ledger[handler.id].marks = UpTo(1, 1)
    /\ pending # NoAction => ledger[pending].marks = UpTo(1, 1)
    /\ pc = "complete" => acting = current
    /\ pc \in BusyAt \cup {"complete"} /\ acting \in Ids
           => ledger[acting].marks = UpTo(1, Passed(pc))
    /\ pc \in BusyAt \ {"selected", "start"} /\ acting = Bootstrap
           => /\ ledger[acting].label = "bootstrap"
              /\ ledger[acting].marks = UpTo(3, Passed(pc))

-----------------------------------------------------------------------------
(* The fates of an action *)

\* A chunk belongs to the action that wrote it, and an action writes no chunk
\* but the one it was given when it started.
SlotInv ==
    /\ \A c \in Chunks : slot[c].kv = "empty" => slot[c].by = NoAction
    /\ pc = "denoise" => slot[chunk].kv = "empty"
    /\ pc \in {"rgb0", "commit", "drain", "record"} => slot[chunk].by = acting
    /\ pc \in BusyAt /\ acting \in Ids =>
           \A c \in Chunks : slot[c].by = acting =>
               c = chunk /\ pc \in {"rgb0", "commit", "drain", "record"}
    /\ \A a \in Ids : ~Complete(a) /\ a # current =>
           \A c \in Chunks : slot[c].by # a
    /\ \A a \in Ids : Complete(a) =>
           \E c \in Chunks : /\ slot[c].kv = "clean"
                             /\ \A d \in Chunks : slot[d].by = a <=> d = c

\* An accepted action has been handed to the owner, and for good.
Taken(a) ==
    \/ a = current
    \/ ~Superseded(a) /\ "input_selected" \in ledger[a].marks

\* The mailbox and the handler hold the newest ids of the history.
OrderInv ==
    /\ \A i, j \in 1..Len(accepted) : accepted[i] = accepted[j] => i = j
    /\ \A i \in 1..Len(accepted) : ledger[accepted[i]].label = "key"
    /\ handler.at = "submit" =>
           \A i \in 1..Len(accepted) : accepted[i] # handler.id
    /\ handler.at = "replace" =>
           /\ Len(accepted) > 1
           /\ accepted[Len(accepted)] = handler.id
           /\ accepted[Len(accepted) - 1] = handler.old
    /\ pending # NoAction =>
           Len(accepted) > 0 /\ pending = accepted[Len(accepted)]
    /\ Len(accepted) > 0 =>
           \/ accepted[Len(accepted)] = pending
           \/ Taken(accepted[Len(accepted)])
    /\ SupersededByNext

LEMMA BoundaryNames ==
    /\ Boundaries[1] = "input_received" /\ Boundaries[2] = "input_selected"
    /\ Boundaries[3] = "generation_start" /\ Boundaries[4] = "accepted_x0"
    /\ Boundaries[5] = "base_rgb_ready" /\ Boundaries[6] = "clean_kv_start"
    /\ Boundaries[7] = "clean_kv_complete" /\ Boundaries[8] = "all_rgb_ready"
    /\ Boundaries[9] = "next_ready"
  BY DEF Boundaries

LEMMA UpToNext ==
    ASSUME NEW first \in 1..3, NEW last \in 0..8, first <= last + 1
    PROVE  UpTo(first, last + 1) = UpTo(first, last) \cup {Boundaries[last + 1]}
  <1>1. first..(last + 1) = (first..last) \cup {last + 1}
    OBVIOUS
  <1> QED BY <1>1 DEF UpTo

LEMMA UpToNothing ==
    ASSUME NEW first \in 1..3, NEW last \in 0..2, last < first
    PROVE  UpTo(first, last) = {}
  BY DEF UpTo

\* What every step of the owner adds to a record, for a key and the bootstrap.
LEMMA UpToSteps ==
    /\ UpTo(1, 1) = {"input_received"}
    /\ UpTo(1, 2) = UpTo(1, 1) \cup {"input_selected"}
    /\ UpTo(1, 3) = UpTo(1, 2) \cup {"generation_start"}
    /\ UpTo(3, 3) = {"generation_start"}
    /\ \A f \in {1, 3} :
         /\ UpTo(f, 4) = UpTo(f, 3) \cup {"accepted_x0"}
         /\ UpTo(f, 6) = UpTo(f, 4) \cup {"base_rgb_ready", "clean_kv_start"}
         /\ UpTo(f, 7) = UpTo(f, 6) \cup {"clean_kv_complete"}
         /\ UpTo(f, 9) = UpTo(f, 7) \cup {"all_rgb_ready", "next_ready"}
  <1> USE BoundaryNames
  <1>1. UpTo(1, 0) = {} /\ UpTo(3, 2) = {}
    BY UpToNothing
  <1>2. \A f \in {1, 3}, k \in 0..8 :
            f <= k + 1 => UpTo(f, k + 1) = UpTo(f, k) \cup {Boundaries[k + 1]}
    BY UpToNext
  <1>3. /\ UpTo(1, 1) = UpTo(1, 0) \cup {Boundaries[1]}
        /\ UpTo(1, 2) = UpTo(1, 1) \cup {Boundaries[2]}
        /\ UpTo(1, 3) = UpTo(1, 2) \cup {Boundaries[3]}
        /\ UpTo(3, 3) = UpTo(3, 2) \cup {Boundaries[3]}
    <2> HIDE BoundaryNames
    <2> QED BY ONLY <1>2
  <1>4. ASSUME NEW f \in {1, 3}
        PROVE  /\ UpTo(f, 4) = UpTo(f, 3) \cup {Boundaries[4]}
               /\ UpTo(f, 5) = UpTo(f, 4) \cup {Boundaries[5]}
               /\ UpTo(f, 6) = UpTo(f, 5) \cup {Boundaries[6]}
               /\ UpTo(f, 7) = UpTo(f, 6) \cup {Boundaries[7]}
               /\ UpTo(f, 8) = UpTo(f, 7) \cup {Boundaries[8]}
               /\ UpTo(f, 9) = UpTo(f, 8) \cup {Boundaries[9]}
    <2> HIDE BoundaryNames
    <2> QED BY ONLY <1>2, f \in {1, 3}
  <1>5. ASSUME NEW f \in {1, 3}
        PROVE  /\ UpTo(f, 4) = UpTo(f, 3) \cup {"accepted_x0"}
               /\ UpTo(f, 6) = UpTo(f, 4) \cup {"base_rgb_ready", "clean_kv_start"}
               /\ UpTo(f, 7) = UpTo(f, 6) \cup {"clean_kv_complete"}
               /\ UpTo(f, 9) = UpTo(f, 7) \cup {"all_rgb_ready", "next_ready"}
    BY <1>4
  <1> QED BY <1>1, <1>3, <1>5

\* The marks of one record are in order.
InOrder(r) ==
    \E last \in 0..9 :
        r.marks = UpTo(IF r.label = "bootstrap" THEN 3 ELSE 1, last)

LEMMA InOrderEverywhere == MarksInOrder <=> \A a \in Actions : InOrder(ledger[a])
  BY DEF MarksInOrder, InOrder, UpTo

LEMMA MarkedMarks ==
    ASSUME NEW r \in Record, NEW F \in SUBSET Fields
    PROVE  /\ r.label # "absent" => Marked(r, F).marks = r.marks \cup F
           /\ r.label = "absent" => Ensured(r).marks = {}
           /\ r.label # "absent" => Ensured(r) = r
  BY DEF Marked, Ensured, Started, Record

LEMMA MarksInit == Init => MarksInv
  <1> SUFFICES ASSUME Init PROVE MarksInv
    OBVIOUS
  <1>1. \A a \in Actions : /\ ledger[a].marks = {} /\ ledger[a].label = "absent"
    BY DEF Init, Absent, Started
  <1>2. MarksInOrder
    <2>1. UpTo(1, 0) = {} /\ 0 \in 0..9
      BY UpToNothing
    <2>2. \A a \in Actions : InOrder(ledger[a])
      BY <1>1, <2>1 DEF InOrder
    <2> QED BY <2>2, InOrderEverywhere
  <1> QED BY <1>1, <1>2, ConstantsAssumption
          DEF MarksInv, Init, Idle, BusyAt, Ids, Bootstrap

\* A step that writes no record and leaves the owner with its action.
LEMMA MarksFrame ==
    ASSUME MarksInv, UNCHANGED <<pending, current, ledger, handler, acting>>,
           \/ pc' = pc
           \/ pc' \notin BusyAt \cup {"complete"}
           \/ pc' = "start" /\ acting = Bootstrap
    PROVE  MarksInv'
  <1>1. MarksInOrder'
    BY DEF MarksInv, MarksInOrder
  <1>2. Bootstrap \notin Ids
    BY ConstantsAssumption DEF Bootstrap, Ids
  <1> QED BY <1>1, <1>2 DEF MarksInv, Fresh, BusyAt

\* A step of the owner that marks the record of its action.
LEMMA MarksMarked ==
    ASSUME IInv, MarksInv,
           NEW F \in SUBSET Fields, NEW n \in 0..9,
           pc \in BusyAt, pc' \in BusyAt => Passed(pc') = n, pc' # "complete",
           pc' \notin {"selected", "start"} \/ acting # Bootstrap,
           acting = Bootstrap => pc \notin {"selected", "start"},
           \A f \in {1, 3} : \/ UpTo(f, n) = UpTo(f, Passed(pc)) \cup F
                             \/ f = 3 /\ acting # Bootstrap,
           ledger' = [ledger EXCEPT ![acting] = Marked(@, F)],
           UNCHANGED <<pending, current, handler, acting>>
    PROVE  MarksInv'
  <1>0. /\ ledger \in [Actions -> Record] /\ acting \in Actions
        /\ Ids \subseteq Actions /\ Bootstrap \in Actions /\ Bootstrap \notin Ids
        /\ Actions = Ids \cup {Bootstrap}
    BY ConstantsAssumption DEF IInv, TypeOK, Actions, Bootstrap, Ids
  <1>1. ledger[acting].label = IF acting = Bootstrap THEN "bootstrap" ELSE "key"
    BY <1>0 DEF IInv, OwnerInv, Running, MarksInv
  <1>2. /\ ledger'[acting].label = ledger[acting].label
        /\ ledger'[acting].marks = ledger[acting].marks \cup F
        /\ ledger'[acting].status = ledger[acting].status
        /\ \A b \in Actions : b # acting => ledger'[b] = ledger[b]
    BY <1>0, <1>1, MarkedRecord, MarkedMarks
  <1>3. ledger'[acting].marks = UpTo(IF acting = Bootstrap THEN 3 ELSE 1, n)
    BY <1>0, <1>2, SMTT(30) DEF MarksInv
  <1>4. MarksInOrder'
    <2>1. \A b \in Actions : b # acting => InOrder(ledger[b])'
      BY <1>2, InOrderEverywhere DEF MarksInv, InOrder
    <2>2. InOrder(ledger[acting])'
      BY <1>1, <1>2, <1>3 DEF InOrder
    <2>3. \A b \in Actions : InOrder(ledger'[b])
      BY <2>1, <2>2 DEF InOrder
    <2> QED BY <2>3 DEF MarksInOrder, InOrder, UpTo
  <1>5. acting \in Ids => acting = current
    BY <1>0 DEF IInv, OwnerInv
  <1>6. \A a \in Actions : Fresh(a)' => ledger'[a].marks = {}
    BY <1>1, <1>2 DEF MarksInv, Fresh
  <1>7. handler.at = "submit" => handler.id # acting
    BY <1>0, <1>5 DEF IInv, HandlerInv
  <1>8. pending # NoAction => pending # acting
    BY <1>0, <1>5 DEF IInv, TypeOK, MailboxInv
  <1>9. handler.at = "submit" => handler.id \in Actions
    BY <1>0 DEF IInv, HandlerInv
  <1>10. pending # NoAction => pending \in Actions
    BY <1>0 DEF IInv, TypeOK
  <1>11. /\ handler'.at = "submit" => ledger'[handler'.id].marks = UpTo(1, 1)
         /\ pending' # NoAction => ledger'[pending'].marks = UpTo(1, 1)
    BY <1>2, <1>7, <1>8, <1>9, <1>10 DEF MarksInv
  <1>12. /\ pc' \in BusyAt /\ acting' \in Ids
               => ledger'[acting'].marks = UpTo(1, Passed(pc'))
         /\ pc' \in BusyAt \ {"selected", "start"} /\ acting' = Bootstrap
               => /\ ledger'[acting'].label = "bootstrap"
                  /\ ledger'[acting'].marks = UpTo(3, Passed(pc'))
    BY <1>0, <1>1, <1>2, <1>3
  <1> QED BY <1>4, <1>6, <1>11, <1>12 DEF MarksInv

LEMMA MarksGenerated ==
    ASSUME IInv, MarksInv,
           NEW from \in BusyAt \ {"selected", "start"},
           NEW to \in BusyAt \ {"selected", "start"},
           NEW F \in SUBSET Fields, Generate(from, to, F),
           \A f \in {1, 3} : UpTo(f, Passed(to)) = UpTo(f, Passed(from)) \cup F
    PROVE  MarksInv'
  <1>1. /\ pc = from /\ pc' = to
        /\ ledger' = [ledger EXCEPT ![acting] = Marked(@, F)]
        /\ UNCHANGED <<pending, current, handler, acting>>
    BY DEF Generate, OwnerAt, mailbox
  <1>2. Passed(to) \in 0..9 /\ to # "complete"
    BY DEF Passed, BusyAt
  <1> QED BY <1>1, <1>2, MarksMarked

LEMMA MarksLoopStep ==
    ASSUME IInv, MarksInv, ClientMessage \/ HandlerStep
    PROVE  MarksInv'
  <1>0. /\ ledger \in [Actions -> Record] /\ acting \in Actions
        /\ Ids \subseteq Actions /\ Bootstrap \in Actions /\ Bootstrap \notin Ids
        /\ NoAction \notin Actions /\ Actions = Ids \cup {Bootstrap}
        /\ pending \in Ids \cup {NoAction}
    BY ConstantsAssumption DEF IInv, TypeOK, Actions, Bootstrap, Ids
  <1>1. ASSUME NEW a \in Ids, SubmitAction(a) PROVE MarksInv'
    <2>1. /\ ledger'[a].label = "key" /\ ledger'[a].marks = UpTo(1, 1)
          /\ \A b \in Actions : b # a => ledger'[b] = ledger[b]
          /\ handler'.at = "submit" /\ handler'.id = a
          /\ UNCHANGED <<pending, current, pc, acting>>
      BY <1>0, <1>1, UpToSteps DEF SubmitAction, Started, mailbox, owner
    <2>2. a # pending /\ ledger[a].label # "key"
      BY <1>0, <1>1 DEF SubmitAction, Fresh, IInv, MailboxInv, Running
    <2>3. pc \in BusyAt \cup {"complete"} /\ acting \in Ids => acting # a
      BY <1>0, <2>2 DEF IInv, OwnerInv, MailboxInv, MarksInv, Running
    <2>4. MarksInOrder'
      <3>1. \A b \in Actions : b # a => InOrder(ledger'[b])
        BY <2>1, InOrderEverywhere DEF MarksInv
      <3>2. InOrder(ledger'[a])
        BY <2>1 DEF InOrder
      <3> QED BY <3>1, <3>2 DEF MarksInOrder, InOrder, UpTo
    <2>5. \A b \in Actions : Fresh(b)' => ledger'[b].marks = {}
      BY <2>1 DEF MarksInv, Fresh
    <2> QED BY <1>0, <2>1, <2>2, <2>3, <2>4, <2>5 DEF MarksInv
  <1>2. ASSUME NEW a \in Actions, BrowserTelemetry(a) PROVE MarksInv'
    <2>1. /\ ledger' = [ledger EXCEPT ![a] = Ensured(@)]
          /\ UNCHANGED <<pending, current, pc, acting, handler>>
      BY <1>2 DEF BrowserTelemetry, mailbox, owner
    <2>2. CASE ledger[a].label # "absent"
      <3>1. ledger' = ledger
        BY <1>0, <2>1, <2>2, MarkedMarks DEF Ensured
      <3> QED BY <2>1, <3>1, MarksFrame
    <2>3. CASE ledger[a].label = "absent"
      <3>1. /\ ledger'[a].label = "unknown" /\ ledger'[a].marks = {}
            /\ \A b \in Actions : b # a => ledger'[b] = ledger[b]
        BY <1>0, <2>1, <2>3 DEF Ensured, Started
      <3>2. /\ a # pending
            /\ handler.at = "submit" => a # handler.id
            /\ pc \in BusyAt \cup {"complete"} /\ acting \in Ids => a # acting
            /\ pc \in BusyAt \ {"selected", "start"} /\ acting = Bootstrap
                   => a # acting
        BY <1>0, <2>3 DEF IInv, HandlerInv, OwnerInv, MailboxInv, MarksInv, Running
      <3>3. MarksInOrder'
        <4>1. \A b \in Actions : b # a => InOrder(ledger'[b])
          BY <3>1, InOrderEverywhere DEF MarksInv
        <4>2. InOrder(ledger'[a])
          <5>1. UpTo(1, 0) = {} /\ 0 \in 0..9
            BY UpToNothing
          <5> QED BY <3>1, <5>1 DEF InOrder
        <4> QED BY <4>1, <4>2 DEF MarksInOrder, InOrder, UpTo
      <3>4. \A b \in Actions : Fresh(b)' => ledger'[b].marks = {}
        BY <3>1 DEF MarksInv, Fresh
      <3>5. /\ handler.at = "submit" => handler.id \in Actions
            /\ pending # NoAction => pending \in Actions
        BY <1>0 DEF IInv, HandlerInv
      <3> QED BY <1>0, <2>1, <3>1, <3>2, <3>3, <3>4, <3>5 DEF MarksInv
    <2> QED BY <2>2, <2>3
  <1>3. CASE RequestQuit
    BY <1>3, MarksFrame DEF RequestQuit, owner
  <1>4. CASE MailboxSubmit
    <2>1. /\ handler.at = "submit" /\ pending' = handler.id
          /\ handler'.at # "submit"
          /\ UNCHANGED <<current, ledger, pc, acting>>
      BY <1>4 DEF MailboxSubmit, owner, Idle, IInv, TypeOK
    <2>2. MarksInOrder' /\ \A b \in Actions : Fresh(b)' => ledger'[b].marks = {}
      BY <2>1 DEF MarksInv, MarksInOrder, Fresh
    <2> QED BY <2>1, <2>2 DEF MarksInv
  <1>5. CASE LedgerReplace
    <2>1. /\ handler.old \in Ids /\ Running(handler.old)
          /\ handler.old \notin {pending, current}
          /\ handler.at = "replace"
      BY <1>5 DEF IInv, HandlerInv, LedgerReplace
    <2>2. /\ ledger'[handler.old].label = ledger[handler.old].label
          /\ ledger'[handler.old].marks = ledger[handler.old].marks
          /\ \A b \in Actions : b # handler.old => ledger'[b] = ledger[b]
          /\ handler'.at = "idle"
          /\ UNCHANGED <<pending, current, pc, acting>>
      BY <1>0, <1>5, <2>1
         DEF LedgerReplace, Replaced, Ensured, Running, Record, Idle, mailbox, owner
    <2>3. MarksInOrder'
      <3>1. \A b \in Actions : InOrder(ledger'[b])
        BY <2>2, InOrderEverywhere DEF MarksInv, InOrder
      <3> QED BY <3>1 DEF MarksInOrder, InOrder, UpTo
    <2>4. \A b \in Actions : Fresh(b)' => ledger'[b].marks = {}
      BY <2>2 DEF MarksInv, Fresh
    <2>5. \A b \in Actions : /\ ledger'[b].label = ledger[b].label
                             /\ ledger'[b].marks = ledger[b].marks
      BY <2>2
    <2> QED BY <1>0, <2>2, <2>3, <2>4, <2>5 DEF MarksInv
  <1> QED BY <1>1, <1>2, <1>3, <1>4, <1>5 DEF ClientMessage, HandlerStep

LEMMA MarksOwnerStep ==
    ASSUME IInv, MarksInv, OwnerStep \/ OwnerFails
    PROVE  MarksInv'
  <1>0. /\ ledger \in [Actions -> Record] /\ acting \in Actions
        /\ Ids \subseteq Actions /\ Bootstrap \in Actions /\ Bootstrap \notin Ids
        /\ NoAction \notin Actions /\ Actions = Ids \cup {Bootstrap}
        /\ pending \in Ids \cup {NoAction}
    BY ConstantsAssumption DEF IInv, TypeOK, Actions, Bootstrap, Ids
  <1>1. CASE TakePending
    <2>1. /\ pending \in Ids /\ pending' = NoAction /\ current' = pending
          /\ acting' = pending /\ pc' = "selected" /\ UNCHANGED <<ledger, handler>>
      BY <1>0, <1>1 DEF TakePending
    <2>2. MarksInOrder' /\ \A b \in Actions : Fresh(b)' => ledger'[b].marks = {}
      BY <2>1 DEF MarksInv, MarksInOrder, Fresh
    <2> QED BY <1>0, <2>1, <2>2 DEF MarksInv, Passed
  <1>2. CASE Select
    <2>1. /\ pc = "selected" /\ pc' = "start" /\ acting # Bootstrap
          /\ ledger' = [ledger EXCEPT ![acting] = Marked(@, {"input_selected"})]
          /\ UNCHANGED <<pending, current, handler, acting>>
      BY <1>2 DEF Select, OwnerAt, IInv, OwnerInv, mailbox
    <2>2. Passed("selected") = 1 /\ Passed("start") = 2
      BY DEF Passed
    <2> DEFINE F == {"input_selected"}
    <2>3. /\ F \in SUBSET Fields
          /\ UpTo(1, 2) = UpTo(1, Passed(pc)) \cup F
          /\ ledger' = [ledger EXCEPT ![acting] = Marked(@, F)]
      BY <2>1, <2>2, UpToSteps, FieldNames
    <2> HIDE DEF F
    <2>4. pc \in BusyAt /\ pc' # "complete" /\ Passed(pc') = 2 /\ 2 \in 0..9
      BY <2>1, <2>2 DEF BusyAt
    <2> QED BY <2>1, <2>3, <2>4, MarksMarked
  <1>3. CASE StartGeneration
    <2>1. /\ pc = "start" /\ pc' \in {"denoise", "cleanup"}
          /\ UNCHANGED <<pending, current, handler, acting>>
      BY <1>3 DEF StartGeneration, OwnerAt, mailbox
    <2>2. Passed("start") = 2 /\ Passed("denoise") = 3
      BY DEF Passed
    <2>3. CASE acting # Bootstrap
      <3> DEFINE F == {"generation_start"}
      <3>1. /\ F \in SUBSET Fields
            /\ UpTo(1, 3) = UpTo(1, Passed(pc)) \cup F
            /\ ledger' = [ledger EXCEPT ![acting] = Marked(@, F)]
        BY <1>3, <2>1, <2>2, <2>3, UpToSteps, FieldNames DEF StartGeneration
      <3> HIDE DEF F
      <3>2. /\ pc \in BusyAt /\ pc' # "complete" /\ 3 \in 0..9
            /\ pc' \in BusyAt => Passed(pc') = 3
            /\ pc' \notin {"selected", "start"}
        BY <2>1, <2>2 DEF BusyAt
      <3> QED BY <2>1, <2>3, <3>1, <3>2, MarksMarked
    <2>4. CASE acting = Bootstrap
      <3>1. /\ ledger'[acting].label = "bootstrap"
            /\ ledger'[acting].marks = UpTo(3, 3)
            /\ \A b \in Actions : b # acting => ledger'[b] = ledger[b]
            /\ pc' = "denoise"
        <4>1. ledger' = [ledger EXCEPT ![acting] =
                            Marked(Started("bootstrap", {}), {"generation_start"})]
          BY <1>3, <2>4 DEF StartGeneration
        <4>2. /\ Started("bootstrap", {}) \in Record
              /\ Started("bootstrap", {}).label = "bootstrap"
              /\ Started("bootstrap", {}).marks = {}
              /\ {"generation_start"} \in SUBSET Fields
          BY StartedRecord, FieldNames DEF Started
        <4>3. pc' = "denoise"
          BY <1>3, <2>4 DEF StartGeneration
        <4> DEFINE r == Started("bootstrap", {})
                   F == {"generation_start"}
        <4>4. /\ Marked(r, F).label = "bootstrap"
              /\ Marked(r, F).marks = {} \cup F
          <5> HIDE DEF r, F
          <5> QED BY <4>2, MarkedRecord, MarkedMarks DEF r, F
        <4>5. ledger'[acting] = Marked(r, F)
          BY <1>0, <4>1
        <4>6. \A b \in Actions : b # acting => ledger'[b] = ledger[b]
          BY <1>0, <4>1
        <4> HIDE DEF r
        <4> QED BY <4>3, <4>4, <4>5, <4>6, UpToSteps
      <3>2. MarksInOrder'
        <4>1. \A b \in Actions : b # acting => InOrder(ledger'[b])
          BY <3>1, InOrderEverywhere DEF MarksInv
        <4>2. InOrder(ledger'[acting])
          BY <3>1 DEF InOrder
        <4> QED BY <4>1, <4>2 DEF MarksInOrder, InOrder, UpTo
      <3>3. \A b \in Actions : Fresh(b)' => ledger'[b].marks = {}
        BY <3>1 DEF MarksInv, Fresh
      <3>4. /\ handler.at = "submit" =>
                   handler.id \in Actions /\ handler.id # acting
            /\ pending # NoAction => pending \in Actions /\ pending # acting
        BY <1>0, <2>4 DEF IInv, HandlerInv
      <3> QED BY <1>0, <2>1, <2>2, <2>4, <3>1, <3>2, <3>3, <3>4 DEF MarksInv
    <2> QED BY <2>3, <2>4
  <1>4. CASE Denoise \/ PresentFirst \/ CommitClean \/ DrainTails
    <2>1. /\ Passed("denoise") = 3 /\ Passed("rgb0") = 4 /\ Passed("commit") = 6
          /\ Passed("drain") = 7 /\ Passed("record") = 9
      BY DEF Passed
    <2>3. CASE Denoise
      <3> DEFINE F == {"accepted_x0"}
      <3>1. /\ F \in SUBSET Fields /\ Generate("denoise", "rgb0", F)
            /\ \A f \in {1, 3} :
                   UpTo(f, Passed("rgb0")) = UpTo(f, Passed("denoise")) \cup F
        BY <2>1, <2>3, UpToSteps, FieldNames DEF Denoise
      <3> HIDE DEF F
      <3> QED BY <3>1, MarksGenerated DEF BusyAt
    <2>4. CASE PresentFirst
      <3> DEFINE F == {"base_rgb_ready", "clean_kv_start"}
      <3>1. /\ F \in SUBSET Fields /\ Generate("rgb0", "commit", F)
            /\ \A f \in {1, 3} :
                   UpTo(f, Passed("commit")) = UpTo(f, Passed("rgb0")) \cup F
        BY <2>1, <2>4, UpToSteps, FieldNames DEF PresentFirst
      <3> HIDE DEF F
      <3> QED BY <3>1, MarksGenerated DEF BusyAt
    <2>5. CASE CommitClean
      <3> DEFINE F == {"clean_kv_complete"}
      <3>1. /\ F \in SUBSET Fields /\ Generate("commit", "drain", F)
            /\ \A f \in {1, 3} :
                   UpTo(f, Passed("drain")) = UpTo(f, Passed("commit")) \cup F
        BY <2>1, <2>5, UpToSteps, FieldNames DEF CommitClean
      <3> HIDE DEF F
      <3> QED BY <3>1, MarksGenerated DEF BusyAt
    <2>6. CASE DrainTails
      <3> DEFINE F == {"all_rgb_ready", "next_ready"}
      <3>1. /\ F \in SUBSET Fields /\ Generate("drain", "record", F)
            /\ \A f \in {1, 3} :
                   UpTo(f, Passed("record")) = UpTo(f, Passed("drain")) \cup F
        BY <2>1, <2>6, UpToSteps, FieldNames DEF DrainTails
      <3> HIDE DEF F
      <3> QED BY <3>1, MarksGenerated DEF BusyAt
    <2> QED BY <1>4, <2>3, <2>4, <2>5, <2>6
  <1>5. CASE RecordComplete
    <2>1. /\ pc = "record" /\ UNCHANGED <<pending, current, handler, acting>>
          /\ pc' = IF acting = Bootstrap THEN "wait_encoded" ELSE "complete"
          /\ ledger' = [ledger EXCEPT ![acting] = Completed(@, Label(acting))]
      BY <1>5 DEF RecordComplete, OwnerAt, mailbox
    <2>2. ledger[acting].label = IF acting = Bootstrap THEN "bootstrap" ELSE "key"
      BY <1>0, <2>1 DEF IInv, OwnerInv, Running, MarksInv, BusyAt
    <2>3. \A b \in Actions : /\ ledger'[b].label = ledger[b].label
                             /\ ledger'[b].marks = ledger[b].marks
      BY <1>0, <2>1, <2>2 DEF Completed, Ensured, Label, Record
    <2>4. MarksInOrder'
      BY <2>3 DEF MarksInv, MarksInOrder
    <2>5. \A b \in Actions : Fresh(b)' => ledger'[b].marks = {}
      BY <2>3 DEF MarksInv, Fresh
    <2>6. acting \in Ids => acting = current
      BY <1>0, <2>1 DEF IInv, OwnerInv, BusyAt
    <2>7. /\ handler.at = "submit" => handler.id \in Actions
          /\ pending # NoAction => pending \in Actions
      BY <1>0 DEF IInv, HandlerInv
    <2>8. acting \in Ids => ledger'[acting].marks = UpTo(1, 9)
      BY <1>0, <2>1, <2>3 DEF MarksInv, BusyAt, Passed
    <2> QED BY <1>0, <2>1, <2>3, <2>4, <2>5, <2>6, <2>7, <2>8
            DEF MarksInv, Passed, BusyAt
  <1>6. CASE MailboxComplete
    <2>1. /\ UNCHANGED <<pending, ledger, handler, acting>> /\ pc' = "take"
      BY <1>6 DEF MailboxComplete
    <2>2. MarksInOrder' /\ \A b \in Actions : Fresh(b)' => ledger'[b].marks = {}
      BY <2>1 DEF MarksInv, MarksInOrder, Fresh
    <2> QED BY <2>1, <2>2 DEF MarksInv, BusyAt
  <1>7. CASE Prepare \/ TakeQuit \/ BecomeReady \/ Cleanup \/ FinishOwner \/ OwnerFails
    <2>1. /\ UNCHANGED <<pending, current, ledger, handler, acting>>
          /\ \/ pc' \notin BusyAt \cup {"complete"}
             \/ pc' = "start" /\ acting = Bootstrap
      BY <1>7 DEF Prepare, TakeQuit, BecomeReady, Cleanup, FinishOwner, OwnerFails,
                  OwnerAt, IInv, OwnerInv, mailbox, BusyAt
    <2> QED BY <2>1, MarksFrame
  <1> QED BY <1>1, <1>2, <1>3, <1>4, <1>5, <1>6, <1>7
     DEF OwnerStep, GenerateStep

LEMMA MarksStep == IInv /\ MarksInv /\ [Next]_vars => MarksInv'
  <1> SUFFICES ASSUME IInv, MarksInv, [Next]_vars PROVE MarksInv'
    OBVIOUS
  <1>1. CASE ServerStep \/ Signal \/ Exited \/ UNCHANGED vars
    <2>1. UNCHANGED <<pending, current, ledger, handler, acting, pc>>
      BY <1>1 DEF ServerStep, PollFinished, WaitEnds, WriteReport, Exit, Signal,
         Interrupt, InterruptAgain, Killed, Exited, mailbox, owner, vars
    <2> QED BY <2>1, MarksFrame
  <1> QED BY <1>1, MarksLoopStep, MarksOwnerStep DEF Next

\* Every record shows its boundaries in the order an action passes them: no
\* submit_action, however late, wipes a mark the model owner has made.
THEOREM MarksAlwaysInOrder == Spec => []MarksInOrder
  <1>1. Init => IInv /\ MarksInv
    BY InitHolds, MarksInit
  <1>2. (IInv /\ MarksInv) /\ [Next]_vars => (IInv /\ MarksInv)'
    BY NextHolds, MarksStep
  <1>3. IInv /\ MarksInv => MarksInOrder
    BY DEF MarksInv
  <1> QED BY <1>1, <1>2, <1>3, PTL DEF Spec

-----------------------------------------------------------------------------
(* Chunks and fates *)

\* The owner's action is not complete before its record is.
LEMMA ActingRuns ==
    ASSUME IInv
    PROVE  /\ pc \in BusyAt /\ acting \in Ids =>
                  acting = current /\ Running(acting) /\ ~Complete(acting)
           /\ pending # NoAction => ~Complete(pending)
  BY ConstantsAssumption DEF IInv, OwnerInv, MailboxInv, Running, Complete, Ids,
     Bootstrap

\* A step that writes no chunk and completes no record.
LEMMA SlotFrame ==
    ASSUME IInv, SlotInv, UNCHANGED slot,
           \A a \in Ids : Complete(a)' = Complete(a),
           \/ UNCHANGED <<pc, acting, chunk, current>>
           \/ pc' \notin BusyAt /\ UNCHANGED current
           \/ pc' \notin BusyAt /\ Complete(current)
    PROVE  SlotInv'
  BY ConstantsAssumption DEF SlotInv, BusyAt

\* A step of the owner that writes its chunk.
LEMMA SlotWritten ==
    ASSUME IInv, SlotInv,
           NEW kv \in {"noisy", "clean"}, WriteChunk(kv),
           pc \in {"denoise", "commit"},
           pc' \in {"rgb0", "drain", "cleanup"},
           UNCHANGED <<acting, chunk, current>>,
           \A a \in Ids : Complete(a)' = Complete(a)
    PROVE  SlotInv'
  <1>0. /\ slot \in [Chunks -> [by : Actions \cup {NoAction},
                                kv : {"empty", "noisy", "clean"}]]
        /\ acting \in Actions /\ Actions = Ids \cup {Bootstrap}
        /\ Bootstrap \notin Ids /\ NoAction \notin Ids /\ chunk \in Chunks
    BY ConstantsAssumption
       DEF IInv, TypeOK, ChunkInv, Actions, Bootstrap, Ids
  <1>1. /\ slot'[chunk].by = acting /\ slot'[chunk].kv = kv
        /\ \A c \in Chunks : c # chunk => slot'[c] = slot[c]
    BY <1>0 DEF WriteChunk
  <1>2. acting \in Ids => acting = current /\ ~Complete(acting)
    BY ActingRuns DEF BusyAt
  <1>3. slot[chunk].by \in {NoAction, acting}
    BY <1>0 DEF SlotInv
  <1>4. ASSUME NEW a \in Ids, Complete(a)
        PROVE  \E c \in Chunks : /\ slot'[c].kv = "clean"
                                 /\ \A d \in Chunks : slot'[d].by = a <=> d = c
    <2>1. PICK c \in Chunks : /\ slot[c].kv = "clean"
                              /\ \A d \in Chunks : slot[d].by = a <=> d = c
      BY <1>4 DEF SlotInv
    <2>2. a # acting /\ c # chunk
      BY <1>0, <1>2, <1>3, <1>4, <2>1
    <2> QED BY <1>0, <1>1, <1>3, <2>1, <2>2
  <1>5. ASSUME NEW a \in Ids, ~Complete(a), a # current
        PROVE  \A c \in Chunks : slot'[c].by # a
    <2>1. a # acting
      BY <1>2, <1>5
    <2> QED BY <1>0, <1>1, <1>5, <2>1 DEF SlotInv
  <1>6. /\ pc' \in {"rgb0", "drain"} => slot'[chunk].by = acting
        /\ acting \in Ids => \A c \in Chunks : slot'[c].by = acting => c = chunk
    BY <1>0, <1>1 DEF SlotInv, BusyAt
  <1> QED BY <1>0, <1>1, <1>4, <1>5, <1>6 DEF SlotInv, BusyAt

LEMMA SlotStep == FateInv /\ SlotInv /\ [Next]_vars => SlotInv'
  <1> SUFFICES ASSUME FateInv, SlotInv, [Next]_vars PROVE SlotInv'
    OBVIOUS
  <1> USE ConstantsAssumption
  <1>0. /\ ledger \in [Actions -> Record] /\ acting \in Actions
        /\ Ids \subseteq Actions /\ Bootstrap \in Actions /\ Bootstrap \notin Ids
        /\ NoAction \notin Actions /\ Actions = Ids \cup {Bootstrap}
        /\ IInv /\ 0 \in Chunks
    BY DEF FateInv, IInv, TypeOK, Actions, Bootstrap, Ids, Chunks
  <1>1. ASSUME ~RecordComplete PROVE \A a \in Ids : Complete(a)' = Complete(a)
    <2>1. CASE LedgerReplace
      <3>1. handler.old \in Ids /\ Running(handler.old)
        BY <2>1, <1>0 DEF LedgerReplace, IInv, HandlerInv
      <3>2. /\ ledger'[handler.old].status = "replaced"
            /\ \A b \in Actions : b # handler.old => ledger'[b] = ledger[b]
        BY <1>0, <2>1, <3>1 DEF LedgerReplace, Replaced, Ensured, Running, Record
      <3> QED BY <1>0, <3>1, <3>2 DEF Complete, Running
    <2>2. CASE ~LedgerReplace
      BY <1>0, <1>1, <2>2, FateFrame DEF Complete
    <2> QED BY <2>1, <2>2
  <1>2. CASE RecordComplete
    <2>1. /\ pc = "record" /\ pc' \notin BusyAt
          /\ UNCHANGED <<slot, current>>
          /\ ledger' = [ledger EXCEPT ![acting] = Completed(@, Label(acting))]
      BY <1>2 DEF RecordComplete, OwnerAt, mailbox, BusyAt
    <2>2. /\ ledger'[acting].status = "complete"
          /\ \A b \in Actions : b # acting => ledger'[b] = ledger[b]
      BY <1>0, <2>1 DEF Completed, Ensured, Started, Record
    <2>3. ASSUME NEW a \in Ids, Complete(a)'
          PROVE  \E c \in Chunks : /\ slot[c].kv = "clean"
                                   /\ \A d \in Chunks : slot[d].by = a <=> d = c
      <3>1. CASE a # acting
        BY <1>0, <2>2, <2>3, <3>1 DEF SlotInv, Complete
      <3>2. CASE a = acting
        <4>1. chunk \in Chunks /\ slot[chunk].kv = "clean"
          BY <1>0, <2>1 DEF IInv, ChunkInv
        <4>2. slot[chunk].by = acting
              /\ \A c \in Chunks : slot[c].by = acting => c = chunk
          BY <2>1, <3>2 DEF SlotInv, BusyAt
        <4> QED BY <3>2, <4>1, <4>2
      <3> QED BY <3>1, <3>2
    <2>4. \A a \in Ids : Complete(a) => Complete(a)'
      BY <1>0, <2>2 DEF Complete
    <2>5. /\ \A c \in Chunks : slot[c].kv = "empty" => slot[c].by = NoAction
          /\ \A a \in Ids : ~Complete(a)' /\ a # current =>
                 \A c \in Chunks : slot[c].by # a
      BY <2>4 DEF SlotInv
    <2> QED BY <2>1, <2>3, <2>5 DEF SlotInv, BusyAt
  <1>3. CASE Denoise \/ CommitClean
    <2>1. /\ pc \in {"denoise", "commit"} /\ pc' \in {"rgb0", "drain", "cleanup"}
          /\ UNCHANGED <<acting, chunk, current>> /\ ~RecordComplete
          /\ WriteChunk("noisy") \/ WriteChunk("clean")
      BY <1>3 DEF Denoise, CommitClean, Generate, OwnerAt, mailbox, RecordComplete
    <2> QED BY <1>0, <1>1, <2>1, SlotWritten
  <1>4. CASE OwnerFails
    <2>1. /\ pc' = "cleanup" /\ UNCHANGED <<acting, chunk, current>>
          /\ ~RecordComplete
          /\ \/ pc \in {"denoise", "commit"} /\ WriteChunk("noisy")
             \/ UNCHANGED slot
      BY <1>4 DEF OwnerFails, mailbox, RecordComplete, OwnerAt, MayFail
    <2>2. CASE UNCHANGED slot
      BY <1>0, <1>1, <2>1, <2>2, SlotFrame DEF BusyAt
    <2>3. CASE pc \in {"denoise", "commit"} /\ WriteChunk("noisy")
      BY <1>0, <1>1, <2>1, <2>3, SlotWritten
    <2> QED BY <2>1, <2>2, <2>3
  <1>5. CASE PresentFirst \/ DrainTails
    <2>1. /\ \/ pc = "rgb0" /\ pc' = "commit"
             \/ pc = "drain" /\ pc' = "record"
          /\ UNCHANGED <<acting, chunk, current, slot>> /\ ~RecordComplete
      BY <1>5 DEF PresentFirst, DrainTails, Generate, OwnerAt, mailbox, RecordComplete
    <2> QED BY <1>1, <2>1 DEF SlotInv, BusyAt
  <1>6. CASE StartGeneration
    <2>1. /\ pc = "start" /\ pc' \in {"denoise", "cleanup"}
          /\ UNCHANGED <<acting, current, slot>> /\ ~RecordComplete
          /\ chunk' = IF acting = Bootstrap THEN 0 ELSE actionCount + 1
          /\ pc' = "denoise" /\ acting # Bootstrap => actionCount + 1 < ChunkCount
      BY <1>6, <1>0 DEF StartGeneration, OwnerAt, mailbox, RecordComplete, IInv, TypeOK
    <2>2. pc' = "denoise" => chunk' \in Chunks /\ slot[chunk'].kv = "empty"
      <3>1. CASE acting = Bootstrap
        BY <1>0, <2>1, <3>1 DEF IInv, ChunkInv
      <3>2. CASE acting # Bootstrap
        <4>1. chunk = actionCount /\ chunk \in Nat
          BY <1>0 DEF IInv, ChunkInv, TypeOK
        <4>2. pc' = "denoise" => chunk + 1 \in Chunks /\ chunk' = chunk + 1
          BY <2>1, <3>2, <4>1 DEF Chunks
        <4>3. \A c \in Chunks : c > chunk => slot[c].kv = "empty"
          BY <1>0 DEF IInv, ChunkInv
        <4> QED BY <4>1, <4>2, <4>3
      <3> QED BY <3>1, <3>2
    <2>3. acting \in Ids => \A c \in Chunks : slot[c].by # acting
      BY <2>1 DEF SlotInv, BusyAt
    <2> QED BY <1>1, <2>1, <2>2, <2>3 DEF SlotInv
  <1>7. CASE Select
    <2>1. /\ pc = "selected" /\ pc' = "start"
          /\ UNCHANGED <<acting, current, slot>> /\ ~RecordComplete
      BY <1>7 DEF Select, OwnerAt, mailbox, RecordComplete
    <2> QED BY <1>1, <2>1 DEF SlotInv, BusyAt
  <1>8. CASE TakePending
    <2>1. /\ pc' = "selected" /\ acting' = pending /\ current' = pending
          /\ UNCHANGED slot /\ ~RecordComplete /\ pending # NoAction
          /\ current = NoAction
      BY <1>0, <1>8
         DEF TakePending, OwnerAt, RecordComplete, IInv, OwnerInv
    <2>2. ~Complete(pending) /\ pending \in Ids
      BY <1>0, <2>1, ActingRuns DEF IInv, TypeOK
    <2>3. \A c \in Chunks : slot[c].by # pending
      BY <1>0, <2>1, <2>2 DEF SlotInv
    <2> QED BY <1>0, <1>1, <2>1, <2>3 DEF SlotInv
  <1>9. CASE MailboxComplete
    <2>1. /\ pc' \notin BusyAt /\ UNCHANGED slot /\ ~RecordComplete
          /\ Complete(current)
      BY <1>0, <1>9 DEF MailboxComplete, OwnerAt, RecordComplete, BusyAt, IInv, OwnerInv
    <2> QED BY <1>0, <1>1, <2>1, SlotFrame
  <1>10. CASE Prepare \/ TakeQuit \/ BecomeReady \/ Cleanup \/ FinishOwner
    <2>1. /\ UNCHANGED <<slot, current, acting>> /\ ~RecordComplete
          /\ \/ pc' \notin BusyAt
             \/ pc' = "start" /\ acting = Bootstrap
      BY <1>0, <1>10
         DEF Prepare, TakeQuit, BecomeReady, Cleanup, FinishOwner, RecordComplete,
             OwnerAt, mailbox, BusyAt, IInv, OwnerInv
    <2> QED BY <1>0, <1>1, <2>1 DEF SlotInv, BusyAt
  <1>11. CASE ClientMessage \/ HandlerStep \/ ServerStep \/ Signal \/ Exited
              \/ UNCHANGED vars
    <2>1. /\ UNCHANGED <<slot, current, acting, pc, chunk, actionCount>>
      BY <1>11 DEF ClientMessage, HandlerStep, SubmitAction, BrowserTelemetry,
         RequestQuit, MailboxSubmit, LedgerReplace, ServerStep, PollFinished,
         WaitEnds, WriteReport, Exit, Signal, Interrupt, InterruptAgain, Killed,
         Exited, mailbox, owner, vars
    <2>2. CASE ~RecordComplete
      BY <1>0, <1>1, <2>1, <2>2, SlotFrame
    <2> QED BY <1>2, <2>2
  <1> QED BY <1>2, <1>3, <1>4, <1>5, <1>6, <1>7, <1>8, <1>9, <1>10, <1>11
     DEF Next, OwnerStep, GenerateStep

\* An entry of the history is settled when its successor may come: the action
\* was replaced by it or is about to be, or the owner has it.
Settled(i) ==
    \/ Superseded(accepted[i]) /\ ledger[accepted[i]].by = accepted[i + 1]
    \/ handler.at = "replace" /\ handler.old = accepted[i]
    \/ Taken(accepted[i])

LEMMA SettledEverywhere ==
    SupersededByNext <=> \A i \in 1..(Len(accepted) - 1) : Settled(i)
  BY DEF SupersededByNext, Settled, Taken

\* Nothing but a new record, for an id that has none, takes a mark away.
LEMMA KeyMarksStay ==
    ASSUME IInv, [Next]_vars, NEW a \in Ids, ledger[a].label = "key"
    PROVE  ledger'[a].label = "key" /\ ledger[a].marks \subseteq ledger'[a].marks
  <1>0. /\ ledger \in [Actions -> Record] /\ acting \in Actions
        /\ Ids \subseteq Actions /\ Bootstrap \in Actions /\ Bootstrap \notin Ids
        /\ a # Bootstrap
    BY ConstantsAssumption DEF IInv, TypeOK, Actions, Bootstrap, Ids
  <1>1. ASSUME NEW F \in SUBSET Fields,
               ledger' = [ledger EXCEPT ![acting] = Marked(@, F)]
        PROVE  ledger'[a].label = "key" /\ ledger[a].marks \subseteq ledger'[a].marks
    <2>1. CASE acting = a
      <3>1. ledger'[a] = Marked(ledger[a], F)
        BY <1>0, <1>1, <2>1
      <3> QED BY <1>0, <3>1, MarkedRecord, MarkedMarks
    <2>2. CASE acting # a
      BY <1>0, <1>1, <2>2
    <2> QED BY <2>1, <2>2
  <1>2. CASE Select \/ Denoise \/ PresentFirst \/ CommitClean \/ DrainTails
    <2>1. PICK F \in SUBSET Fields :
              ledger' = [ledger EXCEPT ![acting] = Marked(@, F)]
      BY <1>2, FieldNames
         DEF Select, Denoise, PresentFirst, CommitClean, DrainTails, Generate
    <2> QED BY <1>1, <2>1
  <1>3. CASE StartGeneration
    <2>1. CASE acting = Bootstrap
      <3>1. ledger'[a] = ledger[a]
        BY <1>0, <1>3, <2>1 DEF StartGeneration
      <3> QED BY <3>1
    <2>2. CASE acting # Bootstrap
      <3>1. PICK F \in SUBSET Fields :
                ledger' = [ledger EXCEPT ![acting] = Marked(@, F)]
        BY <1>3, <2>2, FieldNames DEF StartGeneration
      <3> QED BY <1>1, <3>1
    <2> QED BY <2>1, <2>2
  <1>4. CASE RecordComplete
    BY <1>0, <1>4 DEF RecordComplete, Completed, Ensured, Label, Record
  <1>5. CASE LedgerReplace
    BY <1>0, <1>5 DEF LedgerReplace, Replaced, Ensured, Record
  <1>6. ASSUME NEW b \in Actions, BrowserTelemetry(b) PROVE ledger'[a] = ledger[a]
    BY <1>0, <1>6, MarkedMarks DEF BrowserTelemetry, Ensured
  <1>7. ASSUME NEW b \in Ids, SubmitAction(b) PROVE ledger'[a] = ledger[a]
    BY <1>0, <1>7 DEF SubmitAction, Fresh
  <1>8. CASE ledger' = ledger
    BY <1>8
  <1> QED BY <1>2, <1>3, <1>4, <1>5, <1>6, <1>7, <1>8
     DEF Next, ClientMessage, HandlerStep, OwnerStep, GenerateStep, ServerStep,
         MailboxSubmit, RequestQuit, Prepare, TakeQuit, TakePending, BecomeReady,
         MailboxComplete, OwnerFails, Cleanup, FinishOwner, PollFinished,
         Signal, Interrupt, InterruptAgain, Killed, WaitEnds, WriteReport,
         Exit, Exited, mailbox, vars

\* Every step but the displacement itself leaves an accepted action where it
\* was, or settles it.
LEMMA TakenStays ==
    ASSUME FateInv, MarksInv, [Next]_vars, NEW a \in Ids, ledger[a].label = "key",
           Taken(a), LedgerReplace => a # handler.old
    PROVE  Taken(a)'
  <1>0. /\ ledger \in [Actions -> Record] /\ Ids \subseteq Actions /\ acting \in Actions
        /\ Actions = Ids \cup {Bootstrap} /\ Bootstrap \notin Ids /\ IInv
        /\ NoAction \notin Ids
    BY ConstantsAssumption DEF FateInv, IInv, TypeOK, Actions, Bootstrap, Ids
  <1>1. Superseded(a)' = Superseded(a)
    <2>1. CASE LedgerReplace
      <3>1. ledger'[a] = ledger[a]
        BY <1>0, <2>1 DEF LedgerReplace
      <3> QED BY <3>1 DEF Superseded
    <2>2. CASE RecordComplete
      <3>1. acting = a => Running(a)
        BY <1>0, <2>2 DEF RecordComplete, OwnerAt, IInv, OwnerInv, BusyAt
      <3>2. /\ a # acting => ledger'[a] = ledger[a]
            /\ a = acting => ledger'[a].status = "complete"
        BY <1>0, <2>2 DEF RecordComplete, Completed, Ensured, Started, Record
      <3> QED BY <3>1, <3>2 DEF Superseded, Running
    <2>3. CASE ~LedgerReplace /\ ~RecordComplete
      BY <1>0, <2>3, FateFrame DEF Superseded
    <2> QED BY <2>1, <2>2, <2>3
  <1>2. CASE a # current
    BY <1>0, <1>1, <1>2, KeyMarksStay DEF Taken
  <1>3. CASE a = current /\ current' = current
    BY <1>3 DEF Taken
  <1>4. CASE a = current /\ current' # current
    <2>1. MailboxComplete
      <3>1. TakePending => current = NoAction
        BY <1>0 DEF TakePending, OwnerAt, IInv, OwnerInv
      <3> QED BY <1>0, <1>4, <3>1
         DEF Next, ClientMessage, HandlerStep, OwnerStep, GenerateStep, ServerStep,
             SubmitAction, MailboxSubmit, LedgerReplace, RequestQuit,
             BrowserTelemetry, Prepare, TakeQuit, Select, StartGeneration, Generate,
             Denoise, PresentFirst, CommitClean, DrainTails, RecordComplete,
             BecomeReady, OwnerFails, Cleanup, FinishOwner, PollFinished, Signal,
             Interrupt, InterruptAgain, Killed,
             WaitEnds, WriteReport, Exit, Exited, mailbox, vars
    <2>2. ledger' = ledger /\ ledger[a].marks = UpTo(1, 9) /\ Complete(a)
      BY <1>0, <1>4, <2>1
         DEF MailboxComplete, OwnerAt, MarksInv, IInv, OwnerInv, Passed
    <2>3. "input_selected" \in UpTo(1, 9)
      BY BoundaryNames DEF UpTo
    <2> QED BY <2>2, <2>3 DEF Taken, Superseded, Complete
  <1> QED BY <1>2, <1>3, <1>4

\* A settled entry stays settled when the history does not grow.
LEMMA SettledStays ==
    ASSUME FateInv, MarksInv, OrderInv, [Next]_vars, UNCHANGED accepted,
           NEW i \in 1..(Len(accepted) - 1), Settled(i)
    PROVE  Settled(i)'
  <1>0. /\ accepted \in Seq(Ids) /\ accepted[i] \in Ids /\ accepted[i + 1] \in Ids
        /\ ledger[accepted[i]].label = "key" /\ IInv /\ Len(accepted) \in Nat
        /\ ledger \in [Actions -> Record] /\ Ids \subseteq Actions
        /\ i \in 1..Len(accepted) /\ i + 1 \in 1..Len(accepted)
    BY DEF FateInv, IInv, TypeOK, OrderInv, Actions
  <1>1. CASE LedgerReplace
    <2>1. /\ handler.at = "replace" /\ Len(accepted) > 1
          /\ accepted[Len(accepted)] = handler.id
          /\ accepted[Len(accepted) - 1] = handler.old
          /\ handler.old \in Ids /\ Running(handler.old)
      BY <1>0, <1>1 DEF LedgerReplace, OrderInv, IInv, HandlerInv
    <2>2. CASE accepted[i] = handler.old
      <3>1. i = Len(accepted) - 1
        BY <1>0, <2>1, <2>2 DEF OrderInv
      <3>2. /\ ledger'[handler.old].status = "replaced"
            /\ ledger'[handler.old].by = handler.id
        BY <1>0, <1>1, <2>1 DEF LedgerReplace, Replaced, Ensured, Record, Running
      <3> QED BY <1>0, <2>1, <2>2, <3>1, <3>2 DEF Settled, Superseded
    <2>3. CASE accepted[i] # handler.old
      <3>1. ledger'[accepted[i]] = ledger[accepted[i]]
        BY <1>0, <1>1, <2>3 DEF LedgerReplace
      <3>2. CASE Taken(accepted[i])
        BY <1>0, <2>3, <3>2, TakenStays DEF Settled
      <3>3. CASE ~Taken(accepted[i])
        BY <1>0, <2>3, <3>1, <3>3 DEF Settled, Superseded
      <3> QED BY <3>2, <3>3
    <2> QED BY <2>2, <2>3
  <1>2. CASE ~LedgerReplace
    <2>1. CASE Taken(accepted[i])
      BY <1>0, <1>2, <2>1, TakenStays DEF Settled
    <2>2. CASE handler.at = "replace" /\ handler.old = accepted[i]
      <3>1. handler' = handler
        BY <1>2, <2>2
         DEF Next, ClientMessage, HandlerStep, OwnerStep, GenerateStep, ServerStep,
             SubmitAction, MailboxSubmit, RequestQuit, LoopFree,
             BrowserTelemetry, Prepare, TakeQuit, TakePending, Select,
             StartGeneration, Generate, MailboxComplete,
             Denoise, PresentFirst, CommitClean, DrainTails, RecordComplete,
             BecomeReady, OwnerFails, Cleanup, FinishOwner, PollFinished, Signal,
             Interrupt, InterruptAgain, Killed,
             WaitEnds, WriteReport, Exit, Exited, mailbox, vars
      <3> QED BY <2>2, <3>1 DEF Settled
    <2>3. CASE /\ Superseded(accepted[i])
               /\ ledger[accepted[i]].by = accepted[i + 1]
      <3>1. CASE RecordComplete
        <4>1. acting = accepted[i] => Running(accepted[i])
          BY <1>0, <3>1 DEF RecordComplete, OwnerAt, IInv, OwnerInv, BusyAt,
                            Bootstrap, Ids
        <4>2. ledger'[accepted[i]] = ledger[accepted[i]]
          BY <1>0, <2>3, <3>1, <4>1 DEF RecordComplete, Superseded, Running
        <4> QED BY <2>3, <4>2 DEF Settled, Superseded
      <3>2. CASE ~RecordComplete
        BY <1>0, <1>2, <2>3, <3>2, FateFrame DEF Settled, Superseded
      <3> QED BY <3>1, <3>2
    <2> QED BY <2>1, <2>2, <2>3 DEF Settled
  <1> QED BY <1>1, <1>2

LEMMA OrderFrame ==
    ASSUME FateInv, MarksInv, OrderInv, [Next]_vars, UNCHANGED accepted,
           \/ handler' = handler
           \/ handler'.at = "idle"
           \/ /\ handler'.at = "submit"
              /\ \A i \in 1..Len(accepted) : accepted[i] # handler'.id,
           \/ pending' = pending
           \/ pending' = NoAction /\ current' = pending
    PROVE  OrderInv'
  <1>0. /\ accepted \in Seq(Ids) /\ Len(accepted) \in Nat
        /\ \A i \in 1..Len(accepted) :
               accepted[i] \in Ids /\ ledger[accepted[i]].label = "key"
        /\ IInv
    BY DEF FateInv, IInv, TypeOK, OrderInv
  <1>1. \A i \in 1..Len(accepted) : ledger'[accepted[i]].label = "key"
    BY <1>0, KeyMarksStay
  <1>2. SupersededByNext'
    <2>1. \A i \in 1..(Len(accepted) - 1) : Settled(i)'
      BY SettledEverywhere, SettledStays DEF OrderInv
    <2> QED BY <2>1 DEF SupersededByNext, Settled, Taken
  <1>3. Len(accepted) > 0 => \/ accepted[Len(accepted)] = pending'
                             \/ Taken(accepted[Len(accepted)])'
    <2> SUFFICES ASSUME Len(accepted) > 0
                 PROVE  \/ accepted[Len(accepted)] = pending'
                        \/ Taken(accepted[Len(accepted)])'
      OBVIOUS
    <2>1. /\ Len(accepted) \in 1..Len(accepted)
          /\ accepted[Len(accepted)] \in Ids
      BY <1>0
    <2>2. CASE accepted[Len(accepted)] = pending
      BY <2>2 DEF Taken
    <2>3. CASE Taken(accepted[Len(accepted)])
      <3>1. LedgerReplace => accepted[Len(accepted)] # handler.old
        <4>1. LedgerReplace => Len(accepted) - 1 \in 1..Len(accepted)
                               /\ accepted[Len(accepted) - 1] = handler.old
          BY <1>0 DEF LedgerReplace, OrderInv
        <4> QED BY <1>0, <2>1, <4>1 DEF OrderInv
      <3> QED BY <1>0, <2>1, <2>3, <3>1, TakenStays
    <2> QED BY <2>2, <2>3 DEF OrderInv
  <1> QED BY <1>1, <1>2, <1>3 DEF OrderInv

\* mailbox.submit: the newest entry of the history becomes the one before it.
LEMMA OrderSubmitted ==
    ASSUME FateInv, MarksInv, OrderInv, MailboxSubmit
    PROVE  OrderInv'
  <1>0. /\ accepted \in Seq(Ids) /\ Len(accepted) \in Nat
        /\ \A i \in 1..Len(accepted) :
               accepted[i] \in Ids /\ ledger[accepted[i]].label = "key"
        /\ IInv /\ NoAction \notin Ids
        /\ handler \in [at : {"idle", "submit", "replace"},
                        id : Ids \cup {NoAction}, old : Ids \cup {NoAction}]
    BY ConstantsAssumption DEF FateInv, IInv, TypeOK, OrderInv, Actions
  <1>1. /\ handler.at = "submit" /\ handler.id \in Ids /\ Running(handler.id)
        /\ pending' = handler.id /\ UNCHANGED <<current, ledger>>
        /\ accepted' = Append(accepted, handler.id)
        /\ handler' = IF pending = NoAction THEN Idle
                      ELSE [handler EXCEPT !.at = "replace", !.old = pending]
    BY <1>0 DEF MailboxSubmit, IInv, HandlerInv
  <1> DEFINE n == Len(accepted)
  <1>2. /\ Len(accepted') = n + 1 /\ accepted'[n + 1] = handler.id
        /\ \A i \in 1..n : accepted'[i] = accepted[i]
    BY <1>0, <1>1
  <1>3. /\ pending = NoAction => handler'.at = "idle"
        /\ pending # NoAction => /\ handler'.at = "replace"
                                 /\ handler'.id = handler.id
                                 /\ handler'.old = pending
                                 /\ n > 0 /\ pending = accepted[n]
    BY <1>0, <1>1 DEF Idle, OrderInv
  <1>4. \A i, j \in 1..(n + 1) : accepted'[i] = accepted'[j] => i = j
    BY <1>0, <1>1, <1>2 DEF OrderInv
  <1>5. \A i \in 1..(n + 1) : ledger'[accepted'[i]].label = "key"
    BY <1>0, <1>1, <1>2 DEF Running
  <1>6. SupersededByNext'
    <2> SUFFICES ASSUME NEW i \in 1..n PROVE Settled(i)'
      BY <1>0, <1>2 DEF SupersededByNext, Settled, Taken
    <2>1. accepted'[i] = accepted[i] /\ accepted'[i + 1] = IF i = n THEN handler.id
                                                           ELSE accepted[i + 1]
      BY <1>0, <1>2
    <2>2. CASE i < n
      <3>1. Settled(i)
        BY <1>0, <2>2, SettledEverywhere DEF OrderInv
      <3> QED BY <1>0, <1>1, <2>1, <2>2, <3>1 DEF Settled, Taken, Superseded
    <2>3. CASE i = n
      <3>1. \/ accepted[n] = pending
            \/ Taken(accepted[n])
        BY <1>0, <2>3 DEF OrderInv
      <3>2. CASE accepted[n] = pending
        BY <1>0, <1>3, <2>1, <2>3, <3>2 DEF Settled
      <3>3. CASE Taken(accepted[n])
        BY <1>1, <2>1, <2>3, <3>3 DEF Settled, Taken, Superseded
      <3> QED BY <3>1, <3>2, <3>3
    <2> QED BY <1>0, <2>2, <2>3
  <1> QED BY <1>0, <1>1, <1>2, <1>3, <1>4, <1>5, <1>6 DEF OrderInv

LEMMA OrderStep == FateInv /\ MarksInv /\ OrderInv /\ [Next]_vars => OrderInv'
  <1> SUFFICES ASSUME FateInv, MarksInv, OrderInv, [Next]_vars PROVE OrderInv'
    OBVIOUS
  <1>1. CASE MailboxSubmit
    BY <1>1, OrderSubmitted
  <1>2. ASSUME NEW a \in Ids, SubmitAction(a) PROVE OrderInv'
    <2>1. /\ UNCHANGED <<accepted, pending>>
          /\ handler'.at = "submit" /\ handler'.id = a
          /\ ledger[a].label # "key"
      BY <1>2 DEF SubmitAction, Fresh, mailbox
    <2>2. \A i \in 1..Len(accepted) : accepted[i] # handler'.id
      BY <2>1 DEF OrderInv
    <2> QED BY <2>1, <2>2, OrderFrame
  <1>3. CASE LedgerReplace
    <2>1. UNCHANGED <<accepted, pending>> /\ handler'.at = "idle"
      BY <1>3 DEF LedgerReplace, Idle, mailbox
    <2> QED BY <2>1, OrderFrame
  <1>4. CASE TakePending
    <2>1. UNCHANGED <<accepted, handler>> /\ pending' = NoAction /\ current' = pending
      BY <1>4 DEF TakePending
    <2> QED BY <2>1, OrderFrame
  <1>5. CASE UNCHANGED <<accepted, handler, pending>>
    BY <1>5, OrderFrame
  <1> QED BY <1>1, <1>2, <1>3, <1>4, <1>5
     DEF Next, ClientMessage, HandlerStep, OwnerStep, GenerateStep, ServerStep,
         RequestQuit, BrowserTelemetry, Prepare, TakeQuit, Select,
         StartGeneration, Generate, MailboxComplete, Denoise, PresentFirst,
         CommitClean, DrainTails, RecordComplete, BecomeReady, OwnerFails, Cleanup,
         FinishOwner, PollFinished, Signal, Interrupt, InterruptAgain, Killed,
         WaitEnds, WriteReport, Exit, Exited, mailbox, vars

LEMMA HistoryInvariants == Spec => [](FateInv /\ MarksInv /\ SlotInv /\ OrderInv)
  <1> DEFINE J == FateInv /\ MarksInv /\ SlotInv /\ OrderInv
  <1>1. Init => SlotInv /\ OrderInv
    BY ConstantsAssumption, StartedRecord
       DEF Init, SlotInv, OrderInv, SupersededByNext, EmptyChunk, BusyAt, Complete,
           Absent, Idle, Ids, Actions
  <1>2. MarksInv /\ SlotInv /\ OrderInv /\ FateInv /\ [Next]_vars
            => (MarksInv /\ SlotInv /\ OrderInv)'
    BY MarksStep, SlotStep, OrderStep DEF FateInv
  <1>3. Init => MarksInv /\ SlotInv /\ OrderInv
    BY <1>1, MarksInit
  <1> QED BY <1>2, <1>3, FateInvHolds, PTL DEF Spec

\* An accepted action is generated on exactly one chunk, whose clean pass is
\* done when its record says complete, or displaced by the action accepted
\* right after it, or still on its way.
THEOREM OneFateHolds == Spec => []OneFate
  <1>1. FateInv /\ SlotInv /\ OrderInv => OneFate
    <2> SUFFICES ASSUME FateInv, SlotInv, OrderInv PROVE FatesExclude
      BY DEF OneFate, OrderInv
    <2>1. ASSUME NEW a \in Ids, Superseded(a)
          PROVE  {c \in Chunks : slot[c].by = a} = {} /\ a \notin {pending, current}
      <3>1. a \notin {pending, current} /\ ~Complete(a)
        BY <2>1, ConstantsAssumption
           DEF FateInv, IInv, MailboxInv, Running, Superseded, Complete, Actions
      <3> QED BY <3>1 DEF SlotInv
    <2>2. ASSUME NEW a \in Ids, Complete(a)
          PROVE  \E c \in Chunks :
                     {d \in Chunks : slot[d].by = a} = {c} /\ slot[c].kv = "clean"
      <3>1. PICK c \in Chunks : /\ slot[c].kv = "clean"
                                /\ \A d \in Chunks : slot[d].by = a <=> d = c
        BY <2>2 DEF SlotInv
      <3>2. {d \in Chunks : slot[d].by = a} = {c}
        BY <3>1
      <3> QED BY <3>1, <3>2
    <2> QED BY <2>1, <2>2 DEF FatesExclude
  <1> QED BY <1>1, HistoryInvariants, PTL
-----------------------------------------------------------------------------
(* SessionGeometry: the ChunkCount the server is started with *)

\* The frame formula of prepare_session loses less than one latent frame.
LEMMA AlignedFrames ==
    ASSUME NEW n \in Nat \ {0}
    PROVE  /\ Aligned(n) = 4 * ((n - 1) \div 4) + 1
           /\ (n - 1) \div 4 \in Nat
           /\ 4 * ((n - 1) \div 4) <= n - 1
           /\ n - 1 < 4 * ((n - 1) \div 4) + 4
  BY DEF Aligned

\* One latent chunk per four frames behind the first, of the shorter of the
\* two: the frames asked for and the camera path.
LEMMA LatentsOfFrames ==
    ASSUME NEW frames \in Nat \ {0}, NEW poses \in Nat \ {0}
    PROVE  LatentFrames(frames, poses)
               = Smaller((frames - 1) \div 4, (poses - 1) \div 4) + 1
  <1> DEFINE a == (frames - 1) \div 4
             b == (poses - 1) \div 4
             s == Smaller(a, b)
  <1>1. a \in Nat /\ b \in Nat /\ Aligned(frames) = 4 * a + 1 /\ Aligned(poses) = 4 * b + 1
    BY AlignedFrames
  <1> HIDE DEF a, b
  <1>2. s \in Nat /\ FrameNum(frames, poses) = 4 * s + 1
    BY <1>1 DEF FrameNum, Smaller
  <1> HIDE DEF s
  <1>3. (FrameNum(frames, poses) - 1) \div 4 = s
    BY <1>2
  <1> QED BY <1>3 DEF LatentFrames, s, a, b

\* For any --max-actions (the viewer takes 0) and any camera path: the session has a chunk for the
\* bootstrap, so ConstantsAssumption is met; a path that is long enough gives
\* it one chunk more than the bootstrap and the actions need; and the actions
\* that the viewer allows are --max-actions exactly if the path has room.
THEOREM ChunksOfSession ==
    ASSUME NEW maxActions \in Nat, NEW poses \in Nat \ {0}
    PROVE  /\ SessionChunks(maxActions, poses) \in Nat \ {0}
           /\ SessionChunks(maxActions, poses) <= maxActions + 2
           /\ SessionChunks(maxActions, poses) = maxActions + 2
                  <=> poses >= 4 * (maxActions + 1) + 1
           /\ LiveActions(maxActions, poses) \in 0..maxActions
           /\ LiveActions(maxActions, poses) = maxActions
                  <=> poses >= 4 * maxActions + 1
  <1> DEFINE b == (poses - 1) \div 4
  <1>1. /\ b \in Nat
        /\ 4 * b <= poses - 1
        /\ poses - 1 < 4 * b + 4
    BY AlignedFrames
  <1>2. /\ ConfiguredFrames(maxActions) \in Nat \ {0}
        /\ (ConfiguredFrames(maxActions) - 1) \div 4 = maxActions + 1
    BY DEF ConfiguredFrames
  <1>3. SessionChunks(maxActions, poses) = Smaller(maxActions + 1, b) + 1
    BY <1>2, LatentsOfFrames DEF SessionChunks
  <1> HIDE DEF b
  <1>4. LiveActions(maxActions, poses) = Smaller(maxActions, Smaller(maxActions + 1, b))
    BY <1>1, <1>3 DEF LiveActions, Smaller
  <1> QED BY <1>1, <1>3, <1>4 DEF Smaller
=============================================================================
