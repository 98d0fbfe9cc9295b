--------------------------- MODULE ActionPipeline ---------------------------
(***************************************************************************)
(* The browser server from the moment a key arrives on a websocket to the  *)
(* moment its action is recorded complete: PendingActionMailbox and        *)
(* TelemetryLedger (scripts/browser_protocol.py), ModelOwner and the life  *)
(* cycle of BrowserServer.run (scripts/run_browser.py).                    *)
(*                                                                         *)
(* Two threads interleave here.  The aiohttp loop runs submit_action       *)
(* without an await, so its steps (ledger.start, mailbox.submit,           *)
(* ledger.replace) never mix with another handler or with the polling      *)
(* coroutine, but each of them takes a lock of its own and the model owner *)
(* runs in between.  The model owner runs _run and _generate.              *)
(*                                                                         *)
(* Abstracted: the key an action carries (every key the mailbox accepts    *)
(* names a pose), clocks (a boundary is marked or not), events on the bus, *)
(* the frames handed to the presentation worker, and the tensors.          *)
(***************************************************************************)
EXTENDS Integers, Sequences, FiniteSets

CONSTANTS MaxId,       \* bound: clients use action ids 1..MaxId
          ChunkCount,  \* len(state["noise_chunks"])
          NoAction     \* no request: the None of _pending and _current

Bootstrap == 0               \* the action id _run gives the bootstrap request
Ids == 1..MaxId              \* ids submit_action lets through
Actions == Ids \cup {Bootstrap}
Chunks == 0..(ChunkCount - 1)

ASSUME ConstantsAssumption ==
    /\ MaxId \in Nat
    /\ ChunkCount \in Nat \ {0}
    /\ NoAction \notin Actions

VARIABLES
    pending, current, quit,             \* PendingActionMailbox
    ledger,                             \* TelemetryLedger: id -> record
    pc, acting, chunk, actionCount,     \* ModelOwner thread: position in _run
    ready, error, finished,             \*   and _generate, and its flags
    slot,                               \* chunk -> who generated it, its KV
    handler,                            \* the aiohttp loop in submit_action
    server, report,                     \* BrowserServer.run and the json file
    accepted                            \* history: ids in mailbox.submit order

mailbox == <<pending, current, quit>>
owner == <<pc, acting, chunk, actionCount, ready, error, finished>>
serving == <<server, report>>
vars == <<pending, current, quit, ledger, pc, acting, chunk, actionCount,
          ready, error, finished, slot, handler, server, report, accepted>>

-----------------------------------------------------------------------------
(* The ledger *)

\* TelemetryLedger.SERVER_FIELDS, in the order an action passes them.
Boundaries == <<"input_received", "input_selected", "generation_start",
                "accepted_x0", "base_rgb_ready", "clean_kv_start",
                "clean_kv_complete", "all_rgb_ready", "next_ready">>

Fields == {Boundaries[i] : i \in 1..9}

Record == [label  : {"absent", "unknown", "bootstrap", "key"},
           status : {"running", "complete", "replaced"},
           by     : Ids \cup {NoAction},
           marks  : SUBSET Fields]

\* ledger.start: a record written wholesale, whatever was there before.
Started(label, marks) ==
    [label |-> label, status |-> "running", by |-> NoAction, marks |-> marks]

Absent == Started("absent", {})

\* ledger.mark_server; _ensure_locked creates a record when there is none.
Ensured(r) == IF r.label = "absent" THEN Started("unknown", {}) ELSE r
Marked(r, fields) == [Ensured(r) EXCEPT !.marks = @ \cup fields]

\* ledger.replace, which is finish with status "replaced".
Replaced(r, by) == [Ensured(r) EXCEPT !.status = "replaced", !.by = by]

\* ledger.finish at the end of _generate.
Completed(r, label) == [Ensured(r) EXCEPT !.status = "complete", !.label = label]

Label(a) == IF a = Bootstrap THEN "bootstrap" ELSE "key"

EmptyChunk == [by |-> NoAction, kv |-> "empty"]
Idle == [at |-> "idle", id |-> NoAction, old |-> NoAction]
NoReport == [final |-> FALSE, ledger |-> <<>>]

-----------------------------------------------------------------------------
Init ==
    /\ pending = NoAction
    /\ current = NoAction
    /\ quit = FALSE
    /\ ledger = [a \in Actions |-> Absent]
    /\ pc = "loading"
    /\ acting = Bootstrap
    /\ chunk = 0
    /\ actionCount = 0
    /\ ready = FALSE
    /\ error = FALSE
    /\ finished = FALSE
    /\ slot = [c \in Chunks |-> EmptyChunk]
    /\ handler = Idle
    /\ server = "polling"
    /\ report = NoReport
    /\ accepted = <<>>

-----------------------------------------------------------------------------
(* The aiohttp loop: websocket messages *)

Alive == server # "exited"

\* The loop thread is free to start a handler or to resume a coroutine.
LoopFree == Alive /\ handler.at = "idle"

\* Mutants of Fresh: no duplicate check; a record that only telemetry has
\* created counts as an action.
FreshAlways(a) == a \in Ids
FreshAbsent(a) == ledger[a].label = "absent"

\* submit_action up to ledger.start: not ready, and ids that already have a
\* real label, are refused before anything is written.  A record that only
\* browser telemetry created is overwritten.
Fresh(a) == ledger[a].label \in {"absent", "unknown"}

SubmitAction(a) ==
    /\ LoopFree
    /\ ready
    /\ Fresh(a)
    /\ ledger' = [ledger EXCEPT ![a] = Started("key", {"input_received"})]
    /\ handler' = [at |-> "submit", id |-> a, old |-> NoAction]
    /\ UNCHANGED <<mailbox, owner, slot, serving, accepted>>

\* mailbox.submit: the request takes the slot; an occupant is displaced.  The
\* mailbox does not look at the quit flag.
MailboxSubmit ==
    /\ Alive
    /\ handler.at = "submit"
    /\ pending' = handler.id
    /\ accepted' = Append(accepted, handler.id)
    /\ handler' = IF pending = NoAction THEN Idle
                  ELSE [handler EXCEPT !.at = "replace", !.old = pending]
    /\ UNCHANGED <<current, quit, ledger, owner, slot, serving>>

\* Mutant of LedgerReplace: its two ids swapped.
LedgerReplaceSwapped ==
    /\ Alive
    /\ handler.at = "replace"
    /\ ledger' = [ledger EXCEPT ![handler.id] = Replaced(@, handler.old)]
    /\ handler' = Idle
    /\ UNCHANGED <<mailbox, owner, slot, serving, accepted>>

\* ledger.replace for the displaced request, still inside submit_action.
LedgerReplace ==
    /\ Alive
    /\ handler.at = "replace"
    /\ ledger' = [ledger EXCEPT ![handler.old] = Replaced(@, handler.id)]
    /\ handler' = Idle
    /\ UNCHANGED <<mailbox, owner, slot, serving, accepted>>

\* A quit key through submit_action or a "quit" message: request_quit.
RequestQuit ==
    /\ LoopFree
    /\ quit' = TRUE
    /\ UNCHANGED <<pending, current, ledger, owner, slot, handler, serving,
                   accepted>>

\* mark_browser: telemetry for any id, known or not.
BrowserTelemetry(a) ==
    /\ LoopFree
    /\ ledger' = [ledger EXCEPT ![a] = Ensured(@)]
    /\ UNCHANGED <<mailbox, owner, slot, handler, serving, accepted>>

-----------------------------------------------------------------------------
(* The model owner thread: _run and _generate *)

OwnerAt(l) == Alive /\ pc = l

\* Model loading, prepare_session and the decoder; then _generate(bootstrap).
Prepare ==
    /\ OwnerAt("loading")
    /\ pc' = "start"
    /\ UNCHANGED <<mailbox, ledger, acting, chunk, actionCount, ready, error,
                   finished, slot, handler, serving, accepted>>

\* mailbox.take: quit first, then the pending request; the 0.25 s timeout
\* with neither leaves everything as it is.
TakeQuit ==
    /\ OwnerAt("take")
    /\ quit
    /\ pc' = "cleanup"
    /\ UNCHANGED <<mailbox, ledger, acting, chunk, actionCount, ready, error,
                   finished, slot, handler, serving, accepted>>

\* Mutants of TakePending: the quit flag is not looked at; the slot keeps the
\* request that was taken from it.
TakePendingAfterQuit ==
    /\ OwnerAt("take")
    /\ pending # NoAction
    /\ current' = pending
    /\ pending' = NoAction
    /\ acting' = pending
    /\ pc' = "selected"
    /\ UNCHANGED <<quit, ledger, chunk, actionCount, ready, error, finished,
                   slot, handler, serving, accepted>>

TakePendingAndKeep ==
    /\ OwnerAt("take")
    /\ ~quit
    /\ pending # NoAction
    /\ current' = pending
    /\ acting' = pending
    /\ pc' = "selected"
    /\ UNCHANGED <<pending, quit, ledger, chunk, actionCount, ready, error,
                   finished, slot, handler, serving, accepted>>

TakePending ==
    /\ OwnerAt("take")
    /\ ~quit
    /\ pending # NoAction
    /\ current' = pending
    /\ pending' = NoAction
    /\ acting' = pending
    /\ pc' = "selected"
    /\ UNCHANGED <<quit, ledger, chunk, actionCount, ready, error, finished,
                   slot, handler, serving, accepted>>

\* mark input_selected, ACTION_RUNNING, make_plucker.
Select ==
    /\ OwnerAt("selected")
    /\ ledger' = [ledger EXCEPT ![acting] = Marked(@, {"input_selected"})]
    /\ pc' = "start"
    /\ UNCHANGED <<mailbox, acting, chunk, actionCount, ready, error,
                   finished, slot, handler, serving, accepted>>

\* The head of _generate: the bootstrap starts its own record; a user action
\* consumes a chunk number before the number is compared with the chunks the
\* session has.
StartGeneration ==
    LET next == IF acting = Bootstrap THEN 0 ELSE actionCount + 1
        r == IF acting = Bootstrap THEN Started("bootstrap", {})
             ELSE ledger[acting]
    IN  /\ OwnerAt("start")
        /\ ledger' = [ledger EXCEPT ![acting] = Marked(r, {"generation_start"})]
        /\ chunk' = next
        /\ actionCount' = next
        /\ IF acting # Bootstrap /\ next >= ChunkCount
           THEN pc' = "cleanup" /\ error' = TRUE
           ELSE pc' = "denoise" /\ UNCHANGED error
        /\ UNCHANGED <<mailbox, acting, ready, finished, slot, handler,
                       serving, accepted>>

\* One step of _generate: the boundaries it marks and where it goes next.
Generate(from, to, fields) ==
    /\ OwnerAt(from)
    /\ ledger' = [ledger EXCEPT ![acting] = Marked(@, fields)]
    /\ pc' = to
    /\ UNCHANGED <<mailbox, acting, chunk, actionCount, ready, error,
                   finished, handler, serving, accepted>>

WriteChunk(kv) == slot' = [slot EXCEPT ![chunk] = [by |-> acting, kv |-> kv]]

\* generate_chunk with the clean commit deferred: the chunk's keys and values
\* in the cache are those of the last noisy forward.
Denoise ==
    /\ Generate("denoise", "rgb0", {"accepted_x0"})
    /\ WriteChunk("noisy")

\* Mutant of PresentFirst: the clean pass is skipped when a key is waiting.
PresentFirstEager ==
    /\ Generate("rgb0", IF pending = NoAction THEN "commit" ELSE "drain",
                {"base_rgb_ready", "clean_kv_start"})
    /\ UNCHANGED slot

\* begin_latent, RGB0 to the presentation worker, clean_kv_start.
PresentFirst ==
    /\ Generate("rgb0", "commit", {"base_rgb_ready", "clean_kv_start"})
    /\ UNCHANGED slot

CommitClean ==
    /\ Generate("commit", "drain", {"clean_kv_complete"})
    /\ WriteChunk("clean")

\* drain_latent, the tail frames, all_rgb_ready and next_ready.
DrainTails ==
    /\ Generate("drain", "record", {"all_rgb_ready", "next_ready"})
    /\ UNCHANGED slot

\* ledger.finish and the return from _generate.
RecordComplete ==
    /\ OwnerAt("record")
    /\ ledger' = [ledger EXCEPT ![acting] = Completed(@, Label(acting))]
    /\ pc' = IF acting = Bootstrap THEN "wait_encoded" ELSE "complete"
    /\ UNCHANGED <<mailbox, acting, chunk, actionCount, ready, error,
                   finished, slot, handler, serving, accepted>>

\* wait_encoded for the bootstrap's RGB0: its answer is ignored, so 20 s
\* without an encoded frame also ends in INTERACTIVE_READY.
BecomeReady ==
    /\ OwnerAt("wait_encoded")
    /\ ready' = TRUE
    /\ pc' = "take"
    /\ UNCHANGED <<mailbox, ledger, acting, chunk, actionCount, error,
                   finished, slot, handler, serving, accepted>>

\* Mutant of MailboxComplete: it empties the whole mailbox.
MailboxCompleteAll ==
    /\ OwnerAt("complete")
    /\ current' = NoAction
    /\ pending' = NoAction
    /\ pc' = "take"
    /\ UNCHANGED <<quit, ledger, acting, chunk, actionCount, ready,
                   error, finished, slot, handler, serving, accepted>>

MailboxComplete ==
    /\ OwnerAt("complete")
    /\ current' = NoAction
    /\ pc' = "take"
    /\ UNCHANGED <<pending, quit, ledger, acting, chunk, actionCount, ready,
                   error, finished, slot, handler, serving, accepted>>

\* Any exception of the model, the decoder or make_plucker.  A forward that
\* fails may have written part of the chunk's keys.
MayFail == {"loading", "start", "denoise", "rgb0", "commit", "drain"}

OwnerFails ==
    /\ Alive
    /\ pc \in MayFail
    /\ error' = TRUE
    /\ pc' = "cleanup"
    /\ IF pc \in {"denoise", "commit"} THEN WriteChunk("noisy")
       ELSE UNCHANGED slot
    /\ UNCHANGED <<mailbox, ledger, acting, chunk, actionCount, ready,
                   finished, handler, serving, accepted>>

\* Mutant of Cleanup: ready is left set.
CleanupStillReady ==
    /\ OwnerAt("cleanup")
    /\ pc' = "stopping"
    /\ UNCHANGED <<mailbox, ledger, acting, chunk, actionCount, ready, error,
                   finished, slot, handler, serving, accepted>>

\* The finally of _run: ready first, then STOPPING, presentation.stop and
\* the rest, finished last.  Assumed: decoder.clear and presentation.stop do
\* not raise; otherwise finished would never be set.
Cleanup ==
    /\ OwnerAt("cleanup")
    /\ ready' = FALSE
    /\ pc' = "stopping"
    /\ UNCHANGED <<mailbox, ledger, acting, chunk, actionCount, error,
                   finished, slot, handler, serving, accepted>>

FinishOwner ==
    /\ OwnerAt("stopping")
    /\ finished' = TRUE
    /\ pc' = "finished"
    /\ UNCHANGED <<mailbox, ledger, acting, chunk, actionCount, ready, error,
                   slot, handler, serving, accepted>>

-----------------------------------------------------------------------------
(* BrowserServer.run *)

\* Mutant of PollFinished: an owner that ended with an error is not noticed.
PollFinishedQuitOnly ==
    /\ LoopFree
    /\ server = "polling"
    /\ finished
    /\ quit
    /\ server' = "waiting"
    /\ UNCHANGED <<mailbox, ledger, owner, slot, handler, report, accepted>>

\* The polling loop sees that the owner has finished for a reason it knows.
PollFinished ==
    /\ LoopFree
    /\ server = "polling"
    /\ finished
    /\ quit \/ error
    /\ quit' = TRUE
    /\ server' = "waiting"
    /\ UNCHANGED <<pending, current, ledger, owner, slot, handler, report,
                   accepted>>

\* Ctrl-C cancels the polling coroutine; its finally requests quit.
Interrupt ==
    /\ LoopFree
    /\ server = "polling"
    /\ quit' = TRUE
    /\ server' = "waiting"
    /\ UNCHANGED <<pending, current, ledger, owner, slot, handler, report,
                   accepted>>

\* Ctrl-C while the finally clause waits or writes: the rest of it is skipped,
\* and with it browser_metrics.json.
InterruptAgain ==
    /\ LoopFree
    /\ server \in {"waiting", "reporting"}
    /\ server' = "closing"
    /\ UNCHANGED <<mailbox, ledger, owner, slot, handler, report, accepted>>

\* timeout --signal=INT --kill-after=20s of the launcher: 20 s after its Ctrl-C
\* the process is killed, wherever its threads are.
Killed ==
    /\ server \in {"waiting", "reporting", "closing"}
    /\ server' = "exited"
    /\ UNCHANGED <<mailbox, ledger, owner, slot, handler, report, accepted>>

Signal == Interrupt \/ InterruptAgain \/ Killed

\* owner.finished.wait(30.0): it answers, or 30 s pass while the owner is
\* still inside a generation.
WaitEnds ==
    /\ LoopFree
    /\ server = "waiting"
    /\ server' = "reporting"
    /\ UNCHANGED <<mailbox, ledger, owner, slot, handler, report, accepted>>

\* browser_metrics.json: whether the owner was done is not part of the file;
\* "final" remembers it for the properties below.
WriteReport ==
    /\ LoopFree
    /\ server = "reporting"
    /\ report' = [final |-> finished, ledger |-> ledger]
    /\ server' = "closing"
    /\ UNCHANGED <<mailbox, ledger, owner, slot, handler, accepted>>

\* runner.cleanup and the end of the process, daemon threads included.
Exit ==
    /\ LoopFree
    /\ server = "closing"
    /\ server' = "exited"
    /\ UNCHANGED <<mailbox, ledger, owner, slot, handler, report, accepted>>

Exited ==
    /\ server = "exited"
    /\ UNCHANGED vars

-----------------------------------------------------------------------------
HandlerStep == MailboxSubmit \/ LedgerReplace

ClientMessage ==
    \/ \E a \in Ids : SubmitAction(a)
    \/ \E a \in Actions : BrowserTelemetry(a)
    \/ RequestQuit

GenerateStep ==
    \/ StartGeneration
    \/ Denoise
    \/ PresentFirst
    \/ CommitClean
    \/ DrainTails
    \/ RecordComplete

OwnerStep ==
    \/ Prepare
    \/ TakeQuit
    \/ TakePending
    \/ Select
    \/ GenerateStep
    \/ BecomeReady
    \/ MailboxComplete
    \/ Cleanup
    \/ FinishOwner

ServerStep ==
    \/ PollFinished
    \/ WaitEnds
    \/ WriteReport
    \/ Exit

Next ==
    \/ ClientMessage
    \/ HandlerStep
    \/ OwnerStep
    \/ OwnerFails
    \/ ServerStep
    \/ Signal
    \/ Exited

Spec == Init /\ [][Next]_vars

\* The two threads keep running: a handler that has begun reaches its end, the
\* model owner's calls return or raise, and the polling coroutine is resumed
\* between any two messages.  Clients, Ctrl-C and failures owe nothing.
Fairness ==
    /\ WF_vars(HandlerStep)
    /\ WF_vars(OwnerStep)
    /\ WF_vars(ServerStep)

FairSpec == Spec /\ Fairness

-----------------------------------------------------------------------------
(* Properties *)

\* Every variable has its type.
TypeOK ==
    /\ pending \in Ids \cup {NoAction}
    /\ current \in Ids \cup {NoAction}
    /\ quit \in BOOLEAN
    /\ ledger \in [Actions -> Record]
    /\ pc \in {"loading", "take", "selected", "start", "denoise", "rgb0",
               "commit", "drain", "record", "wait_encoded", "complete",
               "cleanup", "stopping", "finished"}
    /\ acting \in Actions
    /\ chunk \in Nat
    /\ actionCount \in Nat
    /\ ready \in BOOLEAN
    /\ error \in BOOLEAN
    /\ finished \in BOOLEAN
    /\ slot \in [Chunks -> [by : Actions \cup {NoAction},
                            kv : {"empty", "noisy", "clean"}]]
    /\ handler \in [at  : {"idle", "submit", "replace"},
                    id  : Ids \cup {NoAction},
                    old : Ids \cup {NoAction}]
    /\ server \in {"polling", "waiting", "reporting", "closing", "exited"}
    /\ accepted \in Seq(Ids)

Running(a) == ledger[a].label = "key" /\ ledger[a].status = "running"
Complete(a) == ledger[a].status = "complete"
Superseded(a) == ledger[a].status = "replaced"

\* The id submit_action holds between two ledger or mailbox calls.
InHandler ==
    CASE handler.at = "submit" -> {handler.id}
      [] handler.at = "replace" -> {handler.old}
      [] OTHER -> {}

\* A record that says "running" belongs to an action somebody still holds:
\* the mailbox, the model owner, or the handler in the middle of
\* submit_action; and whatever waits in the mailbox is on record.  Neither a
\* displacement nor a race between ledger.start and take loses an action.
NoActionLost ==
    /\ \A a \in Ids : Running(a) => a \in {pending, current} \cup InHandler
    /\ pending # NoAction => Running(pending)

\* The boundaries marked on an action's record are always a prefix of the
\* order an action passes them (the bootstrap has no input): the handler's
\* wholesale ledger.start never wipes a mark the model owner made.
MarksInOrder ==
    \A a \in Actions :
        LET first == IF ledger[a].label = "bootstrap" THEN 3 ELSE 1
        IN  \E last \in 0..9 :
                ledger[a].marks = {Boundaries[i] : i \in first..last}

\* A replaced action never reached a chunk and is held by nobody; a complete
\* one generated exactly one chunk, whose clean keys are committed.
FatesExclude ==
    \A a \in Ids :
        LET mine == {c \in Chunks : slot[c].by = a}
        IN  /\ Superseded(a) => mine = {} /\ a \notin {pending, current}
            /\ Complete(a) => \E c \in Chunks :
                                 mine = {c} /\ slot[c].kv = "clean"

\* The mailbox is latest-wins without gaps: an accepted action that has a
\* successor was either taken by the model owner or replaced, and if it was
\* replaced then by that very successor.
SupersededByNext ==
    \A i \in 1..Len(accepted) - 1 :
        LET a == accepted[i]
        IN  \/ Superseded(a) /\ ledger[a].by = accepted[i + 1]
            \/ handler.at = "replace" /\ handler.old = a
            \/ a = current
            \/ ~Superseded(a) /\ "input_selected" \in ledger[a].marks

\* An action has one fate, and its record tells which: executed on a chunk of
\* its own, or displaced by the action accepted right after it.
OneFate == FatesExclude /\ SupersededByNext

\* No chunk is denoised on top of a chunk whose clean keys are missing, and
\* none is skipped: the clean t=0 pass is required before another DiT action.
CleanBeforeNext ==
    \A c, d \in Chunks :
        slot[c].kv # "empty" /\ d < c => slot[d].kv = "clean"

\* A terminal record is never reopened or given another fate.
TerminalStep ==
    \A a \in Actions :
        ledger[a].status # "running" => /\ ledger'[a].status = ledger[a].status
                                       /\ ledger'[a].by = ledger[a].by

TerminalRecordsStay == [][TerminalStep]_vars

\* Quit has priority: once it has been requested no action is selected, not
\* even one that was accepted before.
NoSelectionStep == quit => current' \in {current, NoAction}

NoSelectionAfterQuit == [][NoSelectionStep]_vars

\* A report written after the model owner finished is final: nothing that
\* still runs changes an action's record or accepts another action.
ReportIsFinal ==
    report.final => \A a \in Actions :
                        ledger[a].label \in {"bootstrap", "key"} =>
                            ledger[a] = report.ledger[a]

\* Every accepted action is completed or replaced, unless quit, an error or
\* the end of the process intervenes.
AcceptedIsResolved ==
    \A a \in Ids : Running(a) ~> \/ ~Running(a)
                                \/ quit \/ error \/ ~Alive

\* Quit, from whichever side, ends the process, and so does an error: the
\* polling loop never waits for an owner that is gone.
ServerStops == (quit \/ error \/ finished) ~> (server = "exited")

\* The mailbox, the ledger and the two threads implement the one-slot
\* promise of ActionSlot.
Slot == INSTANCE ActionSlot WITH
    waiting <- pending,
    running <- IF current # NoAction /\ ~Complete(current) THEN current
               ELSE NoAction,
    done <- {a \in Ids : Complete(a)},
    superseded <- {a \in Ids : Superseded(a)}
                  \cup (IF handler.at = "replace" THEN {handler.old} ELSE {}),
    open <- ~quit

ImplementsActionSlot == Slot!Spec
=============================================================================
