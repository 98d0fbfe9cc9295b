---------------------------- MODULE BenchmarkRun ----------------------------
(***************************************************************************)
(* The benchmark client of scripts/browser_benchmark.py against the server *)
(* of ActionPipeline: it waits for INTERACTIVE_READY, sends the actions    *)
(* 1..MaxId one after the other, each when it has the first frame and the  *)
(* complete record of the one before, and then quits the server.           *)
(*                                                                         *)
(* The two directions of the websocket are FIFOs.  The first frame of an   *)
(* action reaches the client through the JPEG thread and so in no fixed    *)
(* order with the record of that action.                                   *)
(*                                                                         *)
(* Abstracted: tail frames, acknowledgements and statuses the client skips *)
(* or cannot tell apart; the three telemetry messages of a frame are one.  *)
(* Delivery is reliable while the server runs: EventDelivery has what full *)
(* buffers drop, Presentation a JPEG thread that fails.                    *)
(***************************************************************************)
EXTENDS ActionPipeline

VARIABLES
    client,    \* position of main_async
    asked,     \* the last action sent
    gotFrame,  \* of that action: got_frame
    gotRecord, \*   and got_record
    encoding,  \* actions whose first frame is with the JPEG thread
    inbox,     \* server -> client
    outbox     \* client -> server

clientVars == <<client, asked, gotFrame, gotRecord>>
benchVars == <<clientVars, encoding, inbox, outbox>>
allVars == <<vars, benchVars>>

Message(kind, a) == [kind |-> kind, id |-> a]

BenchInit ==
    /\ Init
    /\ client = "connected"
    /\ asked = 0
    /\ gotFrame = FALSE
    /\ gotRecord = FALSE
    /\ encoding = <<>>
    /\ inbox = <<>>
    /\ outbox = <<>>

-----------------------------------------------------------------------------
(* The server with its events *)

\* What a step of the model owner publishes for the client: INTERACTIVE_READY,
\* also after every action, the record of a finished action, the status ERROR.
Published ==
    CASE pc = "wait_encoded" \/ (pc = "complete" /\ ~quit) ->
             <<Message("ready", NoAction)>>
      [] pc = "record"       -> <<Message("complete", acting)>>
      [] error' /\ ~error    -> <<Message("error", NoAction)>>
      [] OTHER               -> <<>>

Owner(step) ==
    /\ step
    /\ inbox' = inbox \o Published
    /\ encoding' = IF pc = "rgb0" /\ pc' = "commit"
                   THEN Append(encoding, acting) ELSE encoding
    /\ UNCHANGED <<clientVars, outbox>>

\* The JPEG thread publishes the next first frame; it is gone when the thread
\* has been stopped before that.
Encode ==
    /\ Alive
    /\ encoding # <<>>
    /\ inbox' = Append(inbox, Message("frame", Head(encoding)))
    /\ encoding' = Tail(encoding)
    /\ UNCHANGED <<vars, clientVars, outbox>>

\* submit_action; the one it displaces is announced as replaced.
Handler ==
    /\ HandlerStep
    /\ inbox' = IF handler.at = "replace"
                THEN Append(inbox, Message("replaced", handler.old)) ELSE inbox
    /\ UNCHANGED <<clientVars, encoding, outbox>>

\* The websocket handler takes the next message.  An action that is not ready
\* or not new is answered by an acknowledgement, which the client skips.
Receive ==
    /\ LoopFree
    /\ outbox # <<>>
    /\ LET m == Head(outbox)
       IN  \/ m.kind = "action" /\ SubmitAction(m.id)
           \/ m.kind = "action" /\ ~(ready /\ Fresh(m.id)) /\ UNCHANGED vars
           \/ m.kind = "telemetry" /\ BrowserTelemetry(m.id)
           \/ m.kind = "quit" /\ RequestQuit
    /\ outbox' = Tail(outbox)
    /\ UNCHANGED <<clientVars, encoding, inbox>>

Server(step) == step /\ UNCHANGED benchVars

-----------------------------------------------------------------------------
(* The client *)

\* Mutant of Answered: either of the two is enough.
AnsweredByEither == asked = 0 \/ gotFrame \/ gotRecord

\* while not (got_frame and got_record)
Answered == asked = 0 \/ (gotFrame /\ gotRecord)

\* The loop before READY: everything but INTERACTIVE_READY is skipped, the
\* status ERROR too.
AwaitReady ==
    /\ client = "connected"
    /\ inbox # <<>>
    /\ client' = IF Head(inbox).kind = "ready" THEN "running" ELSE client
    /\ inbox' = Tail(inbox)
    /\ UNCHANGED <<vars, asked, gotFrame, gotRecord, encoding, outbox>>

SendAction ==
    /\ client = "running"
    /\ Answered
    /\ asked < MaxId
    /\ asked' = asked + 1
    /\ gotFrame' = FALSE
    /\ gotRecord' = FALSE
    /\ outbox' = Append(outbox, Message("action", asked + 1))
    /\ UNCHANGED <<vars, client, encoding, inbox>>

\* The loop after an action: what belongs to another action is skipped.
Reading(kinds) ==
    /\ client = "running"
    /\ ~Answered
    /\ inbox # <<>>
    /\ Head(inbox).kind \in kinds
    /\ inbox' = Tail(inbox)
    /\ UNCHANGED <<vars, asked, encoding>>

\* Mutant of ReadFrame: only a frame behind the record counts.
ReadFrameBehindRecord ==
    /\ Reading({"frame"})
    /\ IF Head(inbox).id = asked /\ gotRecord
       THEN /\ gotFrame' = TRUE
            /\ outbox' = Append(outbox, Message("telemetry", asked))
       ELSE UNCHANGED <<gotFrame, outbox>>
    /\ UNCHANGED <<client, gotRecord>>

ReadFrame ==
    /\ Reading({"frame"})
    /\ IF Head(inbox).id = asked
       THEN /\ gotFrame' = TRUE
            /\ outbox' = Append(outbox, Message("telemetry", asked))
       ELSE UNCHANGED <<gotFrame, outbox>>
    /\ UNCHANGED <<client, gotRecord>>

ReadRecord ==
    /\ Reading({"complete", "replaced"})
    /\ gotRecord' = IF Head(inbox).id = asked THEN Head(inbox).kind = "complete"
                    ELSE gotRecord
    /\ UNCHANGED <<client, gotFrame, outbox>>

ReadError ==
    /\ Reading({"error"})
    /\ client' = "failed"
    /\ UNCHANGED <<gotFrame, gotRecord, outbox>>

\* A later INTERACTIVE_READY is not looked at.
ReadReady ==
    /\ Reading({"ready"})
    /\ UNCHANGED <<client, gotFrame, gotRecord, outbox>>

\* The end of the list: quit, and the report of the benchmark.
Quit ==
    /\ client = "running"
    /\ Answered
    /\ asked = MaxId
    /\ client' = "done"
    /\ outbox' = Append(outbox, Message("quit", NoAction))
    /\ UNCHANGED <<vars, asked, gotFrame, gotRecord, encoding, inbox>>

\* The websocket is closed with the server; what the broadcast had not sent
\* by then never comes, and what the client still sends may raise.
Closed ==
    /\ server = "exited"
    /\ client \in {"connected", "running"}
    /\ client' = "failed"
    /\ UNCHANGED <<vars, asked, gotFrame, gotRecord, encoding, inbox, outbox>>

\* --ready-timeout, --action-timeout
TimesOut ==
    /\ client = "connected" \/ (client = "running" /\ ~Answered)
    /\ inbox = <<>>
    /\ client' = "timeout"
    /\ UNCHANGED <<vars, asked, gotFrame, gotRecord, encoding, inbox, outbox>>

-----------------------------------------------------------------------------
ClientStep ==
    \/ AwaitReady
    \/ SendAction
    \/ ReadFrame
    \/ ReadRecord
    \/ ReadError
    \/ ReadReady
    \/ Quit
    \/ Closed

Ended == server = "exited" /\ client \in {"done", "failed", "timeout"}

BenchNext ==
    \/ Owner(OwnerStep)
    \/ Owner(OwnerFails)
    \/ Encode
    \/ Handler
    \/ Receive
    \/ Server(ServerStep)
    \/ Server(Signal)
    \/ ClientStep
    \/ TimesOut
    \/ Ended /\ UNCHANGED allVars

\* Both processes keep running; nothing owes a failure, a Ctrl-C or a time-out.
BenchFairness ==
    /\ WF_allVars(Owner(OwnerStep))
    /\ WF_allVars(Encode)
    /\ WF_allVars(Handler)
    /\ WF_allVars(Receive)
    /\ WF_allVars(Server(ServerStep))
    /\ WF_allVars(ClientStep)

BenchSpec == BenchInit /\ [][BenchNext]_allVars /\ BenchFairness

-----------------------------------------------------------------------------
(* Properties *)

\* docs/artifacts/rc1-benchmark-20260911/README.md:5: the benchmark "sent the
\* next action only after `next_ready`".  When an action is on its way, every
\* earlier one has passed that boundary and is recorded complete, and none was
\* ever displaced: first frame and record are enough to know.
NextActionAfterNextReady ==
    \A a \in Ids :
        a < asked => "next_ready" \in ledger[a].marks /\ Complete(a)

\* The benchmark ends without the help of its time-outs, and it can only fail
\* when the model owner failed or somebody else stopped the server: no order
\* of frame, record and READY leaves it waiting for what has already passed.
BenchmarkEnds ==
    /\ <>(client \in {"done", "failed", "timeout"})
    /\ [](client = "failed" => error \/ quit)
=============================================================================
