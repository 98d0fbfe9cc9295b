---------------------------- MODULE BatchSession ----------------------------
(***************************************************************************)
(* A recorded session: run_session of scripts/run_interactive.py with the  *)
(* two display decoders, in its serial and its overlapped schedule.        *)
(*                                                                         *)
(* The host thread enqueues GPU work.  On the main stream it waits for     *)
(* every forward, so a forward is one step of the host.  With --overlap    *)
(* the VAE decodes on a stream of its own, which advances by itself while  *)
(* the host goes on with the next chunk.                                   *)
(*                                                                         *)
(* Abstracted: the tensors, timing events, the finite/min/max statistics,  *)
(* the module profilers (they only add hooks that measure), the video.     *)
(***************************************************************************)
EXTENDS Integers, Sequences

CONSTANTS ChunkCount,  \* len(state["noise_chunks"])
          NoChunk      \* no chunk: nothing left inside the decoder

Chunks == 0..(ChunkCount - 1)

ASSUME ConstantsAssumption ==
    /\ ChunkCount \in Nat \ {0}
    /\ NoChunk \notin Chunks

\* --overlap, --display-decoder taehv, --defer-clean-kv, --save-latents,
\* --max-chunks (0: all) and --profile-attention-from-chunk (-1: never).
Options == [overlap : BOOLEAN, taehv : BOOLEAN, defer : BOOLEAN,
            save : BOOLEAN, limit : 0..ChunkCount, probeFrom : -1..ChunkCount]

VARIABLES
    opts,     \* the arguments of the run
    pc,       \* position of the host in run_session
    chunk,    \* chunk_id of the loop
    kv,       \* chunk -> its keys in the self-attention cache
    fed,      \* latents the decoder has consumed since it was cleared
    inside,   \* TAEHV: the chunk whose remaining frames are in the decoder
    frames,   \* chunk -> how much of it has been decoded
    vaeq,     \* work enqueued on the VAE stream and not yet executed
    pending,  \* overlapped chunks waiting for finish_action
    rows,     \* the lists "actions" and "outputs", which grow together
    latents,  \* accepted_latents
    probe,    \* DitAttentionProbe: installed or not, forwards it recorded
    saved,    \* accepted_latents.pt is complete
    status,   \* status of metrics.json; "running": there is no such file
    fault     \* history: the GPU or the model raised, or Ctrl-C

vars == <<opts, pc, chunk, kv, fed, inside, frames, vaeq, pending, rows,
          latents, probe, saved, status, fault>>

decoding == <<fed, inside, frames>>
queues == <<vaeq, pending>>
results == <<rows, latents, saved, status, fault>>

\* Chunks the loop runs through before it is exhausted or breaks.
Planned == IF opts.limit = 0 THEN ChunkCount ELSE opts.limit

\* Mutant of Deferred: the overlapped schedule honours the option, although
\* it has no hook that would run the deferred pass.
DeferredAlways == opts.defer

\* generate_chunk defers its clean pass only in the serial schedule.
Deferred == opts.defer /\ ~opts.overlap

-----------------------------------------------------------------------------
Init ==
    /\ opts \in Options
    /\ pc = "start"
    /\ chunk = 0
    /\ kv = [c \in Chunks |-> "empty"]
    /\ fed = <<>>
    /\ inside = NoChunk
    /\ frames = [c \in Chunks |-> "none"]
    /\ vaeq = <<>>
    /\ pending = <<>>
    /\ rows = <<>>
    /\ latents = <<>>
    /\ probe = [at |-> "none", calls |-> {}]
    /\ saved = FALSE
    /\ status = "running"
    /\ fault = FALSE

\* The host moves on and touches nothing else than what the action names.
Host(from, to) == pc = from /\ pc' = to /\ UNCHANGED <<opts, fault>>

\* An exception leaves run_session; main writes metrics.json with the failure
\* and the rows, which were local to run_session, are gone.
Raise ==
    /\ pc' = "done"
    /\ status' = "failure"
    /\ UNCHANGED <<opts, chunk, kv, decoding, queues, rows, latents, saved>>

\* The constructor of the decoder; TAEHV refuses the overlapped schedule.
Start ==
    /\ pc = "start"
    /\ IF opts.overlap /\ opts.taehv
       THEN Raise /\ UNCHANGED <<probe, fault>>
       ELSE /\ Host("start", "loop")
            /\ UNCHANGED <<chunk, kv, decoding, queues, probe, rows, latents,
                           saved, status>>

-----------------------------------------------------------------------------
(* One chunk on the main stream *)

\* A forward of the current chunk is seen by the probe while it is installed.
Recorded(p, kind) ==
    IF p.at = "on" THEN [p EXCEPT !.calls = @ \cup {<<chunk, kind>>}] ELSE p

\* The head of the loop and the denoising forwards of generate_chunk.
Denoise ==
    /\ chunk < Planned
    /\ Host("loop", IF Deferred THEN "generated" ELSE "commit")
    /\ probe' = Recorded(IF chunk = opts.probeFrom
                         THEN [probe EXCEPT !.at = "on"] ELSE probe, "denoise")
    /\ kv' = [kv EXCEPT ![chunk] = "noisy"]
    /\ UNCHANGED <<chunk, decoding, queues, rows, latents, saved, status>>

LoopEnds ==
    /\ chunk = Planned
    /\ Host("loop", IF opts.overlap THEN "synchronize" ELSE "close")
    /\ UNCHANGED <<chunk, kv, decoding, queues, probe, rows, latents, saved,
                   status>>

\* commit_clean_kv.
CleanPass ==
    /\ kv' = [kv EXCEPT ![chunk] = "clean"]
    /\ probe' = Recorded(probe, "clean")

\* The clean pass at the end of generate_chunk.
CommitAtOnce ==
    /\ Host("commit", "generated")
    /\ CleanPass
    /\ UNCHANGED <<chunk, decoding, queues, rows, latents, saved, status>>

\* The statements after generate_chunk: the serial branch keeps the latent,
\* and the probe is taken back when it has seen its third chunk.
Generated ==
    /\ Host("generated", IF opts.overlap THEN "enqueue"
                         ELSE IF opts.taehv THEN "begin" ELSE "decode")
    /\ latents' = IF opts.save /\ ~opts.overlap THEN Append(latents, chunk)
                  ELSE latents
    /\ probe' = IF probe.at = "on" /\ chunk >= opts.probeFrom + 2
                THEN [probe EXCEPT !.at = "off"] ELSE probe
    /\ UNCHANGED <<chunk, kv, decoding, queues, rows, saved, status>>

NextChunk(from) == Host(from, "loop") /\ chunk' = chunk + 1

\* finish_action appends the row and the decoded frames of one chunk, with
\* what is true of the chunk at that moment.
Row(c) == [chunk |-> c, frames |-> frames[c], kv |-> kv[c]]

-----------------------------------------------------------------------------
(* The serial schedule *)

\* The canonical decoder decodes the whole chunk in one call.
Decode ==
    /\ Host("decode", "visible")
    /\ fed' = Append(fed, chunk)
    /\ frames' = [frames EXCEPT ![chunk] = "all"]
    /\ UNCHANGED <<chunk, kv, inside, queues, probe, rows, latents, saved,
                   status>>

\* begin_latent: the first frame of the chunk; the rest stays inside.  A
\* latent fed before the previous one was drained would come out behind the
\* frames of that one.
BeginLatent ==
    /\ Host("begin", "visible")
    /\ fed' = Append(fed, chunk)
    /\ inside' = chunk
    /\ frames' = [frames EXCEPT ![chunk] =
                    IF inside = NoChunk THEN "first" ELSE "mixed"]
    /\ UNCHANGED <<chunk, kv, queues, probe, rows, latents, saved, status>>

\* Mutant of FirstVisible: the rest of the frames is left to the next chunk.
FirstVisibleOnly ==
    /\ Host("visible", "row")
    /\ IF Deferred THEN CleanPass ELSE UNCHANGED <<kv, probe>>
    /\ UNCHANGED <<chunk, decoding, queues, rows, latents, saved, status>>

\* The visible frame is on the host; then post_visible_hook, which is
\* commit_clean_kv when the clean pass was deferred.
FirstVisible ==
    /\ Host("visible", IF opts.taehv THEN "drain" ELSE "row")
    /\ IF Deferred THEN CleanPass ELSE UNCHANGED <<kv, probe>>
    /\ UNCHANGED <<chunk, decoding, queues, rows, latents, saved, status>>

\* drain_latent, until the decoder has no frame left.
DrainLatent ==
    /\ Host("drain", "row")
    /\ inside' = NoChunk
    /\ frames' = [frames EXCEPT ![chunk] = IF @ = "first" THEN "all" ELSE @]
    /\ UNCHANGED <<chunk, kv, fed, queues, probe, rows, latents, saved, status>>

\* finish_action and finish_taehv_action.
FinishAction ==
    /\ NextChunk("row")
    /\ rows' = Append(rows, Row(chunk))
    /\ UNCHANGED <<kv, decoding, queues, probe, latents, saved, status>>

-----------------------------------------------------------------------------
(* The overlapped schedule *)

\* decode_latent on the VAE stream, up to the projection of the latent.
Enqueue ==
    /\ Host("enqueue", "statistics")
    /\ vaeq' = Append(vaeq, [op |-> "project", chunk |-> chunk])
    /\ UNCHANGED <<chunk, kv, decoding, pending, probe, rows, latents, saved,
                   status>>

\* bool(torch.isfinite(...)) of last_stats reads a value of the VAE stream and
\* so waits for everything enqueued before; then the decoder is enqueued and
\* the host goes on.
Statistics ==
    /\ NextChunk("statistics")
    /\ vaeq = <<>>
    /\ vaeq' = <<[op |-> "decode", chunk |-> chunk]>>
    /\ pending' = Append(pending, chunk)
    /\ UNCHANGED <<kv, decoding, probe, rows, latents, saved, status>>

\* The GPU executes the work of the VAE stream in order.
VaeStep ==
    /\ pc # "done"
    /\ vaeq # <<>>
    /\ vaeq' = Tail(vaeq)
    /\ LET work == Head(vaeq)
       IN  IF work.op = "decode"
           THEN /\ fed' = Append(fed, work.chunk)
                /\ frames' = [frames EXCEPT ![work.chunk] = "all"]
           ELSE UNCHANGED <<fed, frames>>
    /\ UNCHANGED <<opts, pc, chunk, kv, inside, pending, probe, results>>

\* Mutant of Synchronize: the host does not wait for the VAE stream.
SynchronizeLater ==
    /\ Host("synchronize", "finish")
    /\ UNCHANGED <<chunk, kv, decoding, queues, probe, rows, latents, saved,
                   status>>

\* vae_stream.synchronize.
Synchronize ==
    /\ Host("synchronize", "finish")
    /\ vaeq = <<>>
    /\ UNCHANGED <<chunk, kv, decoding, queues, probe, rows, latents, saved,
                   status>>

\* finish_action for the oldest pending chunk.
FinishPending ==
    /\ pending # <<>>
    /\ Host("finish", "finish")
    /\ rows' = Append(rows, Row(Head(pending)))
    /\ pending' = Tail(pending)
    /\ UNCHANGED <<chunk, kv, decoding, vaeq, probe, latents, saved, status>>

\* Mutant of AllFinished: the loop over the pending chunks is left too early.
AllFinishedEarly ==
    /\ Host("finish", "close")
    /\ UNCHANGED <<chunk, kv, decoding, queues, probe, rows, latents, saved,
                   status>>

AllFinished ==
    /\ pending = <<>>
    /\ Host("finish", "close")
    /\ UNCHANGED <<chunk, kv, decoding, queues, probe, rows, latents, saved,
                   status>>

-----------------------------------------------------------------------------
(* The end of the session *)

\* attention_probe.report takes the probe back.
ProbeReport(p) == IF p.at = "on" THEN [p EXCEPT !.at = "off"] ELSE p

\* The reports, torch.cat of the outputs and, with --save-latents, of the
\* latents, which are then written: torch.cat of an empty list raises.
CloseSession ==
    /\ pc = "close"
    /\ probe' = ProbeReport(probe)
    /\ IF rows = <<>> \/ (opts.save /\ latents = <<>>)
       THEN Raise /\ UNCHANGED fault
       ELSE /\ Host("close", "write")
            /\ saved' = opts.save
            /\ UNCHANGED <<chunk, kv, decoding, queues, rows, latents, status>>

\* decoder.clear, the statistics of the output, the video, and metrics.json
\* with status success.
WriteMetrics ==
    /\ Host("write", "done")
    /\ fed' = <<>>
    /\ inside' = NoChunk
    /\ status' = "success"
    /\ UNCHANGED <<chunk, kv, frames, queues, probe, rows, latents, saved>>

\* Any call into the model, a decoder, the device or the file system raises;
\* behind CloseSession it leaves a complete accepted_latents.pt beside the
\* failure.
Fails ==
    /\ pc \notin {"loop", "done"}
    /\ fault' = TRUE
    /\ Raise
    /\ UNCHANGED probe

\* Ctrl-C is no Exception: main does not catch it and writes no metrics.json;
\* the status stays what it was.
CtrlC ==
    /\ pc # "done"
    /\ pc' = "done"
    /\ fault' = TRUE
    /\ UNCHANGED <<opts, chunk, kv, decoding, queues, rows, latents, probe,
                   saved, status>>

Ended == pc = "done" /\ UNCHANGED vars

-----------------------------------------------------------------------------
HostStep ==
    \/ Start
    \/ Denoise
    \/ LoopEnds
    \/ CommitAtOnce
    \/ Generated
    \/ Decode
    \/ BeginLatent
    \/ FirstVisible
    \/ DrainLatent
    \/ FinishAction
    \/ Enqueue
    \/ Statistics
    \/ Synchronize
    \/ FinishPending
    \/ AllFinished
    \/ CloseSession
    \/ WriteMetrics

Next ==
    \/ HostStep
    \/ VaeStep
    \/ Fails
    \/ CtrlC
    \/ Ended

Spec == Init /\ [][Next]_vars

-----------------------------------------------------------------------------
(* Properties *)

\* Every variable has its type.
TypeOK ==
    /\ opts \in Options
    /\ pc \in {"start", "loop", "commit", "generated", "decode", "begin",
               "visible", "drain", "row", "enqueue", "statistics",
               "synchronize", "finish", "close", "write", "done"}
    /\ chunk \in 0..ChunkCount
    /\ kv \in [Chunks -> {"empty", "noisy", "clean"}]
    /\ fed \in Seq(Chunks)
    /\ inside \in Chunks \cup {NoChunk}
    /\ frames \in [Chunks -> {"none", "first", "all", "mixed"}]
    /\ vaeq \in Seq([op : {"project", "decode"}, chunk : Chunks])
    /\ pending \in Seq(Chunks)
    /\ rows \in Seq([chunk : Chunks, frames : {"none", "first", "all", "mixed"},
                     kv : {"empty", "noisy", "clean"}])
    /\ latents \in Seq(Chunks)
    /\ probe \in [at : {"none", "on", "off"},
                  calls : SUBSET (Chunks \X {"denoise", "clean"})]
    /\ saved \in BOOLEAN
    /\ status \in {"running", "success", "failure"}
    /\ fault \in BOOLEAN

\* In every schedule no chunk is denoised on top of a chunk whose exact keys
\* are missing.
CleanBeforeNext ==
    \A c, d \in Chunks : kv[c] # "empty" /\ d < c => kv[d] = "clean"

\* The causal decoder sees the latents of the session once each and in order,
\* and a chunk is decoded with the history of exactly the chunks before it,
\* none of whose frames is still inside.
DecoderFollowsSession ==
    /\ \A i \in 1..Len(fed) : fed[i] = i - 1
    /\ \A c \in Chunks : frames[c] # "mixed"

\* The rows are those of the first chunks in order, and a row is never made
\* from frames the VAE stream has not finished, of a chunk whose state is not
\* committed, or of one that was denoised on keys that were not.
RowsAreWhole ==
    /\ CleanBeforeNext
    /\ \A i \in 1..Len(rows) :
           rows[i] = [chunk |-> i - 1, frames |-> "all", kv |-> "clean"]

\* The chunks the probe is asked for: run_interactive.py:599 says "starting at
\* this chunk for three chunks".
Probed == {c \in Chunks : c >= opts.probeFrom /\ c < Planned
                          /\ c <= opts.probeFrom + 2}

\* "success" means the whole planned session was generated, decoded and
\* recorded, saved if that was asked for, and probed in every forward of the
\* chunks asked for, unless the clean pass is deferred behind the probe.
SuccessIsWhole ==
    status = "success" =>
        /\ Len(rows) = Planned
        /\ pending = <<>>
        /\ opts.save => saved /\ Len(latents) = Planned
        /\ opts.probeFrom \in 0..(Planned - 1) /\ ~Deferred =>
               probe.calls = Probed \X {"denoise", "clean"}

\* run_interactive.py:538 says of --save-latents "save the accepted x0 latent
\* stream for decoder-only comparisons": a session whose chunks were all
\* generated and decoded without a fault has saved it.
LatentsAreSaved ==
    pc = "done" /\ ~fault /\ opts.save /\ rows # <<>> => saved
=============================================================================
