----------------------------- MODULE BranchProbe -----------------------------
(***************************************************************************)
(* scripts/action_response_probe.py: one session generates a prefix, its   *)
(* state is cloned, and pairs of branches, which differ in their action    *)
(* only, are generated from clones of that clone and compared frame by     *)
(* frame.  The caches are KVCache's; the model, and with it the flag       *)
(* pipe._cross_attn_initialized, is shared by the prefix and all branches. *)
(*                                                                         *)
(* A latent is what it was computed from: the action, what the attentions  *)
(* have read and the position of the noise generator.  RGB frames are      *)
(* counted: a decoder that was fed the same latents makes the same frames. *)
(*                                                                         *)
(* Abstracted: the images, the comparison of pixels, all times but those   *)
(* of the input probe, which are readings of one clock.                    *)
(***************************************************************************)
EXTENDS Integers, Sequences, SessionGeometry

CONSTANTS
    Size, Sink, Timesteps, Blocks,  \* of the caches, see KVCache
    PrefixActions,   \* len(prefix_actions)
    Poses            \* poses in --action-path

VARIABLES
    cacheS, chunkS, phaseS, stepS, blockS, beforeS, attendedS,  \* of `state`
    pipeInit,   \* pipe._cross_attn_initialized
    drawn,      \* state["seed_g"]: the draws it has made
    reads,      \* what the attentions of the chunk have read
    common,     \* common_state and common_pipe_flag
    prefix,     \* prefix_latents
    decoder,    \* the current decoder: latents fed, frames still inside
    rgb,        \* frames decoded in decode_stream
    worker,     \* the thread of the input probe
    clock,      \* ticks since clean_start
    probe,      \* input_probe_result
    pc,         \* position in main, measure_branch and decode_stream
    measured,   \* the branches measured so far
    results     \* action_response_metrics.json

session == <<cacheS, chunkS, phaseS, stepS, blockS, beforeS, attendedS>>
model == <<pipeInit, drawn, reads>>
input == <<worker, clock, probe>>
presented == <<decoder, rgb>>
kept == <<common, prefix, measured, results>>
vars == <<session, model, input, presented, kept, pc>>

\* runtime_args: three chunks more than the prefix needs.
KV == INSTANCE KVCache WITH
    HostCursor <- FALSE, crossInit <- pipeInit,
    cache <- cacheS, chunk <- chunkS, phase <- phaseS, step <- stepS,
    block <- blockS, before <- beforeS, attended <- attendedS,
    ChunkCount <- LatentFrames(4 * (PrefixActions + 3) + 1, Poses)

\* BRANCH_PAIRS, pair by pair.
Branches == <<"stay", "strong turn", "forward", "reverse">>

None == [none |-> TRUE]
Idle == [state |-> "none", arrival |-> 0]
NoProbe == [observed |-> FALSE, during |-> FALSE, truth |-> FALSE]

\* The branch that runs, and whether the prefix does.
Current == Len(measured) + 1
InPrefix == common = None

Init ==
    /\ KV!Init
    /\ drawn = 0
    /\ reads = <<>>
    /\ common = None
    /\ prefix = <<>>
    /\ decoder = [fed |-> <<>>, inside |-> 0]
    /\ rgb = 0
    /\ worker = Idle
    /\ clock = 0
    /\ probe = NoProbe
    /\ pc = "generate"
    /\ measured = <<>>
    /\ results = None

Goes(from, to) == pc = from /\ pc' = to

-----------------------------------------------------------------------------
(* generate_chunk and commit_clean_kv, of the prefix and of the branches *)

\* A forward reads its window, and whether the cross-attention is filled.
\* Every denoising forward but the last draws noise.
GenerateChunk ==
    /\ KV!BeginChunk \/ KV!DenoiseBlock
    /\ Goes("generate", IF phaseS' # "generated" THEN "generate"
                        ELSE IF InPrefix THEN "collect" ELSE "rgb0")
    /\ reads' = IF phaseS = "idle" THEN <<>>
                ELSE Append(reads, <<attendedS', cacheS'[blockS].cross>>)
    /\ drawn' = IF stepS' > stepS THEN drawn + 1 ELSE drawn
    /\ UNCHANGED <<input, presented, kept>>

\* Mutant of CommitCleanKV: clone_state hands out the caches themselves.
CommitCleanKVOfCommon ==
    /\ KV!BeginCommit \/ KV!CleanBlock
    /\ Goes("commit", IF phaseS' # "idle" THEN "commit"
                      ELSE IF ~InPrefix THEN "clean_end"
                      ELSE IF Len(prefix) <= PrefixActions THEN "generate"
                      ELSE "clone")
    /\ clock' = clock + 1
    /\ common' = IF InPrefix THEN common ELSE [common EXCEPT !.cache = cacheS']
    /\ UNCHANGED <<drawn, reads, worker, probe, presented, prefix, measured,
                   results>>

CommitCleanKV ==
    /\ KV!BeginCommit \/ KV!CleanBlock
    /\ Goes("commit", IF phaseS' # "idle" THEN "commit"
                      ELSE IF ~InPrefix THEN "clean_end"
                      ELSE IF Len(prefix) <= PrefixActions THEN "generate"
                      ELSE "clone")
    /\ clock' = clock + 1
    /\ UNCHANGED <<drawn, reads, worker, probe, presented, kept>>

\* x0, up to the action.
X0 == [chunk |-> chunkS, reads |-> reads, drawn |-> drawn]

\* The first latent of a decoder gives one frame, every later one four.
Begun(latent) ==
    [fed    |-> Append(decoder.fed, latent),
     inside |-> decoder.inside + IF decoder.fed = <<>> THEN 0 ELSE 3]

\* prefix_latents.append, begin_latent and drain_latent.
Collect ==
    /\ Goes("collect", "commit")
    /\ prefix' = Append(prefix, X0)
    /\ decoder' = [Begun(X0) EXCEPT !.inside = 0]
    /\ clock' = 0
    /\ UNCHANGED <<session, model, worker, probe, rgb, common, measured,
                   results>>

-----------------------------------------------------------------------------
(* The branches *)

\* prefix_decoder.clear, common_state and common_pipe_flag.
CloneCommon ==
    /\ Goes("clone", "branch")
    /\ common' = [cache |-> cacheS, drawn |-> drawn, flag |-> pipeInit]
    /\ decoder' = [fed |-> <<>>, inside |-> 0]
    /\ UNCHANGED <<session, model, input, rgb, prefix, measured, results>>

\* Mutant of BeginBranch: seed_g is not cloned but shared by the branches.
BeginBranchSharedNoise ==
    /\ Current <= Len(Branches)
    /\ Goes("branch", "history")
    /\ cacheS' = common.cache
    /\ chunkS' = Len(prefix)
    /\ pipeInit' = common.flag
    /\ decoder' = [fed |-> <<>>, inside |-> 0]
    /\ rgb' = 0
    /\ probe' = NoProbe
    /\ UNCHANGED <<phaseS, stepS, blockS, beforeS, attendedS, drawn, reads, worker,
                   clock, kept>>

\* clone_state and a new decoder; the flag was put back behind the branch
\* before.  The chunk of the branch is the one behind the prefix.
BeginBranch ==
    /\ Current <= Len(Branches)
    /\ Goes("branch", "history")
    /\ cacheS' = common.cache
    /\ drawn' = common.drawn
    /\ chunkS' = Len(prefix)
    /\ pipeInit' = common.flag
    /\ decoder' = [fed |-> <<>>, inside |-> 0]
    /\ rgb' = 0
    /\ probe' = NoProbe
    /\ UNCHANGED <<phaseS, stepS, blockS, beforeS, attendedS, reads, worker, clock,
                   kept>>

\* Mutant of FeedPrefix: the bootstrap latent is left out.
FeedPrefixActions ==
    LET n == Len(decoder.fed) + 2
    IN  IF n <= Len(prefix)
        THEN /\ Goes("history", "history")
             /\ decoder' = [Begun(prefix[n]) EXCEPT !.inside = 0]
             /\ UNCHANGED <<session, model, input, rgb, kept>>
        ELSE Goes("history", "generate")
             /\ UNCHANGED <<session, model, input, presented, kept>>

\* for latent in prefix_latents: begin_latent and drain_latent.
FeedPrefix ==
    LET n == Len(decoder.fed) + 1
    IN  IF n <= Len(prefix)
        THEN /\ Goes("history", "history")
             /\ decoder' = [Begun(prefix[n]) EXCEPT !.inside = 0]
             /\ UNCHANGED <<session, model, input, rgb, kept>>
        ELSE Goes("history", "generate")
             /\ UNCHANGED <<session, model, input, presented, kept>>

\* decode_one(0); then clean_start, and the thread of the input probe in the
\* first branch of the first pair.
FirstFrame ==
    /\ Goes("rgb0", "commit")
    /\ decoder' = Begun(X0)
    /\ rgb' = 1
    /\ clock' = 0
    /\ worker' = IF Current = 1 THEN [state |-> "asleep", arrival |-> 0]
                 ELSE worker
    /\ UNCHANGED <<session, model, probe, kept>>

\* receive_input: the thread wakes up, whatever the host is doing.
Arrive ==
    /\ worker.state = "asleep"
    /\ pc # "done"
    /\ worker' = [state   |-> IF pc \in {"commit", "clean_end"} THEN "during"
                              ELSE "later",
                  arrival |-> clock]
    /\ UNCHANGED <<session, model, clock, probe, presented, kept, pc>>

\* clean_end is read.
CleanEnd ==
    /\ Goes("clean_end", IF Current = 1 THEN "join" ELSE "rest")
    /\ clock' = clock + 1
    /\ UNCHANGED <<session, model, worker, probe, presented, kept>>

CleanEndAt == clock - 1

\* Mutant of DuringClean: that the key came is taken for that it came in time.
DuringCleanObserved(arrived) == arrived

\* arrived is not None and clean_start <= arrived <= clean_end.
DuringClean(arrived) == arrived /\ worker.arrival \in 0..CleanEndAt

\* worker.join(timeout=1.0): the key has come, or a second has passed.
JoinWorker ==
    /\ Goes("join", "rest")
    /\ LET arrived == worker.state # "asleep"
       IN  probe' = [observed |-> arrived, during |-> DuringClean(arrived),
                     truth |-> worker.state = "during"]
    /\ UNCHANGED <<session, model, worker, clock, presented, kept>>

\* while decoder_work_queue: decode_one.
RemainingFrame ==
    /\ decoder.inside > 0
    /\ Goes("rest", "rest")
    /\ decoder' = [decoder EXCEPT !.inside = @ - 1]
    /\ rgb' = rgb + 1
    /\ UNCHANGED <<session, model, input, kept>>

\* The record of the branch; its finally clears the decoder.
FinishBranch ==
    /\ decoder.inside = 0
    /\ Goes("rest", "branch")
    /\ measured' = Append(measured,
           [action |-> Branches[Current], x0 |-> [X0 EXCEPT !.chunk = chunkS - 1],
            history |-> decoder.fed, frames |-> rgb, before |-> beforeS])
    /\ decoder' = [fed |-> <<>>, inside |-> 0]
    /\ UNCHANGED <<session, model, input, rgb, common, prefix, results>>

\* The comparisons were made pair by pair; cache_positions(common_state).
WriteResults ==
    /\ Current > Len(Branches)
    /\ Goes("branch", "done")
    /\ results' = [global |-> common.cache[1].global,
                   local  |-> common.cache[1].local]
    /\ UNCHANGED <<session, model, input, presented, common, prefix, measured>>

\* A forward, a decode or an index raises; the finally clauses clear the
\* decoder and nothing is written.
Raise ==
    /\ pc # "done"
    /\ pc' = "done"
    /\ decoder' = [fed |-> <<>>, inside |-> 0]
    /\ UNCHANGED <<session, model, input, rgb, kept>>

Finished == pc = "done" /\ UNCHANGED vars

Next ==
    \/ GenerateChunk
    \/ CommitCleanKV
    \/ Collect
    \/ CloneCommon
    \/ BeginBranch
    \/ FeedPrefix
    \/ FirstFrame
    \/ Arrive
    \/ CleanEnd
    \/ JoinWorker
    \/ RemainingFrame
    \/ FinishBranch
    \/ WriteResults
    \/ Raise
    \/ Finished

Spec == Init /\ [][Next]_vars

-----------------------------------------------------------------------------
(* Properties *)

\* The branches are matched, as the harness says of itself: whatever ran
\* before a branch, its chunk reads the same keys, draws the same noise and
\* starts from the same cursors as that of every other branch, its frames come
\* from a decoder with the history of the prefix and this chunk, as many as
\* those they are compared with, and the state all of them were cloned from is
\* still the one that is reported at the end.
BranchesMatch ==
    \A i \in 1..Len(measured) :
        LET m == measured[i]
        IN  /\ m.x0 = measured[1].x0
            /\ m.x0.drawn = (Len(prefix) + 1) * (Timesteps - 1)
            /\ m.history = Append(prefix, m.x0)
            /\ m.frames = 4
            /\ m.before = measured[1].before
            /\ results # None => results = m.before

\* What the input probe says of the key is true, also when the key comes
\* late or after the probe has given up waiting for it.
ProbeIsHonest ==
    probe.during = probe.truth /\ (probe.during => probe.observed)
=============================================================================
