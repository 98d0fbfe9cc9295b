-------------------------- MODULE CursorEquivalence --------------------------
(***************************************************************************)
(* scripts/kv_cursor_equivalence.py: two sessions of KVCache on one model, *)
(* the control with the tensor cursors and the candidate with the host     *)
(* cursors, compared after the denoising and after the clean pass of every *)
(* chunk.  The sessions have caches of their own; what they share is the   *)
(* flag pipe._cross_attn_initialized, which the harness sets before each   *)
(* call to what the called session has last seen.                          *)
(*                                                                         *)
(* The clones of the noise, the condition and the generator are equal, so  *)
(* x0 is a function of what the attentions of the forwards have read.      *)
(***************************************************************************)
EXTENDS Integers, Sequences

CONSTANTS Size, Sink, Timesteps, Blocks, ChunkCount

VARIABLES
    cacheC, chunkC, phaseC, stepC, blockC, beforeC, attendedC,  \* control
    cacheH, chunkH, phaseH, stepH, blockH, beforeH, attendedH,  \* candidate
    pipeInit,     \* pipe._cross_attn_initialized
    crossInit,    \* control_cross_init and candidate_cross_init
    reads,        \* lane -> what the attentions of this chunk have read
    pc,           \* position in the loop over the chunks
    rows          \* the comparisons made so far

laneC == <<cacheC, chunkC, phaseC, stepC, blockC, beforeC, attendedC>>
laneH == <<cacheH, chunkH, phaseH, stepH, blockH, beforeH, attendedH>>
vars == <<laneC, laneH, pipeInit, crossInit, reads, pc, rows>>

Lanes == {"control", "candidate"}

Control == INSTANCE KVCache WITH
    HostCursor <- FALSE, crossInit <- pipeInit,
    cache <- cacheC, chunk <- chunkC, phase <- phaseC, step <- stepC,
    block <- blockC, before <- beforeC, attended <- attendedC

Candidate == INSTANCE KVCache WITH
    HostCursor <- TRUE, crossInit <- pipeInit,
    cache <- cacheH, chunk <- chunkH, phase <- phaseH, step <- stepH,
    block <- blockH, before <- beforeH, attended <- attendedH

-----------------------------------------------------------------------------
\* prepare_session once, then clone_state for each lane.
Init ==
    /\ Control!Init
    /\ Candidate!Init
    /\ crossInit = [l \in Lanes |-> FALSE]
    /\ reads = [l \in Lanes |-> <<>>]
    /\ pc = "use control"
    /\ rows = <<>>

\* Mutant of UseFlag: the flag is left as the other lane's forward set it.
UseFlagOfOther(lane, from, to) ==
    /\ pc = from
    /\ pc' = to
    /\ UNCHANGED <<laneC, laneH, pipeInit, crossInit, reads, rows>>

\* pipe._cross_attn_initialized = control_cross_init, or the candidate's.
UseFlag(lane, from, to) ==
    /\ pc = from
    /\ pipeInit' = crossInit[lane]
    /\ pc' = to
    /\ UNCHANGED <<laneC, laneH, crossInit, reads, rows>>

\* The call returns when the lane reaches the phase; the harness then knows
\* that the lane's cross-attention caches are filled.
Returns(lane, phaseNext, last, from, to) ==
    /\ pc = from
    /\ pc' = IF phaseNext = last THEN to ELSE from
    /\ crossInit' = [crossInit EXCEPT ![lane] = @ \/ phaseNext = last]

\* What a forward of a block has read: self-attention and whether the block's
\* cross-attention cache was filled.
Reads(lane, attendedNext, cacheNext, block) ==
    reads' = [reads EXCEPT ![lane] =
                Append(@, <<attendedNext, cacheNext[block].cross>>)]

GenerateControl ==
    /\ Control!BeginChunk \/ Control!DenoiseBlock
    /\ Returns("control", phaseC', "generated", "generate control", "use candidate")
    /\ Reads("control", attendedC', cacheC', blockC)
    /\ UNCHANGED <<laneH, rows>>

GenerateCandidate ==
    /\ Candidate!BeginChunk \/ Candidate!DenoiseBlock
    /\ Returns("candidate", phaseH', "generated", "generate candidate", "compare x0")
    /\ Reads("candidate", attendedH', cacheH', blockH)
    /\ UNCHANGED <<laneC, rows>>

CommitControl ==
    /\ Control!BeginCommit \/ Control!CleanBlock
    /\ Returns("control", phaseC', "idle", "commit control", "clean candidate")
    /\ UNCHANGED <<laneH, reads, rows>>

CommitCandidate ==
    /\ Candidate!BeginCommit \/ Candidate!CleanBlock
    /\ Returns("candidate", phaseH', "idle", "commit candidate", "compare caches")
    /\ UNCHANGED <<laneC, reads, rows>>

\* compare_caches, over all blocks; x0 is compared after the denoising only.
Comparison(x0) ==
    LET Everywhere(Same(_, _)) ==
            \A b \in 1..Blocks : Same(cacheC[b], cacheH[b])
    IN  [x0      |-> x0,
         tensors |-> Everywhere(LAMBDA c, h : c.global = h.global
                                              /\ c.local = h.local),
         mirrors |-> Everywhere(LAMBDA c, h : h.globalPy = c.global
                                              /\ h.localPy = c.local),
         keys    |-> Everywhere(LAMBDA c, h : c.k = h.k)]

CompareX0 ==
    /\ pc = "compare x0"
    /\ rows' = Append(rows, Comparison(reads["control"] = reads["candidate"]))
    /\ reads' = [l \in Lanes |-> <<>>]
    /\ pc' = "clean control"
    /\ UNCHANGED <<laneC, laneH, pipeInit, crossInit>>

CompareClean ==
    /\ pc = "compare caches"
    /\ rows' = Append(rows, Comparison(TRUE))
    /\ pc' = IF chunkC < ChunkCount THEN "use control" ELSE "done"
    /\ UNCHANGED <<laneC, laneH, pipeInit, crossInit, reads>>

Finished == pc = "done" /\ UNCHANGED vars

Next ==
    \/ UseFlag("control", "use control", "generate control")
    \/ GenerateControl
    \/ UseFlag("candidate", "use candidate", "generate candidate")
    \/ GenerateCandidate
    \/ CompareX0
    \/ UseFlag("control", "clean control", "commit control")
    \/ CommitControl
    \/ UseFlag("candidate", "clean candidate", "commit candidate")
    \/ CommitCandidate
    \/ CompareClean
    \/ Finished

Spec == Init /\ [][Next]_vars

-----------------------------------------------------------------------------
(* Properties *)

\* The host cursors change nothing: in every comparison x0, the keys, the
\* tensor cursors and their mirrors are those of the control, through the
\* fill, the first eviction and the rolled regime, and although the two
\* sessions take turns on one model.
LanesAgree ==
    \A i \in 1..Len(rows) :
        rows[i] = [x0 |-> TRUE, tensors |-> TRUE, mirrors |-> TRUE, keys |-> TRUE]
=============================================================================
