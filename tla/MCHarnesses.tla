----------------------------- MODULE MCHarnesses -----------------------------
(***************************************************************************)
(* The programs of the repository that run by themselves, one of them at a *)
(* time: the two harnesses that clone sessions of KVCache, the launchers   *)
(* with replaced helpers, and the 14B run.  The variables of a program     *)
(* that does not run keep an initial value.                                *)
(***************************************************************************)
EXTENDS Integers, Sequences

CONSTANTS
    Size, Sink, Timesteps, CacheBlocks,  \* of the caches in both harnesses
    ChunkCount,              \* of the equivalence harness
    PrefixActions, Poses,    \* of the branch probe
    BlockCount, MaxRequested,  \* of the launchers
    MaxRepeat                \* of the 14B run

\* The bounds of the caches in both harnesses, as in KVCache.
ASSUME CacheAssumption ==
    /\ Size \in Nat
    /\ Sink \in Nat
    /\ Sink < Size
    /\ Timesteps \in Nat \ {0}
    /\ CacheBlocks \in Nat \ {0}

VARIABLES
    program,
    cacheC, chunkC, phaseC, stepC, blockC, beforeC, attendedC,
    cacheH, chunkH, phaseH, stepH, blockH, beforeH, attendedH,
    pipeInitE, crossInit, readsE, pcE, rows,
    cacheS, chunkS, phaseS, stepS, blockS, beforeS, attendedS,
    pipeInit, drawn, reads, common, prefix, decoder, rgb, worker, clock, probe, pcP, measured, results,
    lane, prewarm, requested, tokens, pcL, ctor, blocks, installation, graphs,
    cold, forward,
    opts, pcB, holders, events, file, runs, report

Equivalence == INSTANCE CursorEquivalence WITH
    Blocks <- CacheBlocks, pipeInit <- pipeInitE, reads <- readsE, pc <- pcE
Probe == INSTANCE BranchProbe WITH Blocks <- CacheBlocks, pc <- pcP
Launcher == INSTANCE CompiledHelpers WITH pc <- pcL
Boundary == INSTANCE BoundaryRuntime WITH pc <- pcB

equivalence == <<cacheC, chunkC, phaseC, stepC, blockC, beforeC, attendedC,
                 cacheH, chunkH, phaseH, stepH, blockH, beforeH, attendedH,
                 pipeInitE, crossInit, readsE, pcE, rows>>
branches == <<cacheS, chunkS, phaseS, stepS, blockS, beforeS, attendedS,
              pipeInit, drawn, reads, common, prefix, decoder, rgb, worker,
              clock, probe, pcP, measured, results>>
launcher == <<lane, prewarm, requested, tokens, pcL, ctor, blocks,
              installation, graphs, cold, forward>>
boundary == <<opts, pcB, holders, events, file, runs, report>>
vars == <<program, equivalence, branches, launcher, boundary>>

Init ==
    /\ program \in {"equivalence", "probe", "launcher", "boundary"}
    /\ Equivalence!Init
    /\ Probe!Init
    /\ Launcher!Init
    /\ program # "launcher" =>
           lane = "pure" /\ ~prewarm /\ requested = 1 /\ tokens = "1008"
    /\ Boundary!Init
    /\ program # "boundary" =>
           opts = [phases |-> FALSE, cleanup |-> FALSE, patched |-> FALSE,
                   repeat |-> 0]

Next ==
    \/ /\ program = "equivalence"
       /\ Equivalence!Next
       /\ UNCHANGED <<program, branches, launcher, boundary>>
    \/ /\ program = "probe"
       /\ Probe!Next
       /\ UNCHANGED <<program, equivalence, launcher, boundary>>
    \/ /\ program = "launcher"
       /\ Launcher!Next
       /\ UNCHANGED <<program, equivalence, branches, boundary>>
    \/ /\ program = "boundary"
       /\ Boundary!Next
       /\ UNCHANGED <<program, equivalence, branches, launcher>>

Spec == Init /\ [][Next]_vars

-----------------------------------------------------------------------------
(* Properties *)

\* kv_cursor_equivalence.py: the host cursors change nothing.
LanesAgree == Equivalence!LanesAgree

\* action_response_probe.py: branches differ in their action only.
BranchesMatch == Probe!BranchesMatch

\* action_response_probe.py: the input probe tells the truth about the key.
ProbeIsHonest == Probe!ProbeIsHonest

\* pure_compile_helpers.py: after a prewarm no forward waits for a graph.
NoColdGraph == Launcher!NoColdGraph

\* run_pure_compile_live.py and run_compile_live.py: what was replaced of a
\* model that exists is taken back wherever the launcher ends.
OriginalsRestored == Launcher!OriginalsRestored

\* run_q4_baseline.py: metrics.json is there only with all runs in it and
\* tells the same phases as phase-events.json.
ReportIsWhole == Boundary!ReportIsWhole
=============================================================================
