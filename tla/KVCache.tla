------------------------------- MODULE KVCache -------------------------------
(***************************************************************************)
(* The transactional self-attention KV cache of a session: the cache and    *)
(* cursor code of patches/0004 and patches/0005 (one cache per transformer  *)
(* block), driven by prepare_session, generate_chunk and commit_clean_kv of *)
(* scripts/run_interactive.py.                                              *)
(*                                                                          *)
(* One chunk is one latent frame of frame_seqlen tokens, every slice bound  *)
(* in the code is a multiple of frame_seqlen, and frames are the unit here. *)
(* Keys and values move together and are one entry: the frame they belong   *)
(* to and the forward that wrote them.                                      *)
(***************************************************************************)
EXTENDS Integers, FiniteSets

CONSTANTS Size,        \* --local-attn-size, the cache capacity in frames
          Sink,        \* --sink-size, frames that are never evicted
          Timesteps,   \* len(state["timesteps"]): 3 or 4 denoising forwards
          Blocks,      \* transformer blocks, each with a cache of its own
          ChunkCount,  \* len(state["noise_chunks"])
          HostCursor   \* --host-kv-cursor

\* The launchers use 12 or 18 frames with 6 sinks.  The parser does not check
\* that the sinks leave room; with Sink >= Size the roll has no frame to move
\* and the sinks would be overwritten.
ASSUME ConstantsAssumption ==
    /\ Size \in Nat
    /\ Sink \in Nat
    /\ Sink < Size
    /\ Timesteps \in Nat \ {0}
    /\ Blocks \in Nat \ {0}
    /\ ChunkCount \in Nat
    /\ HostCursor \in BOOLEAN

VARIABLES
    cache,      \* block -> its keys, cursors and cross-attention flag
    crossInit,  \* pipe._cross_attn_initialized
    chunk,      \* the chunk being generated, or the next one
    phase,      \* position in generate_chunk / commit_clean_kv
    step,       \* index of the denoising forward
    block,      \* the block whose self-attention runs next
    before,     \* cache_positions at the start of the chunk
    attended    \* entries read by the latest self-attention

vars == <<cache, crossInit, chunk, phase, step, block, before, attended>>

Positions == 0..(Size - 1)
BlockIds == 1..Blocks

\* The forward at timestep zero that rewrites a chunk's keys.
CleanPass == Timesteps

Unwritten == [frame |-> -1, pass |-> -1]
Entry == [frame : -1..ChunkCount, pass : -1..Timesteps]

\* The cursors a forward reads: the host integers, or the tensors.
Global(c) == IF HostCursor THEN c.globalPy ELSE c.global
Local(c) == IF HostCursor THEN c.localPy ELSE c.local

\* cache_positions reads the tensors of the first block.
CachePositions == [global |-> cache[1].global, local |-> cache[1].local]

-----------------------------------------------------------------------------
(* One self-attention forward of one block, for the frame that ends at      *)
(* current_end.                                                             *)

\* Mutant of Overflows: every forward of a full cache rolls.
OverflowsAgain(c, end) == 1 + Local(c) > Size
Overflows(c, end) == end > Global(c) /\ 1 + Local(c) > Size

Evicted(c, end) == IF Overflows(c, end) THEN 1 + Local(c) - Size ELSE 0

\* The frames between the sinks and the end move down over the evicted ones.
Rolled(c, end) ==
    IF ~Overflows(c, end) THEN c.k
    ELSE LET evicted == Evicted(c, end)
             moved == Local(c) - evicted - Sink
         IN  [i \in Positions |->
                 IF i \in Sink..(Sink + moved - 1) THEN c.k[i + evicted]
                 ELSE c.k[i]]

LocalEnd(c, end) == Local(c) + end - Global(c) - Evicted(c, end)

\* The store of this frame's keys.
Stored(c, end, entry) ==
    [c EXCEPT !.k = [Rolled(c, end) EXCEPT ![LocalEnd(c, end) - 1] = entry]]

\* Mutant of Advanced: the host lane forgets its tensor mirrors.
AdvancedHostOnly(c, end, stored) ==
    IF HostCursor
    THEN [stored EXCEPT !.globalPy = end, !.localPy = LocalEnd(c, end)]
    ELSE [stored EXCEPT !.global = end, !.local = LocalEnd(c, end)]

\* The cursor updates after attention; the host integers only exist in the
\* opt-in lane.
Advanced(c, end, stored) ==
    [stored EXCEPT !.global = end,
                   !.local = LocalEnd(c, end),
                   !.globalPy = IF HostCursor THEN end ELSE @,
                   !.localPy = IF HostCursor THEN LocalEnd(c, end) ELSE @]

\* k[max(0, local_end - max_attention_size) : local_end]; max_attention_size
\* is the capacity.
Read(k, localEnd) ==
    {k[i] : i \in {j \in Positions : localEnd - Size <= j /\ j < localEnd}}

-----------------------------------------------------------------------------
\* prepare_session: empty caches, both cursors zero, cross caches empty.
Init ==
    /\ cache = [b \in BlockIds |->
                  [k |-> [i \in Positions |-> Unwritten],
                   global |-> 0, local |-> 0, globalPy |-> 0, localPy |-> 0,
                   cross |-> FALSE]]
    /\ crossInit = FALSE
    /\ chunk = 0
    /\ phase = "idle"
    /\ step = 0
    /\ block = 1
    /\ before = [global |-> 0, local |-> 0]
    /\ attended = {}

\* generate_chunk is entered: current_start is chunk_id * frame_seqlen.
BeginChunk ==
    /\ phase = "idle"
    /\ chunk < ChunkCount
    /\ phase' = "denoise"
    /\ step' = 0
    /\ block' = 1
    /\ before' = CachePositions
    /\ UNCHANGED <<cache, crossInit, chunk, attended>>

\* Mutant of CurrentEnd: the clean pass is given the start of the next chunk.
CurrentEndMoves == IF phase = "clean" THEN chunk + 2 ELSE chunk + 1

\* kwargs["current_start"] + frame_seqlen, the same in all forwards of a chunk.
CurrentEnd == chunk + 1

\* A block of a full forward: store, read, advance the cursors, and fill the
\* cross-attention cache when the caller says this is the first call.
FullBlock(b, pass) ==
    LET c == cache[b]
        stored == Stored(c, CurrentEnd, [frame |-> chunk, pass |-> pass])
    IN  /\ cache' = [cache EXCEPT ![b] =
                       [Advanced(c, CurrentEnd, stored) EXCEPT
                           !.cross = @ \/ (pass # CleanPass /\ ~crossInit)]]
        /\ attended' = Read(stored.k, LocalEnd(c, CurrentEnd))

\* Mutant of DenoiseBlock: the flag is set before the first forward is done.
DenoiseBlockFlagFirst ==
    /\ phase = "denoise"
    /\ FullBlock(block, step)
    /\ crossInit' = TRUE
    /\ IF block < Blocks
       THEN block' = block + 1 /\ UNCHANGED <<step, phase>>
       ELSE /\ block' = 1
            /\ IF step < Timesteps - 1
               THEN step' = step + 1 /\ UNCHANGED phase
               ELSE phase' = "generated" /\ UNCHANGED step
    /\ UNCHANGED <<chunk, before>>

DenoiseBlock ==
    /\ phase = "denoise"
    /\ FullBlock(block, step)
    /\ IF block < Blocks
       THEN block' = block + 1 /\ UNCHANGED <<crossInit, step, phase>>
       ELSE /\ block' = 1
            /\ crossInit' = TRUE
            /\ IF step < Timesteps - 1
               THEN step' = step + 1 /\ UNCHANGED phase
               ELSE phase' = "generated" /\ UNCHANGED step
    /\ UNCHANGED <<chunk, before>>

\* commit_clean_kv, at once or after the first RGB frame has been presented.
BeginCommit ==
    /\ phase = "generated"
    /\ phase' = "clean"
    /\ UNCHANGED <<cache, crossInit, chunk, step, block, before, attended>>

\* Mutant of StoreOnly: the last block returns before its store as well.
StoreNothing(b, pass) == UNCHANGED <<cache, attended>>

\* kv_write_only: the last block stores its keys and returns before the read,
\* the cursors and cross-attention.
StoreOnly(b, pass) ==
    /\ cache' = [cache EXCEPT ![b] =
                   Stored(@, CurrentEnd, [frame |-> chunk, pass |-> pass])]
    /\ UNCHANGED attended

CleanBlock ==
    /\ phase = "clean"
    /\ IF block < Blocks
       THEN /\ FullBlock(block, CleanPass)
            /\ block' = block + 1
            /\ UNCHANGED <<chunk, phase>>
       ELSE /\ StoreOnly(block, CleanPass)
            /\ block' = 1
            /\ chunk' = chunk + 1
            /\ phase' = "idle"
    /\ UNCHANGED <<crossInit, step, before>>

\* An exception in a forward, or the viewer's emergency exit between the
\* first RGB frame and the commit: the session is not used again.
Abandon ==
    /\ phase \in {"denoise", "generated", "clean"}
    /\ phase' = "abandoned"
    /\ UNCHANGED <<cache, crossInit, chunk, step, block, before, attended>>

Done ==
    /\ phase = "abandoned" \/ (phase = "idle" /\ chunk = ChunkCount)
    /\ UNCHANGED vars

Next ==
    \/ BeginChunk
    \/ DenoiseBlock
    \/ BeginCommit
    \/ CleanBlock
    \/ Abandon
    \/ Done

Spec == Init /\ [][Next]_vars

-----------------------------------------------------------------------------
(* occupancy_record of scripts/run_live.py, in frames *)

Least(a, b) == IF a < b THEN a ELSE b
AtLeastZero(n) == IF n < 0 THEN 0 ELSE n

\* Mutant of OccupancyRecord: a cache that has just filled up counts as rolled.
OccupancyRecordEarly(from, to) ==
    LET rolled == to.global >= Size
        retained == IF rolled THEN Least(Sink, AtLeastZero(to.local - 1)) ELSE 0
    IN  [regime   |-> IF from.local >= Size THEN "rolled" ELSE "mid",
         rolled   |-> rolled,
         retained |-> retained,
         recent   |-> AtLeastZero(to.local - 1 - retained)]

OccupancyRecord(from, to) ==
    LET rolled == to.global > Size
        retained == IF rolled THEN Least(Sink, AtLeastZero(to.local - 1)) ELSE 0
    IN  [regime   |-> CASE from.local <= 1 -> "early"
                        [] from.local > 1 /\ from.local < Size /\ to.local >= Size
                             -> "full"
                        [] from.local > 1 /\ from.local >= Size -> "rolled"
                        [] OTHER -> "mid",
         rolled   |-> rolled,
         retained |-> retained,
         recent   |-> AtLeastZero(to.local - 1 - retained)]

-----------------------------------------------------------------------------
(* Properties *)

\* Every variable has its type; in particular every store lands inside the
\* cache and the cursors never leave it.
Cache == [k : [Positions -> Entry],
          global : 0..ChunkCount, local : 0..Size,
          globalPy : 0..ChunkCount, localPy : 0..Size,
          cross : BOOLEAN]

TypeOK ==
    /\ cache \in [BlockIds -> Cache]
    /\ crossInit \in BOOLEAN
    /\ chunk \in 0..ChunkCount
    /\ phase \in {"idle", "denoise", "generated", "clean", "abandoned"}
    /\ step \in 0..(Timesteps - 1)
    /\ block \in BlockIds
    /\ before \in [global : 0..ChunkCount, local : 0..Size]
    /\ attended \subseteq Entry

\* The number of frames block b has stored keys for.
Entered(b) ==
    IF phase = "idle" \/ (phase = "denoise" /\ step = 0 /\ b >= block)
    THEN chunk ELSE chunk + 1

\* Which frame sits at position i once n frames have entered: the sinks in
\* front, behind them the most recent frames in order.
FrameAt(i, n) == IF n <= Size \/ i < Sink THEN i ELSE n - Size + i

\* Cache c is the rolling window of the first n frames, each where it belongs.
HoldsWindow(c, n) ==
    /\ Local(c) = Least(n, Size)
    /\ Global(c) = n
    /\ \A i \in Positions : i < Local(c) => c.k[i].frame = FrameAt(i, n)

\* The entries of all frames before frame n are clean.
CleanBelow(c, n) ==
    \A i \in Positions :
        i < Local(c) /\ c.k[i].frame < n => c.k[i].pass = CleanPass

\* The cache of every block is exactly the rolling window of the frames that
\* entered it, all clean but the one being generated.  Eviction happens once
\* per chunk, in the first of the 4 or 5 forwards, and never hits a sink.
WindowInvariant ==
    phase # "abandoned" =>
        \A b \in BlockIds : /\ HoldsWindow(cache[b], Entered(b))
                            /\ CleanBelow(cache[b], chunk)

\* Self-attention never reads an entry of an earlier frame that is not clean,
\* nor one of the current frame that another forward wrote, and it reads the
\* whole window.
AttentionStep ==
    LET pass == IF phase = "clean" THEN CleanPass ELSE step
    IN  phase = "denoise" \/ (phase = "clean" /\ block < Blocks) =>
            \/ phase' = "abandoned"
            \/ /\ \A e \in attended' :
                     e.pass = IF e.frame < chunk THEN CleanPass ELSE pass
               /\ {e.frame : e \in attended'} =
                     {f \in 0..chunk : f < Sink \/ f > chunk - (Size - Sink)}

AttendsCleanHistory == [][AttentionStep]_vars

\* The tensor mirrors follow the host cursors, and all blocks agree whenever
\* no forward is under way, although the last block of the clean pass never
\* reaches its cursor updates.
CursorsAgree ==
    phase \in {"idle", "generated"} =>
        \A b \in BlockIds :
            /\ [global |-> cache[b].global, local |-> cache[b].local]
                   = CachePositions
            /\ HostCursor => /\ cache[b].globalPy = cache[b].global
                             /\ cache[b].localPy = cache[b].local

\* patches/0005 leaves out the cursor updates of the last block because they
\* would be redundant: the clean pass moves no cursor of any block.
CleanPassStep ==
    phase = "clean" =>
        \A b \in BlockIds : /\ Global(cache'[b]) = Global(cache[b])
                            /\ Local(cache'[b]) = Local(cache[b])

CleanPassMovesNoCursor == [][CleanPassStep]_vars

\* The cross-attention cache is read only after it was filled: a forward that
\* is not the first call finds it initialized in every block.
CrossCacheFilled ==
    crossInit \/ phase = "clean" => \A b \in BlockIds : cache[b].cross

\* The accounting of a chunk agrees with the cache: "rolled" is reported
\* exactly when frames have been evicted, and the sink and recent counts are
\* the numbers of such frames really in the cache.  (With a capacity below
\* three frames the early regime hides the others.)
OccupancyMatchesCache ==
    phase = "idle" /\ chunk > 0 /\ Size > 2 =>
        LET r == OccupancyRecord(before, CachePositions)
            frames == {cache[1].k[i].frame : i \in
                          {j \in Positions : j < cache[1].local}}
            sinks == {f \in frames : f < Sink}
        IN  /\ r.rolled = (Cardinality(frames) < chunk)
            /\ r.rolled = (r.regime = "rolled")
            /\ r.rolled => /\ r.retained = Cardinality(sinks)
                           /\ r.recent = Cardinality(frames \ sinks) - 1
            /\ r.retained + r.recent + 1 = Cardinality(frames)

\* The cache of a block implements the rolling window: of the blocks that run
\* the clean pass in full, and of the last one, which stores only.
Held(b) == {i \in Positions : i < Local(cache[b])}
Frames(b) == {cache[b].k[i].frame : i \in Held(b)}
DirtyFrames(b) == {cache[b].k[i].frame : i \in
                     {j \in Held(b) : cache[b].k[j].pass # CleanPass}}

FirstWindow == INSTANCE RollingWindow WITH
    next <- Global(cache[1]), window <- Frames(1), dirty <- DirtyFrames(1)

LastWindow == INSTANCE RollingWindow WITH
    next <- Global(cache[Blocks]), window <- Frames(Blocks),
    dirty <- DirtyFrames(Blocks)

BlocksRoll == FirstWindow!Spec /\ LastWindow!Spec
=============================================================================
