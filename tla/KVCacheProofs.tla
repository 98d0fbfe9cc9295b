---------------------------- MODULE KVCacheProofs ----------------------------
(***************************************************************************)
(* Proofs about KVCache for every window size, number of sinks, schedule,   *)
(* number of blocks, session length and cursor lane.  The inductive         *)
(* invariant says what each block's cache holds in every phase of a chunk.  *)
(***************************************************************************)
EXTENDS KVCache, FiniteSetTheorems, TLAPS

\* The tensors mirror the host cursors in the lane that has both.
Mirrored(c) == HostCursor => c.globalPy = c.global /\ c.localPy = c.local

\* What one forward leaves in a block's cache, with or without the cursor
\* updates, when it stores an entry of frame n.
EntryOf(n, pass) == [frame |-> n, pass |-> pass]
Full(c, n, pass) == Advanced(c, n + 1, Stored(c, n + 1, EntryOf(n, pass)))

\* A cache after a forward for frame n: the window of n + 1 frames, all clean
\* but frame n, whose entry is of this forward.
After(d, n, pass) ==
    /\ d \in Cache
    /\ Mirrored(d)
    /\ HoldsWindow(d, n + 1)
    /\ CleanBelow(d, n)
    /\ \A i \in Positions :
          i < Local(d) /\ d.k[i].frame = n => d.k[i].pass = pass

-----------------------------------------------------------------------------
(* Lemmas about one forward of one block *)

\* The first forward of a chunk: a cache that holds the window of n frames
\* evicts at most one frame, never a sink, and then holds the window of n + 1.
LEMMA FirstForward ==
    ASSUME NEW c \in Cache, Mirrored(c),
           NEW n \in 0..ChunkCount, n < ChunkCount,
           NEW pass \in 0..Timesteps,
           HoldsWindow(c, n), CleanBelow(c, n)
    PROVE  /\ After(Full(c, n, pass), n, pass)
           /\ Full(c, n, pass).k = Stored(c, n + 1, EntryOf(n, pass)).k
           /\ Local(Full(c, n, pass)) = LocalEnd(c, n + 1)
  <1> DEFINE entry == EntryOf(n, pass)
             end == n + 1
             l == Local(c)
             st == Stored(c, end, entry)
             d == Full(c, n, pass)
  <1>0. /\ Size \in Nat /\ Sink \in Nat /\ Sink < Size /\ ChunkCount \in Nat
        /\ Timesteps \in Nat \ {0} /\ HostCursor \in BOOLEAN
    BY ConstantsAssumption
  <1>1. /\ l \in 0..Size /\ l = Least(n, Size) /\ Global(c) = n
        /\ c.k \in [Positions -> Entry]
    BY <1>0 DEF Cache, HoldsWindow, Local, Global
  <1>2. entry \in Entry
    BY <1>0 DEF EntryOf, Entry
  <1>3. /\ LocalEnd(c, end) = Least(n + 1, Size)
        /\ LocalEnd(c, end) \in 1..Size
        /\ LocalEnd(c, end) - 1 \in Positions
    BY <1>0, <1>1 DEF LocalEnd, Evicted, Overflows, Least, Positions
  <1>4. Rolled(c, end) = [i \in Positions |->
                            IF n >= Size /\ Sink <= i /\ i < Size - 1
                            THEN c.k[i + 1] ELSE c.k[i]]
    <2>1. CASE n < Size
      <3>1. ~Overflows(c, end)
        BY <2>1, <1>0, <1>1 DEF Overflows, Least
      <3> QED BY <3>1, <2>1, <1>0, <1>1 DEF Rolled
    <2>2. CASE n >= Size
      <3>1. Overflows(c, end) /\ Evicted(c, end) = 1 /\ l = Size
        BY <2>2, <1>0, <1>1 DEF Overflows, Evicted, Least
      <3>2. \A i \in Positions : i \in Sink..(Sink + (l - 1 - Sink) - 1)
                                  <=> Sink <= i /\ i < Size - 1
        BY <3>1, <1>0 DEF Positions
      <3> QED BY <3>1, <3>2, <2>2, <1>0 DEF Rolled
    <2> QED BY <2>1, <2>2, <1>0
  <1>5. Rolled(c, end) \in [Positions -> Entry]
    <2>1. \A i \in Positions : i < Size - 1 => i + 1 \in Positions
      BY <1>0 DEF Positions
    <2> QED BY <1>1, <1>4, <2>1, <1>0 DEF Positions
  <1>6. /\ st \in Cache
        /\ st.k = [Rolled(c, end) EXCEPT ![LocalEnd(c, end) - 1] = entry]
        /\ st.globalPy = c.globalPy /\ st.localPy = c.localPy
    <2>1. [Rolled(c, end) EXCEPT ![LocalEnd(c, end) - 1] = entry]
              \in [Positions -> Entry]
      BY <1>2, <1>3, <1>5
    <2> QED BY <2>1 DEF Stored, Cache
  <1>7. /\ d \in Cache
        /\ d.k = st.k
        /\ d.global = end /\ d.local = LocalEnd(c, end)
        /\ HostCursor => d.globalPy = end /\ d.localPy = LocalEnd(c, end)
    <2>1. end \in 0..ChunkCount /\ LocalEnd(c, end) \in 0..Size
      BY <1>0, <1>3
    <2>2. d = Advanced(c, end, st)
      BY DEF Full
    <2> HIDE DEF st, d, end
    <2> QED BY <1>6, <2>1, <2>2, <1>0 DEF Advanced, Cache
  <1>8. /\ Local(d) = Least(n + 1, Size) /\ Global(d) = n + 1
    BY <1>3, <1>7 DEF Local, Global
  <1>10. Mirrored(d)
    BY <1>7 DEF Mirrored
  <1>11. ASSUME NEW i \in Positions, i < Local(d)
         PROVE  /\ d.k[i].frame = FrameAt(i, n + 1)
                /\ d.k[i].frame < n => d.k[i].pass = CleanPass
                /\ d.k[i].frame = n => d.k[i].pass = pass
    <2>1. CASE i = Local(d) - 1
      <3>1. d.k[i] = entry
        BY <2>1, <1>3, <1>5, <1>6, <1>7, <1>8
      <3>2. FrameAt(i, n + 1) = n
        BY <2>1, <1>0, <1>8 DEF FrameAt, Least
      <3> QED BY <3>1, <3>2 DEF EntryOf
    <2>2. CASE i # Local(d) - 1 /\ n >= Size /\ Sink <= i
      <3>1. i + 1 \in Positions /\ i < Size - 1 /\ i + 1 < l
        BY <2>2, <1>0, <1>1, <1>8, <1>11 DEF Positions, Least
      <3>2. d.k[i] = c.k[i + 1]
        BY <3>1, <2>2, <1>3, <1>4, <1>5, <1>6, <1>7, <1>8
      <3>3. c.k[i + 1].frame = FrameAt(i + 1, n)
        BY <3>1 DEF HoldsWindow
      <3>4. FrameAt(i + 1, n) = FrameAt(i, n + 1) /\ FrameAt(i + 1, n) < n
        BY <2>2, <3>1, <1>0 DEF FrameAt, Positions
      <3>5. c.k[i + 1].frame < n => c.k[i + 1].pass = CleanPass
        BY <3>1 DEF CleanBelow
      <3> QED BY <3>2, <3>3, <3>4, <3>5
    <2>3. CASE i # Local(d) - 1 /\ ~(n >= Size /\ Sink <= i)
      <3>1. i < l
        BY <2>3, <1>0, <1>1, <1>8, <1>11 DEF Positions, Least
      <3>2. d.k[i] = c.k[i]
        BY <2>3, <1>3, <1>4, <1>5, <1>6, <1>7, <1>8
      <3>3. c.k[i].frame = FrameAt(i, n)
        BY <3>1 DEF HoldsWindow
      <3>4. FrameAt(i, n) = FrameAt(i, n + 1) /\ FrameAt(i, n) < n
        BY <2>3, <1>0, <1>8, <1>11 DEF FrameAt, Positions, Least
      <3>5. c.k[i].frame < n => c.k[i].pass = CleanPass
        BY <3>1 DEF CleanBelow
      <3> QED BY <3>2, <3>3, <3>4, <3>5
    <2> QED BY <2>1, <2>2, <2>3
  <1>12. Local(d) = LocalEnd(c, end)
    BY <1>3, <1>8
  <1> HIDE DEF st, d, end
  <1>13. After(d, n, pass)
    BY <1>7, <1>8, <1>10, <1>11 DEF HoldsWindow, CleanBelow, After
  <1> QED BY <1>7, <1>12, <1>13 DEF st, d, end, entry

\* The other forwards of a chunk find frame n in its place: they evict nothing,
\* overwrite its entry and leave the cursors where they are, whether or not the
\* block gets as far as its cursor updates.
LEMMA LaterForward ==
    ASSUME NEW c \in Cache, Mirrored(c),
           NEW n \in 0..ChunkCount, n < ChunkCount,
           NEW pass \in 0..Timesteps,
           HoldsWindow(c, n + 1), CleanBelow(c, n)
    PROVE  /\ After(Full(c, n, pass), n, pass)
           /\ After(Stored(c, n + 1, EntryOf(n, pass)), n, pass)
           /\ Full(c, n, pass).k = Stored(c, n + 1, EntryOf(n, pass)).k
           /\ Local(Full(c, n, pass)) = LocalEnd(c, n + 1)
  <1> DEFINE entry == EntryOf(n, pass)
             end == n + 1
             l == Local(c)
             st == Stored(c, end, entry)
             d == Full(c, n, pass)
  <1>0. /\ Size \in Nat /\ Sink \in Nat /\ Sink < Size /\ ChunkCount \in Nat
        /\ Timesteps \in Nat \ {0} /\ HostCursor \in BOOLEAN
    BY ConstantsAssumption
  <1>1. /\ l \in 1..Size /\ l = Least(n + 1, Size) /\ Global(c) = end
        /\ c.k \in [Positions -> Entry] /\ l - 1 \in Positions
    BY <1>0 DEF Cache, HoldsWindow, Local, Global, Least, Positions
  <1>2. entry \in Entry
    BY <1>0 DEF EntryOf, Entry
  <1>3. ~Overflows(c, end)
    BY <1>0, <1>1 DEF Overflows
  <1>4. Rolled(c, end) = c.k /\ LocalEnd(c, end) = l
    BY <1>0, <1>1, <1>3 DEF Rolled, LocalEnd, Evicted
  <1>5. [c.k EXCEPT ![l - 1] = entry] \in [Positions -> Entry]
    BY <1>1, <1>2
  <1>6. /\ st \in Cache
        /\ st.k = [c.k EXCEPT ![l - 1] = entry]
        /\ st.global = c.global /\ st.local = c.local
        /\ st.globalPy = c.globalPy /\ st.localPy = c.localPy
    BY <1>4, <1>5 DEF Stored, Cache
  <1>7. /\ d \in Cache
        /\ d.k = st.k
        /\ d.global = end /\ d.local = l
        /\ HostCursor => d.globalPy = end /\ d.localPy = l
    <2>1. end \in 0..ChunkCount /\ l \in 0..Size
      BY <1>0, <1>1
    <2>2. d = Advanced(c, end, st)
      BY DEF Full
    <2> HIDE DEF st, d, end, l
    <2> QED BY <1>4, <1>6, <2>1, <2>2, <1>0 DEF Advanced, Cache
  <1>8. ASSUME NEW e \in Cache, e.k = st.k, Local(e) = l, Global(e) = end,
               Mirrored(e)
        PROVE  After(e, n, pass)
    <2>1. ASSUME NEW i \in Positions, i < l
          PROVE  /\ e.k[i].frame = FrameAt(i, n + 1)
                 /\ e.k[i].frame < n => e.k[i].pass = CleanPass
                 /\ e.k[i].frame = n => e.k[i].pass = pass
      <3>1. CASE i = l - 1
        <4>1. e.k[i] = entry
          BY <3>1, <1>1, <1>6, <1>8
        <4>2. FrameAt(i, n + 1) = n
          BY <3>1, <1>0, <1>1 DEF FrameAt, Least
        <4> QED BY <4>1, <4>2 DEF EntryOf
      <3>2. CASE i # l - 1
        <4>1. e.k[i] = c.k[i]
          BY <3>2, <1>1, <1>6, <1>8
        <4>2. c.k[i].frame = FrameAt(i, n + 1)
          BY <2>1 DEF HoldsWindow
        <4>3. FrameAt(i, n + 1) # n
          BY <3>2, <2>1, <1>0, <1>1 DEF FrameAt, Least, Positions
        <4>4. c.k[i].frame < n => c.k[i].pass = CleanPass
          BY <2>1 DEF CleanBelow
        <4> QED BY <4>1, <4>2, <4>3, <4>4
      <3> QED BY <3>1, <3>2
    <2> HIDE DEF st, d, end, l
    <2> QED BY <2>1, <1>1, <1>8 DEF HoldsWindow, CleanBelow, After, end
  <1>9. /\ Local(d) = l /\ Global(d) = end /\ Mirrored(d)
        /\ Local(st) = l /\ Global(st) = end /\ Mirrored(st)
    BY <1>1, <1>6, <1>7 DEF Local, Global, Mirrored
  <1> HIDE DEF st, d, end, l
  <1>10. After(d, n, pass) /\ After(st, n, pass)
    BY <1>6, <1>7, <1>8, <1>9
  <1> QED BY <1>4, <1>7, <1>9, <1>10 DEF st, d, end, entry

-----------------------------------------------------------------------------
(* The inductive invariant *)

\* The bounds of a chunk that is under way.
PhaseInv ==
    /\ phase # "idle" => chunk < ChunkCount
    /\ phase \in {"idle", "generated"} => block = 1

\* In the clean pass the blocks that are done have a clean entry of the chunk.
BlockInv(b) ==
    /\ HoldsWindow(cache[b], Entered(b))
    /\ CleanBelow(cache[b], chunk)
    /\ phase = "clean" /\ b < block => CleanBelow(cache[b], chunk + 1)

IInv ==
    /\ TypeOK
    /\ PhaseInv
    /\ \A b \in BlockIds : Mirrored(cache[b])
    /\ phase # "abandoned" => \A b \in BlockIds : BlockInv(b)

\* A cache after the clean pass is clean up to and including its frame.
LEMMA CleanAfter ==
    ASSUME NEW d, NEW n \in Nat, After(d, n, CleanPass)
    PROVE  CleanBelow(d, n + 1)
  <1> SUFFICES ASSUME NEW i \in Positions, i < Local(d), d.k[i].frame < n + 1
               PROVE  d.k[i].pass = CleanPass
    BY DEF CleanBelow
  <1>1. d.k[i].frame \in -1..ChunkCount
    BY ConstantsAssumption DEF After, Cache, Entry
  <1> QED BY <1>1, ConstantsAssumption DEF After, CleanBelow

LEMMA InitHolds == Init => IInv
  <1> SUFFICES ASSUME Init PROVE IInv
    OBVIOUS
  <1> USE ConstantsAssumption
  <1>1. 1 \in BlockIds /\ 0 \in 0..ChunkCount /\ 0 \in 0..Size
    BY DEF BlockIds
  <1>2. Unwritten \in Entry
    BY DEF Unwritten, Entry
  <1>3. ASSUME NEW b \in BlockIds
        PROVE  /\ cache[b] \in Cache
               /\ cache[b].global = 0 /\ cache[b].globalPy = 0
               /\ cache[b].local = 0 /\ cache[b].localPy = 0
    <2>1. [i \in Positions |-> Unwritten] \in [Positions -> Entry]
      BY <1>2
    <2> HIDE DEF Cache
    <2>2. cache[b] = [k |-> [i \in Positions |-> Unwritten],
                      global |-> 0, local |-> 0, globalPy |-> 0,
                      localPy |-> 0, cross |-> FALSE]
      BY DEF Init
    <2> QED BY <1>1, <2>1, <2>2 DEF Cache
  <1>4. TypeOK
    <2>1. cache \in [BlockIds -> Cache]
      BY <1>3 DEF Init
    <2>2. 0 \in 0..(Timesteps - 1)
      OBVIOUS
    <2> QED BY <1>1, <2>1, <2>2 DEF Init, TypeOK
  <1>5. ASSUME NEW b \in BlockIds
        PROVE  Mirrored(cache[b]) /\ BlockInv(b)
    <2>1. /\ Local(cache[b]) = 0 /\ Global(cache[b]) = 0 /\ Entered(b) = 0
          /\ Least(0, Size) = 0 /\ Mirrored(cache[b])
      BY <1>3 DEF Init, Local, Global, Entered, Least, Mirrored
    <2>2. phase # "clean"
      BY DEF Init
    <2> QED BY <2>1, <2>2 DEF BlockInv, HoldsWindow, CleanBelow, Positions
  <1> QED BY <1>4, <1>5 DEF IInv, PhaseInv, Init

\* The step of a full forward: the cache of its block after it.
LEMMA FullBlockStep ==
    ASSUME IInv, phase \in {"denoise", "clean"},
           NEW pass \in 0..Timesteps,
           FullBlock(block, pass)
    PROVE  \E d \in Cache :
             /\ cache' = [cache EXCEPT ![block] = d]
             /\ After(d, chunk, pass)
             /\ attended' = Read(d.k, Local(d))
  <1> DEFINE c == cache[block]
             f == Full(c, chunk, pass)
             d == [f EXCEPT !.cross = @ \/ (pass # CleanPass /\ ~crossInit)]
  <1>0. /\ c \in Cache /\ block \in BlockIds /\ Mirrored(c)
        /\ chunk \in 0..ChunkCount /\ chunk < ChunkCount /\ crossInit \in BOOLEAN
        /\ CleanBelow(c, chunk)
    BY DEF IInv, TypeOK, PhaseInv, BlockInv
  <1>1. HoldsWindow(c, chunk) \/ HoldsWindow(c, chunk + 1)
    BY <1>0 DEF IInv, BlockInv, Entered
  <1>2. /\ After(f, chunk, pass)
        /\ f.k = Stored(c, chunk + 1, EntryOf(chunk, pass)).k
        /\ Local(f) = LocalEnd(c, chunk + 1)
    <2>1. CASE HoldsWindow(c, chunk)
      BY <2>1, <1>0, FirstForward
    <2>2. CASE HoldsWindow(c, chunk + 1)
      BY <2>2, <1>0, LaterForward
    <2> QED BY <1>1, <2>1, <2>2
  <1>3. cache' = [cache EXCEPT ![block] = d]
    BY DEF FullBlock, CurrentEnd, Full, EntryOf
  <1>4. attended' = Read(f.k, Local(f))
    BY <1>2 DEF FullBlock, CurrentEnd, EntryOf
  <1> HIDE DEF f
  <1>5. /\ d \in Cache /\ d.k = f.k
        /\ d.global = f.global /\ d.local = f.local
        /\ d.globalPy = f.globalPy /\ d.localPy = f.localPy
    BY <1>0, <1>2 DEF After, Cache
  <1>6. Local(d) = Local(f) /\ Global(d) = Global(f)
    BY <1>5 DEF Local, Global
  <1> HIDE DEF d
  <1>7. After(d, chunk, pass)
    BY <1>2, <1>5, <1>6 DEF After, Mirrored, HoldsWindow, CleanBelow
  <1> QED BY <1>3, <1>4, <1>5, <1>6, <1>7

\* Every entry a forward may read has the type of an entry.
LEMMA ReadType ==
    ASSUME NEW d \in Cache, NEW n PROVE Read(d.k, n) \subseteq Entry
  BY DEF Read, Cache

LEMMA BeginChunkStep == IInv /\ BeginChunk => IInv'
  <1> SUFFICES ASSUME IInv, BeginChunk PROVE IInv'
    OBVIOUS
  <1> USE ConstantsAssumption
  <1>1. 1 \in BlockIds /\ 0 \in 0..(Timesteps - 1)
    BY DEF BlockIds
  <1>2. CachePositions \in [global : 0..ChunkCount, local : 0..Size]
    BY <1>1 DEF IInv, TypeOK, Cache, CachePositions
  <1>3. TypeOK'
    BY <1>1, <1>2 DEF IInv, TypeOK, BeginChunk
  <1>4. PhaseInv'
    BY DEF IInv, PhaseInv, BeginChunk
  <1>5. ASSUME NEW b \in BlockIds PROVE Mirrored(cache'[b]) /\ BlockInv(b)'
    <2>1. Entered(b)' = Entered(b)
      BY <1>1 DEF BeginChunk, Entered, BlockIds
    <2>2. BlockInv(b)
      BY DEF IInv, BeginChunk
    <2> QED BY <2>1, <2>2 DEF IInv, BlockInv, BeginChunk, HoldsWindow, CleanBelow
  <1> QED BY <1>3, <1>4, <1>5 DEF IInv

LEMMA BeginCommitStep == IInv /\ BeginCommit => IInv'
  <1> SUFFICES ASSUME IInv, BeginCommit PROVE IInv'
    OBVIOUS
  <1> USE ConstantsAssumption
  <1>1. TypeOK' /\ PhaseInv'
    BY DEF IInv, TypeOK, PhaseInv, BeginCommit
  <1>2. ASSUME NEW b \in BlockIds PROVE Mirrored(cache'[b]) /\ BlockInv(b)'
    <2>1. Entered(b)' = Entered(b) /\ BlockInv(b)
      BY DEF BeginCommit, Entered, IInv
    <2>2. ~(b < block)
      BY DEF IInv, PhaseInv, BeginCommit, BlockIds
    <2> QED BY <2>1, <2>2 DEF IInv, BlockInv, BeginCommit, HoldsWindow, CleanBelow
  <1> QED BY <1>1, <1>2 DEF IInv

LEMMA AbandonStep == IInv /\ Abandon => IInv'
  BY DEF IInv, TypeOK, PhaseInv, Abandon, Mirrored

LEMMA DenoiseStep == IInv /\ DenoiseBlock => IInv'
  <1> SUFFICES ASSUME IInv, DenoiseBlock PROVE IInv'
    OBVIOUS
  <1> USE ConstantsAssumption
  <1>0. /\ block \in BlockIds /\ step \in 0..(Timesteps - 1) /\ chunk \in Nat
        /\ cache \in [BlockIds -> Cache] /\ phase = "denoise"
        /\ chunk' = chunk /\ before' = before
    BY DEF IInv, TypeOK, DenoiseBlock
  <1>1. PICK d \in Cache : /\ cache' = [cache EXCEPT ![block] = d]
                           /\ After(d, chunk, step)
                           /\ attended' = Read(d.k, Local(d))
    <2>1. step \in 0..Timesteps
      BY <1>0
    <2> QED BY <2>1, FullBlockStep DEF DenoiseBlock
  <1>2. attended' \subseteq Entry /\ cache' \in [BlockIds -> Cache]
    BY <1>0, <1>1, ReadType
  <1>3. CASE block < Blocks
    <2>1. /\ block' = block + 1 /\ block' \in BlockIds /\ phase' = phase
          /\ step' = step /\ crossInit' = crossInit
      BY <1>3, <1>0 DEF DenoiseBlock, BlockIds
    <2>2. TypeOK' /\ PhaseInv'
      BY <2>1, <1>0, <1>2 DEF IInv, TypeOK, PhaseInv
    <2>3. ASSUME NEW b \in BlockIds PROVE Mirrored(cache'[b]) /\ BlockInv(b)'
      <3>1. CASE b = block
        <4>1. cache'[b] = d /\ Entered(b)' = chunk + 1
          BY <3>1, <2>1, <1>0, <1>1 DEF Entered, BlockIds
        <4> QED BY <4>1, <2>1, <1>0, <1>1 DEF After, BlockInv
      <3>2. CASE b # block
        <4>1. cache'[b] = cache[b] /\ Entered(b)' = Entered(b)
          BY <3>2, <2>1, <1>0, <1>1 DEF Entered, BlockIds
        <4> QED BY <4>1, <2>1, <1>0 DEF IInv, BlockInv
      <3> QED BY <3>1, <3>2
    <2> QED BY <2>2, <2>3 DEF IInv
  <1>4. CASE ~(block < Blocks)
    <2>1. /\ block' = 1 /\ block' \in BlockIds /\ block = Blocks
          /\ crossInit' = TRUE
          /\ phase' \in {"denoise", "generated"}
          /\ step' \in 0..(Timesteps - 1)
          /\ phase' = "denoise" => step' # 0
      BY <1>4, <1>0 DEF DenoiseBlock, BlockIds
    <2>2. TypeOK' /\ PhaseInv'
      BY <2>1, <1>0, <1>2 DEF IInv, TypeOK, PhaseInv
    <2>3. ASSUME NEW b \in BlockIds PROVE Mirrored(cache'[b]) /\ BlockInv(b)'
      <3>0. Entered(b)' = chunk + 1
        BY <2>1, <1>0 DEF Entered
      <3>1. CASE b = block
        BY <3>0, <3>1, <2>1, <1>0, <1>1 DEF After, BlockInv
      <3>2. CASE b # block
        <4>1. cache'[b] = cache[b] /\ Entered(b) = chunk + 1
          BY <3>2, <2>1, <1>0, <1>1 DEF Entered, BlockIds
        <4> QED BY <3>0, <4>1, <2>1, <1>0 DEF IInv, BlockInv
      <3> QED BY <3>1, <3>2
    <2> QED BY <2>2, <2>3 DEF IInv
  <1> QED BY <1>3, <1>4

LEMMA CleanStep == IInv /\ CleanBlock => IInv'
  <1> SUFFICES ASSUME IInv, CleanBlock PROVE IInv'
    OBVIOUS
  <1> USE ConstantsAssumption
  <1>0. /\ block \in BlockIds /\ chunk \in Nat /\ chunk < ChunkCount
        /\ chunk \in 0..ChunkCount
        /\ cache \in [BlockIds -> Cache] /\ phase = "clean"
        /\ crossInit' = crossInit /\ step' = step /\ before' = before
        /\ CleanPass \in 0..Timesteps
    BY DEF IInv, TypeOK, CleanBlock, PhaseInv, CleanPass
  <1>1. CASE block < Blocks
    <2>1. PICK d \in Cache : /\ cache' = [cache EXCEPT ![block] = d]
                             /\ After(d, chunk, CleanPass)
                             /\ attended' = Read(d.k, Local(d))
      BY <1>0, <1>1, FullBlockStep DEF CleanBlock
    <2>2. /\ block' = block + 1 /\ block' \in BlockIds /\ phase' = "clean"
          /\ chunk' = chunk
      BY <1>0, <1>1 DEF CleanBlock, BlockIds
    <2>3. TypeOK' /\ PhaseInv'
      BY <1>0, <2>1, <2>2, ReadType DEF IInv, TypeOK, PhaseInv
    <2>4. ASSUME NEW b \in BlockIds PROVE Mirrored(cache'[b]) /\ BlockInv(b)'
      <3>0. Entered(b) = chunk + 1 /\ Entered(b)' = chunk + 1
        BY <1>0, <2>2 DEF Entered
      <3>1. CASE b = block
        <4>1. CleanBelow(d, chunk + 1)
          BY <1>0, <2>1, CleanAfter
        <4> QED BY <3>0, <3>1, <4>1, <1>0, <2>1, <2>2 DEF After, BlockInv
      <3>2. CASE b # block
        <4>1. cache'[b] = cache[b] /\ (b < block' => b < block)
          BY <3>2, <1>0, <2>1, <2>2 DEF BlockIds
        <4> QED BY <3>0, <4>1, <1>0, <2>2 DEF IInv, BlockInv
      <3> QED BY <3>1, <3>2
    <2> QED BY <2>3, <2>4 DEF IInv
  <1>2. CASE ~(block < Blocks)
    <2> DEFINE c == cache[block]
               d == Stored(c, chunk + 1, EntryOf(chunk, CleanPass))
    <2>1. cache' = [cache EXCEPT ![block] = d] /\ attended' = attended
      BY <1>0, <1>2 DEF CleanBlock, StoreOnly, CurrentEnd, EntryOf
    <2>2. After(d, chunk, CleanPass)
      <3>1. c \in Cache /\ Mirrored(c) /\ HoldsWindow(c, chunk + 1)
            /\ CleanBelow(c, chunk)
        BY <1>0 DEF IInv, BlockInv, Entered
      <3> QED BY <3>1, <1>0, LaterForward
    <2> HIDE DEF d
    <2>3. /\ block' = 1 /\ block' \in BlockIds /\ phase' = "idle"
          /\ chunk' = chunk + 1 /\ chunk' \in 0..ChunkCount /\ block = Blocks
      BY <1>0, <1>2 DEF CleanBlock, BlockIds
    <2>4. TypeOK' /\ PhaseInv'
      BY <1>0, <2>1, <2>2, <2>3 DEF IInv, TypeOK, PhaseInv, After
    <2>5. ASSUME NEW b \in BlockIds PROVE Mirrored(cache'[b]) /\ BlockInv(b)'
      <3>0. Entered(b) = chunk + 1 /\ Entered(b)' = chunk + 1
        BY <1>0, <2>3 DEF Entered
      <3>1. CASE b = block
        <4>1. CleanBelow(d, chunk + 1)
          BY <1>0, <2>2, CleanAfter
        <4> QED BY <3>0, <3>1, <4>1, <1>0, <2>1, <2>2, <2>3 DEF After, BlockInv
      <3>2. CASE b # block
        <4>1. cache'[b] = cache[b] /\ b < block
          BY <3>2, <1>0, <2>1, <2>3 DEF BlockIds
        <4> QED BY <3>0, <4>1, <1>0, <2>3 DEF IInv, BlockInv
      <3> QED BY <3>1, <3>2
    <2> QED BY <2>4, <2>5 DEF IInv
  <1> QED BY <1>1, <1>2

LEMMA StutterStep == IInv /\ UNCHANGED vars => IInv'
  BY DEF IInv, TypeOK, PhaseInv, BlockInv, Mirrored, Entered, HoldsWindow,
         CleanBelow, vars

LEMMA NextHolds == IInv /\ [Next]_vars => IInv'
  BY BeginChunkStep, DenoiseStep, BeginCommitStep, CleanStep, AbandonStep,
     StutterStep DEF Next, Done

\* At every block of every forward the caches are where the number of written
\* frames says they are, for any window, sinks, timesteps and blocks.
THEOREM InductiveInvariant == Spec => []IInv
  BY InitHolds, NextHolds, PTL DEF Spec

-----------------------------------------------------------------------------
(* Results *)

\* Type correctness: no store ever leaves the cache, no cursor its range.
THEOREM TypeCorrect == Spec => []TypeOK
  BY InductiveInvariant, PTL DEF IInv

\* In every phase of every chunk each block's cache is the rolling window of the
\* frames that entered it, in order, all clean but the one being generated.
THEOREM WindowHolds == Spec => []WindowInvariant
  <1>1. IInv => WindowInvariant
    BY DEF IInv, BlockInv, WindowInvariant
  <1> QED BY <1>1, InductiveInvariant, PTL

\* All blocks agree on the cursors between forwards, and the tensors agree with
\* the host integers, although the clean pass leaves one update out.
THEOREM CursorsAlwaysAgree == Spec => []CursorsAgree
  <1>1. IInv => CursorsAgree
    <2> SUFFICES ASSUME IInv, phase \in {"idle", "generated"},
                        NEW b \in BlockIds
                 PROVE  /\ [global |-> cache[b].global, local |-> cache[b].local]
                              = CachePositions
                        /\ HostCursor => /\ cache[b].globalPy = cache[b].global
                                         /\ cache[b].localPy = cache[b].local
      BY DEF CursorsAgree
    <2>0. 1 \in BlockIds
      BY ConstantsAssumption DEF BlockIds
    <2>1. Entered(b) = Entered(1)
      BY <2>0 DEF Entered
    <2>2. /\ Global(cache[b]) = Global(cache[1])
          /\ Local(cache[b]) = Local(cache[1])
      BY <2>0, <2>1 DEF IInv, BlockInv, HoldsWindow
    <2>3. Mirrored(cache[b]) /\ Mirrored(cache[1])
      BY <2>0 DEF IInv
    <2> QED BY <2>2, <2>3 DEF Mirrored, CachePositions, Global, Local
  <1> QED BY <1>1, InductiveInvariant, PTL

\* The clean pass moves no cursor, so the updates its last block leaves out
\* would indeed have been redundant.
THEOREM CleanPassRedundant == Spec => CleanPassMovesNoCursor
  <1>1. IInv /\ IInv' /\ [Next]_vars => CleanPassStep
    <2> SUFFICES ASSUME IInv, IInv', [Next]_vars, phase = "clean",
                        NEW b \in BlockIds
                 PROVE  /\ Global(cache'[b]) = Global(cache[b])
                        /\ Local(cache'[b]) = Local(cache[b])
      BY DEF CleanPassStep
    <2>1. CASE CleanBlock
      <3>1. /\ Entered(b) = chunk + 1 /\ Entered(b)' = chunk + 1
            /\ phase' \in {"clean", "idle"}
        BY <2>1, ConstantsAssumption DEF CleanBlock, Entered, IInv, TypeOK
      <3> QED BY <3>1 DEF IInv, BlockInv, HoldsWindow, Local, Global
    <2>2. CASE Abandon
      BY <2>2 DEF Abandon
    <2>3. CASE UNCHANGED vars
      BY <2>3 DEF vars
    <2> QED BY <2>1, <2>2, <2>3 DEF Next, BeginChunk, DenoiseBlock, BeginCommit,
                                    Done
  <1> QED BY <1>1, InductiveInvariant, PTL DEF CleanPassMovesNoCursor, Spec

-----------------------------------------------------------------------------
(* What self-attention reads *)

\* The frames of a cache that holds n + 1 frames are the sinks and the most
\* recent Size - Sink frames.
LEMMA WindowFrames ==
    ASSUME NEW d \in Cache, NEW n \in Nat, HoldsWindow(d, n + 1)
    PROVE  {d.k[i].frame : i \in {j \in Positions : j < Local(d)}}
               = {f \in 0..n : f < Sink \/ f > n - (Size - Sink)}
  <1> DEFINE L == {d.k[i].frame : i \in {j \in Positions : j < Local(d)}}
             R == {f \in 0..n : f < Sink \/ f > n - (Size - Sink)}
  <1> USE ConstantsAssumption
  <1>1. ASSUME NEW i \in Positions, i < Local(d) PROVE d.k[i].frame \in R
    <2>1. d.k[i].frame = FrameAt(i, n + 1) /\ Local(d) = Least(n + 1, Size)
      BY <1>1 DEF HoldsWindow
    <2> QED BY <1>1, <2>1 DEF FrameAt, Least, Positions
  <1>2. ASSUME NEW f \in R PROVE f \in L
    <2> DEFINE i == IF n + 1 <= Size \/ f < Sink THEN f ELSE f - (n + 1) + Size
    <2>1. i \in Positions /\ i < Local(d) /\ FrameAt(i, n + 1) = f
      BY <1>2 DEF HoldsWindow, FrameAt, Least, Positions
    <2> HIDE DEF i
    <2>2. d.k[i].frame = f
      BY <2>1 DEF HoldsWindow
    <2> QED BY <2>1, <2>2
  <1> QED BY <1>1, <1>2

\* In every forward of every chunk, self-attention reads the whole window:
\* of earlier frames only clean entries, of the current frame the entry this
\* very forward stored.
THEOREM AttentionReadsCleanHistory == Spec => AttendsCleanHistory
  <1>1. IInv /\ [Next]_vars => [AttentionStep]_vars
    <2> DEFINE pass == IF phase = "clean" THEN CleanPass ELSE step
    <2> SUFFICES ASSUME IInv, Next,
                        phase = "denoise" \/ (phase = "clean" /\ block < Blocks),
                        phase' # "abandoned"
                 PROVE  /\ \A e \in attended' :
                              e.pass = IF e.frame < chunk THEN CleanPass ELSE pass
                        /\ {e.frame : e \in attended'} =
                              {f \in 0..chunk :
                                 f < Sink \/ f > chunk - (Size - Sink)}
      BY DEF AttentionStep
    <2>0. pass \in 0..Timesteps /\ chunk \in Nat
      BY ConstantsAssumption DEF IInv, TypeOK, CleanPass
    <2>1. FullBlock(block, pass)
      BY DEF Next, BeginChunk, BeginCommit, Abandon, Done, DenoiseBlock,
             CleanBlock
    <2>2. PICK d \in Cache : /\ After(d, chunk, pass)
                             /\ attended' = Read(d.k, Local(d))
      BY <2>0, <2>1, FullBlockStep
    <2>3. Local(d) \in 0..Size
      BY <2>2 DEF Cache, Local
    <2>4. attended' = {d.k[i] : i \in {j \in Positions : j < Local(d)}}
      BY <2>2, <2>3, ConstantsAssumption DEF Read, Positions
    <2>5. {e.frame : e \in attended'} =
             {f \in 0..chunk : f < Sink \/ f > chunk - (Size - Sink)}
      BY <2>0, <2>2, <2>4, WindowFrames DEF After
    <2>6. ASSUME NEW i \in Positions, i < Local(d)
          PROVE  d.k[i].pass = IF d.k[i].frame < chunk THEN CleanPass ELSE pass
      <3>1. d.k[i].frame \in 0..chunk
        BY <2>4, <2>5, <2>6
      <3> QED BY <2>0, <2>2, <2>6, <3>1 DEF After, CleanBelow
    <2> QED BY <2>4, <2>5, <2>6
  <1> QED BY <1>1, InductiveInvariant, PTL DEF AttendsCleanHistory, Spec

-----------------------------------------------------------------------------
(* Cross-attention, the cursors before a chunk and what is still dirty *)

\* Block b has nothing of the current chunk, or its clean entry.
Settled(b) == Entered(b) = chunk \/ (phase = "clean" /\ b < block)

\* Otherwise its entry of the chunk is one of a denoising forward.
DirtyInv(b) ==
    phase # "abandoned" /\ ~Settled(b) =>
        \A i \in Positions :
            i < Local(cache[b]) /\ cache[b].k[i].frame = chunk
                => cache[b].k[i].pass # CleanPass

\* The first forward fills cross-attention block by block; the flag is set
\* behind the last one.
CrossInv ==
    /\ crossInit => \A b \in BlockIds : cache[b].cross
    /\ phase = "denoise" /\ ~crossInit =>
           step = 0 /\ \A b \in BlockIds : b < block => cache[b].cross
    /\ phase \in {"generated", "clean"} => crossInit

CursorsOf(n) == [global |-> n, local |-> Least(n, Size)]

BeforeInv ==
    /\ phase \in {"denoise", "generated", "clean"} => before = CursorsOf(chunk)
    /\ phase = "idle" /\ chunk > 0 => before = CursorsOf(chunk - 1)

Extra == CrossInv /\ BeforeInv /\ \A b \in BlockIds : DirtyInv(b)

\* The cursors of the first block between two chunks.
LEMMA IdleCursors == IInv /\ phase = "idle" => CachePositions = CursorsOf(chunk)
  <1> SUFFICES ASSUME IInv, phase = "idle" PROVE CachePositions = CursorsOf(chunk)
    OBVIOUS
  <1>1. 1 \in BlockIds
    BY ConstantsAssumption DEF BlockIds
  <1>2. /\ Global(cache[1]) = chunk /\ Local(cache[1]) = Least(chunk, Size)
        /\ Mirrored(cache[1])
    BY <1>1 DEF IInv, BlockInv, HoldsWindow, Entered
  <1> QED BY <1>2 DEF Mirrored, Global, Local, CachePositions, CursorsOf

\* What a forward does to the cross-attention flag of the blocks.
LEMMA CrossAfter ==
    ASSUME IInv, NEW pass,
           \/ FullBlock(block, pass) /\ pass \in 0..Timesteps
           \/ StoreOnly(block, pass) /\ pass = CleanPass,
           NEW b \in BlockIds
    PROVE  cache'[b].cross = (cache[b].cross
                                  \/ (b = block /\ pass # CleanPass /\ ~crossInit))
  <1> DEFINE c == cache[block]
             st == Stored(c, CurrentEnd, [frame |-> chunk, pass |-> pass])
             ad == Advanced(c, CurrentEnd, st)
  <1>1. /\ cache \in [BlockIds -> Cache] /\ block \in BlockIds
        /\ c \in Cache /\ c.cross \in BOOLEAN
    BY DEF IInv, TypeOK, Cache
  <1>2. DOMAIN st = {"k", "global", "local", "globalPy", "localPy", "cross"}
        /\ st.cross = c.cross
    BY <1>1 DEF Stored, Cache
  <1> HIDE DEF st
  <1>3. DOMAIN ad = {"k", "global", "local", "globalPy", "localPy", "cross"}
        /\ ad.cross = c.cross
    BY <1>2 DEF Advanced
  <1>4. CASE FullBlock(block, pass)
    <2>1. cache' = [cache EXCEPT ![block] =
                       [ad EXCEPT !.cross = @ \/ (pass # CleanPass /\ ~crossInit)]]
      BY <1>4 DEF FullBlock, st
    <2> HIDE DEF ad
    <2>2. cache'[block].cross = (ad.cross \/ (pass # CleanPass /\ ~crossInit))
      BY <1>1, <1>3, <2>1
    <2>3. b # block => cache'[b] = cache[b]
      BY <1>1, <2>1
    <2> HIDE DEF c
    <2>4. CASE b = block
      BY <1>3, <2>2, <2>4 DEF c
    <2>5. CASE b # block
      BY <1>1, <2>3, <2>5 DEF Cache
    <2> QED BY <2>4, <2>5
  <1>5. CASE StoreOnly(block, pass) /\ pass = CleanPass
    <2>1. cache' = [cache EXCEPT ![block] = st]
      BY <1>5 DEF StoreOnly, st
    <2>2. cache'[block] = st /\ (b # block => cache'[b] = cache[b])
      BY <1>1, <2>1
    <2>3. CASE b = block
      BY <1>1, <1>2, <1>5, <2>2, <2>3
    <2>4. CASE b # block
      BY <1>1, <2>2, <2>4 DEF Cache
    <2> QED BY <2>3, <2>4
  <1> QED BY <1>4, <1>5

LEMMA CrossStep ==
    ASSUME IInv, CrossInv, [Next]_vars PROVE CrossInv'
  <1>0. /\ block \in BlockIds /\ step \in 0..(Timesteps - 1)
        /\ crossInit \in BOOLEAN /\ Timesteps \in Nat \ {0} /\ Blocks \in Nat \ {0}
    BY ConstantsAssumption DEF IInv, TypeOK
  <1>1. CASE BeginChunk
    BY <1>0, <1>1 DEF CrossInv, BeginChunk, BlockIds
  <1>2. CASE BeginCommit \/ Abandon
    BY <1>2 DEF CrossInv, BeginCommit, Abandon
  <1>3. CASE UNCHANGED vars
    BY <1>3 DEF CrossInv, vars
  <1>4. CASE DenoiseBlock
    <2>1. /\ phase = "denoise" /\ FullBlock(block, step)
          /\ step \in 0..Timesteps /\ step # CleanPass
      BY <1>0, <1>4 DEF DenoiseBlock, CleanPass
    <2>2. \A b \in BlockIds : cache'[b].cross =
              (cache[b].cross \/ (b = block /\ ~crossInit))
      BY <2>1, CrossAfter
    <2>3. CASE block < Blocks
      <3>1. /\ block' = block + 1 /\ UNCHANGED <<crossInit, step, phase>>
        BY <1>4, <2>3 DEF DenoiseBlock
      <3>2. \A b \in BlockIds : b < block' => b < block \/ b = block
        BY <1>0, <3>1 DEF BlockIds
      <3> QED BY <1>0, <2>1, <2>2, <3>1, <3>2 DEF CrossInv
    <2>4. CASE ~(block < Blocks)
      <3>1. crossInit' = TRUE
        BY <1>4, <2>4 DEF DenoiseBlock
      <3>2. \A b \in BlockIds : b < block \/ b = block
        BY <1>0, <2>4 DEF BlockIds
      <3>3. \A b \in BlockIds : cache'[b].cross
        BY <1>0, <2>1, <2>2, <3>2 DEF CrossInv
      <3> QED BY <3>1, <3>3 DEF CrossInv
    <2> QED BY <2>3, <2>4
  <1>5. CASE CleanBlock
    <2>1. /\ crossInit /\ crossInit' = crossInit
          /\ \A b \in BlockIds : cache[b].cross
          /\ CleanPass \in 0..Timesteps /\ phase' \in {"clean", "idle"}
      BY <1>0, <1>5 DEF CrossInv, CleanBlock, CleanPass
    <2>2. \A b \in BlockIds : cache'[b].cross
      BY <1>5, <2>1, CrossAfter DEF CleanBlock
    <2> QED BY <2>1, <2>2 DEF CrossInv
  <1> QED BY <1>1, <1>2, <1>3, <1>4, <1>5 DEF Next, Done

LEMMA BeforeStep ==
    ASSUME IInv, BeforeInv, [Next]_vars PROVE BeforeInv'
  <1>0. chunk \in Nat /\ ChunkCount \in Nat
    BY ConstantsAssumption DEF IInv, TypeOK
  <1>1. CASE BeginChunk
    <2>1. /\ phase' = "denoise" /\ before' = CursorsOf(chunk) /\ chunk' = chunk
      BY <1>1, IdleCursors DEF BeginChunk
    <2> QED BY <2>1 DEF BeforeInv, CursorsOf
  <1>2. CASE DenoiseBlock
    <2>1. /\ phase = "denoise" /\ phase' \in {"denoise", "generated"}
          /\ UNCHANGED <<before, chunk>>
      BY <1>2 DEF DenoiseBlock
    <2> QED BY <2>1 DEF BeforeInv
  <1>3. CASE CleanBlock
    <2>1. /\ phase = "clean" /\ before' = before
          /\ \/ phase' = "clean" /\ chunk' = chunk
             \/ phase' = "idle" /\ chunk' - 1 = chunk
      BY <1>0, <1>3 DEF CleanBlock
    <2>2. before = [global |-> chunk, local |-> Least(chunk, Size)]
      BY <2>1 DEF BeforeInv, CursorsOf
    <2> QED BY <2>1, <2>2 DEF BeforeInv, CursorsOf
  <1>4. CASE BeginCommit \/ Abandon
    BY <1>4 DEF BeforeInv, BeginCommit, Abandon
  <1>5. CASE UNCHANGED vars
    BY <1>5 DEF BeforeInv, vars
  <1> QED BY <1>1, <1>2, <1>3, <1>4, <1>5 DEF Next, Done

\* How the frames that entered a block, and whether it is settled, change.
LEMMA SettledStep ==
    ASSUME IInv, [Next]_vars, phase # "abandoned", phase' # "abandoned",
           NEW b \in BlockIds
    PROVE  /\ Settled(b) => Entered(b) \in {chunk, chunk + 1}
           /\ ~Settled(b) => Entered(b) = chunk + 1
           /\ chunk' \in {chunk, chunk + 1} /\ Entered(b) \in Nat /\ chunk \in Nat
           /\ \/ /\ Settled(b)' = Settled(b) /\ Entered(b)' = Entered(b)
                 /\ cache'[b] = cache[b] /\ (~Settled(b) => chunk' = chunk)
              \/ /\ DenoiseBlock /\ b = block /\ ~Settled(b)' /\ chunk' = chunk
                 /\ Entered(b)' = chunk + 1
                 /\ Settled(b) => Entered(b) = chunk
              \/ /\ CleanBlock /\ b = block /\ ~Settled(b) /\ Settled(b)'
                 /\ Entered(b)' = chunk + 1 /\ Entered(b) = chunk + 1
  <1>0. /\ block \in BlockIds /\ step \in 0..(Timesteps - 1) /\ chunk \in Nat
        /\ Timesteps \in Nat \ {0} /\ Blocks \in Nat \ {0}
        /\ cache \in [BlockIds -> Cache]
        /\ phase \in {"idle", "denoise", "generated", "clean", "abandoned"}
        /\ phase \in {"idle", "generated"} => block = 1
        /\ b \in Nat /\ 1 <= b /\ b <= Blocks /\ block \in Nat /\ 1 <= block /\ block <= Blocks
    BY ConstantsAssumption DEF IInv, TypeOK, PhaseInv, BlockIds
  <1>1. /\ Settled(b) => Entered(b) \in {chunk, chunk + 1}
        /\ ~Settled(b) => Entered(b) = chunk + 1
        /\ Entered(b) \in Nat
    BY <1>0 DEF Settled, Entered
  <1>2. CASE BeginChunk
    BY <1>0, <1>1, <1>2 DEF Settled, Entered, BeginChunk
  <1>3. CASE BeginCommit
    BY <1>0, <1>1, <1>3 DEF Settled, Entered, BeginCommit
  <1>4. CASE UNCHANGED vars
    BY <1>0, <1>1, <1>4 DEF Settled, Entered, vars
  <1>5. CASE DenoiseBlock
    <2>1. /\ chunk' = chunk /\ phase = "denoise"
          /\ \E d : cache' = [cache EXCEPT ![block] = d]
          /\ \/ /\ block < Blocks /\ block' = block + 1 /\ phase' = "denoise"
                /\ step' = step
             \/ /\ block = Blocks /\ block' = 1 /\ step' \in Nat
                /\ phase' = "generated" \/ (phase' = "denoise" /\ step' # 0)
      <3>1. \E d : cache' = [cache EXCEPT ![block] = d]
        BY <1>5 DEF DenoiseBlock, FullBlock
      <3>2. chunk' = chunk /\ phase = "denoise"
        BY <1>5 DEF DenoiseBlock
      <3>3. CASE block < Blocks
        BY <1>5, <3>1, <3>2, <3>3 DEF DenoiseBlock
      <3>4. CASE ~(block < Blocks)
        <4>1. block = Blocks /\ block' = 1
          BY <1>0, <1>5, <3>4 DEF DenoiseBlock
        <4>2. \/ step' = step + 1 /\ phase' = phase
              \/ step' = step /\ phase' = "generated"
          BY <1>5, <3>4 DEF DenoiseBlock
        <4>3. step + 1 \in Nat /\ step + 1 # 0 /\ step \in Nat
          BY <1>0
        <4> QED BY <3>1, <3>2, <4>1, <4>2, <4>3
      <3> QED BY <3>3, <3>4
    <2>2. b # block => cache'[b] = cache[b]
      BY <1>0, <2>1
    <2>3. CASE b = block
      BY <1>0, <1>1, <1>5, <2>1, <2>3 DEF Settled, Entered
    <2>4. CASE b # block
      BY <1>0, <1>1, <2>1, <2>2, <2>4 DEF Settled, Entered
    <2> QED BY <2>3, <2>4
  <1>6. CASE CleanBlock
    <2>1. /\ phase = "clean"
          /\ \E d : cache' = [cache EXCEPT ![block] = d]
          /\ \/ block < Blocks /\ block' = block + 1 /\ phase' = "clean" /\ chunk' = chunk
             \/ block = Blocks /\ block' = 1 /\ phase' = "idle" /\ chunk' = chunk + 1
      BY <1>0, <1>6 DEF CleanBlock, FullBlock, StoreOnly
    <2>2. b # block => cache'[b] = cache[b]
      BY <1>0, <2>1
    <2>3. CASE b = block
      BY <1>0, <1>1, <1>6, <2>1, <2>3 DEF Settled, Entered
    <2>4. CASE b # block
      BY <1>0, <1>1, <2>1, <2>2, <2>4 DEF Settled, Entered
    <2> QED BY <2>3, <2>4
  <1>7. ~Abandon
    BY DEF Abandon
  <1> QED BY <1>2, <1>3, <1>4, <1>5, <1>6, <1>7 DEF Next, Done

LEMMA DirtyStep ==
    ASSUME IInv, [Next]_vars, NEW b \in BlockIds, DirtyInv(b) PROVE DirtyInv(b)'
  <1> SUFFICES ASSUME phase' # "abandoned", ~Settled(b)' PROVE DirtyInv(b)'
    BY DEF DirtyInv
  <1>1. phase # "abandoned" \/ UNCHANGED vars
    BY DEF Next, BeginChunk, DenoiseBlock, BeginCommit, CleanBlock, Abandon, Done
  <1>2. CASE UNCHANGED vars
    BY <1>2 DEF DirtyInv, Settled, Entered, vars
  <1>3. CASE phase # "abandoned"
    <2>1. CASE /\ Settled(b)' = Settled(b) /\ cache'[b] = cache[b]
               /\ ~Settled(b) => chunk' = chunk
      BY <1>3, <2>1 DEF DirtyInv, Settled
    <2>2. CASE DenoiseBlock /\ b = block /\ chunk' = chunk
      <3>1. /\ phase = "denoise" /\ step \in 0..Timesteps /\ step # CleanPass
            /\ FullBlock(block, step)
        BY <2>2, ConstantsAssumption DEF DenoiseBlock, IInv, TypeOK, CleanPass
      <3>2. PICK d \in Cache : cache' = [cache EXCEPT ![block] = d] /\ After(d, chunk, step)
        BY <3>1, FullBlockStep
      <3>3. cache'[b] = d
        BY <2>2, <3>2 DEF IInv, TypeOK
      <3> QED BY <2>2, <3>1, <3>2, <3>3 DEF DirtyInv, After
    <2> QED BY <1>3, <2>1, <2>2, SettledStep
  <1> QED BY <1>1, <1>2, <1>3

LEMMA ExtraHolds == Spec => []Extra
  <1>1. Init => Extra
    <2> SUFFICES ASSUME Init PROVE Extra
      OBVIOUS
    <2>1. CrossInv /\ BeforeInv
      BY DEF Init, CrossInv, BeforeInv
    <2>2. \A b \in BlockIds : Settled(b)
      BY DEF Init, Settled, Entered
    <2> QED BY <2>1, <2>2 DEF Extra, DirtyInv
  <1>2. IInv /\ Extra /\ [Next]_vars => Extra'
    BY CrossStep, BeforeStep, DirtyStep DEF Extra
  <1> QED BY <1>1, <1>2, InductiveInvariant, PTL DEF Spec

\* No forward reads a cross-attention cache that has not been filled: the
\* flag the caller passes is set behind the last block of the first forward.
THEOREM CrossIsAlwaysFilled == Spec => []CrossCacheFilled
  <1>1. Extra => CrossCacheFilled
    BY DEF Extra, CrossInv, CrossCacheFilled
  <1> QED BY <1>1, ExtraHolds, PTL

-----------------------------------------------------------------------------
(* The accounting *)

\* The window of n frames, as a set, and how many it has.
WindowOf(n) == {f \in 0..(n - 1) : f < Sink \/ f > n - 1 - (Size - Sink)}

LEMMA WindowSize ==
    ASSUME NEW n \in Nat \ {0}
    PROVE  /\ Cardinality(WindowOf(n)) = Least(n, Size)
           /\ n > Size =>
                /\ Cardinality({f \in WindowOf(n) : f < Sink}) = Sink
                /\ Cardinality(WindowOf(n) \ {f \in WindowOf(n) : f < Sink}) = Size - Sink
  <1> USE ConstantsAssumption
  <1>0. n \in Nat /\ n >= 1 /\ Size \in Nat /\ Sink \in Nat /\ Sink < Size
    OBVIOUS
  <1>1. CASE n <= Size
    <2>1. WindowOf(n) = 0..(n - 1)
      BY <1>0, <1>1 DEF WindowOf
    <2>2. Cardinality(0..(n - 1)) = n
      BY <1>0, FS_Interval
    <2> QED BY <1>0, <1>1, <2>1, <2>2 DEF Least
  <1>2. CASE n > Size
    <2> DEFINE S == 0..(Sink - 1)
               R == (n - (Size - Sink))..(n - 1)
    <2>1. /\ WindowOf(n) = S \cup R /\ S \cap R = {}
          /\ {f \in WindowOf(n) : f < Sink} = S
          /\ WindowOf(n) \ {f \in WindowOf(n) : f < Sink} = R
      <3>1. \A f : f \in WindowOf(n) <=> f \in S \/ f \in R
        BY <1>0, <1>2 DEF WindowOf
      <3>2. /\ \A f \in S : f < Sink /\ f \in Nat
            /\ \A f \in R : ~(f < Sink)
        BY <1>0, <1>2
      <3> HIDE DEF S, R
      <3> QED BY <3>1, <3>2
    <2>2. IsFiniteSet(S) /\ Cardinality(S) = Sink
      BY <1>0, FS_Interval
    <2>3. IsFiniteSet(R) /\ Cardinality(R) = Size - Sink
      <3>1. n - (Size - Sink) \in Int /\ n - 1 \in Int
        BY <1>0
      <3>2. IsFiniteSet(R) /\ Cardinality(R) =
                IF n - (Size - Sink) > n - 1 THEN 0 ELSE (n - 1) - (n - (Size - Sink)) + 1
        BY <3>1, FS_Interval
      <3> QED BY <1>0, <1>2, <3>2
    <2> HIDE DEF S, R
    <2>4. Cardinality(S \cup R) = Size
      <3>1. Cardinality(S \cup R) = Cardinality(S) + Cardinality(R) - Cardinality(S \cap R)
        BY <2>2, <2>3, FS_Union
      <3> QED BY <1>0, <2>1, <2>2, <2>3, <3>1, FS_EmptySet
    <2> QED BY <1>0, <1>2, <2>1, <2>2, <2>3, <2>4 DEF Least
  <1> QED BY <1>0, <1>1, <1>2

\* The frames in the cache of a block.
LEMMA FramesHeld ==
    ASSUME IInv, NEW b \in BlockIds, phase # "abandoned"
    PROVE  /\ Frames(b) = WindowOf(Entered(b))
           /\ Global(cache[b]) = Entered(b) /\ Entered(b) \in Nat
  <1>1. /\ cache[b] \in Cache /\ HoldsWindow(cache[b], Entered(b)) /\ Entered(b) \in Nat
    BY ConstantsAssumption DEF IInv, TypeOK, BlockInv, Entered
  <1>2. Global(cache[b]) = Entered(b) /\ Local(cache[b]) = Least(Entered(b), Size)
    BY <1>1 DEF HoldsWindow
  <1>3. CASE Entered(b) = 0
    <2>1. Frames(b) = {}
      BY <1>2, <1>3, ConstantsAssumption DEF Frames, Held, Least, Positions
    <2>2. WindowOf(0) = {}
      BY DEF WindowOf
    <2> QED BY <1>1, <1>2, <1>3, <2>1, <2>2
  <1>4. CASE Entered(b) # 0
    <2> DEFINE n == Entered(b) - 1
    <2>1. n \in Nat /\ Entered(b) = n + 1
      BY <1>1, <1>4
    <2> HIDE DEF n
    <2>2. Frames(b) = {f \in 0..n : f < Sink \/ f > n - (Size - Sink)}
      BY <1>1, <2>1, WindowFrames DEF Frames, Held
    <2>3. WindowOf(n + 1) = {f \in 0..n : f < Sink \/ f > n - (Size - Sink)}
      <3>1. ASSUME NEW f
            PROVE  f \in WindowOf(n + 1) <=>
                       f \in 0..n /\ (f < Sink \/ f > n - (Size - Sink))
        BY <2>1, ConstantsAssumption DEF WindowOf
      <3> QED BY <3>1
    <2> QED BY <1>1, <1>2, <2>1, <2>2, <2>3
  <1> QED BY <1>3, <1>4

\* The regime, sink and recent counts that occupancy_record of run_live.py
\* derives from two readings of the cursors are those of the frames that are
\* really in the cache, for every capacity above two and every number of sinks.
THEOREM OccupancyIsTrue == Spec => []OccupancyMatchesCache
  <1>1. IInv /\ Extra => OccupancyMatchesCache
    <2> DEFINE frames == {cache[1].k[i].frame : i \in {j \in Positions : j < cache[1].local}}
               sinks == {f \in frames : f < Sink}
               r == OccupancyRecord(before, CachePositions)
    <2> SUFFICES ASSUME IInv, Extra, phase = "idle", chunk > 0, Size > 2
                 PROVE  /\ r.rolled = (Cardinality(frames) < chunk)
                        /\ r.rolled = (r.regime = "rolled")
                        /\ r.rolled => /\ r.retained = Cardinality(sinks)
                                       /\ r.recent = Cardinality(frames \ sinks) - 1
                        /\ r.retained + r.recent + 1 = Cardinality(frames)
      BY DEF OccupancyMatchesCache
    <2> USE ConstantsAssumption
    <2>1. /\ chunk \in Nat \ {0} /\ 1 \in BlockIds /\ Entered(1) = chunk
          /\ Size \in Nat /\ Sink \in Nat /\ Sink < Size
      BY DEF IInv, TypeOK, BlockIds, Entered
    <2>2. CachePositions = CursorsOf(chunk) /\ before = CursorsOf(chunk - 1)
      BY IdleCursors DEF Extra, BeforeInv
    <2>3. frames = WindowOf(chunk)
      <3>1. cache[1].local = Local(cache[1])
        BY <2>1 DEF IInv, Mirrored, Local
      <3> QED BY <2>1, <3>1, FramesHeld DEF Frames, Held
    <2> HIDE DEF frames
    <2>4. /\ Cardinality(frames) = Least(chunk, Size)
          /\ chunk > Size => /\ Cardinality(sinks) = Sink
                             /\ Cardinality(frames \ sinks) = Size - Sink
      BY <2>1, <2>3, WindowSize
    <2> HIDE DEF sinks
    <2>5. /\ CachePositions.global = chunk /\ CachePositions.local = Least(chunk, Size)
          /\ before.local = Least(chunk - 1, Size)
      BY <2>2 DEF CursorsOf
    <2>6. CASE chunk > Size
      <3>1. /\ CachePositions.local = Size /\ before.local = Size
            /\ CachePositions.global > Size /\ Cardinality(frames) = Size
        BY <2>1, <2>4, <2>5, <2>6 DEF Least
      <3>2. r.rolled = TRUE
        BY <3>1 DEF OccupancyRecord
      <3>3. r.retained = Sink
        BY <2>1, <3>1 DEF OccupancyRecord, Least, AtLeastZero
      <3>4. r.recent = Size - 1 - Sink
        BY <2>1, <3>1 DEF OccupancyRecord, Least, AtLeastZero
      <3>5. r.regime = "rolled"
        <4>1. ~(before.local <= 1) /\ before.local > 1 /\ ~(before.local < Size)
              /\ before.local >= Size
          BY <2>1, <3>1
        <4> QED BY <4>1 DEF OccupancyRecord
      <3> HIDE DEF r
      <3>6. r.rolled = (Cardinality(frames) < chunk)
        BY <2>1, <2>6, <3>1, <3>2
      <3>7. r.recent = Cardinality(frames \ sinks) - 1
        BY <2>1, <2>4, <2>6, <3>4
      <3>8. r.retained + r.recent + 1 = Cardinality(frames)
        BY <2>1, <3>1, <3>3, <3>4
      <3> QED BY <2>4, <2>6, <3>2, <3>3, <3>5, <3>6, <3>7, <3>8
    <2>7. CASE ~(chunk > Size)
      <3>1. /\ CachePositions.local = chunk /\ before.local = chunk - 1
            /\ ~(CachePositions.global > Size) /\ Cardinality(frames) = chunk
        BY <2>1, <2>4, <2>5, <2>7 DEF Least
      <3>2. r.rolled = FALSE
        <4>1. r.rolled = (CachePositions.global > Size)
          BY DEF OccupancyRecord
        <4>2. (CachePositions.global > Size) = FALSE
          BY <3>1
        <4> HIDE DEF r
        <4> QED BY <4>1, <4>2
      <3>3. r.retained = 0
        BY <2>1, <3>1 DEF OccupancyRecord
      <3>4. r.recent = chunk - 1
        BY <2>1, <3>1 DEF OccupancyRecord, AtLeastZero
      <3>5. r.regime # "rolled"
        <4>1. ~(before.local > 1 /\ before.local >= Size)
          BY <2>1, <2>7, <3>1
        <4> QED BY <4>1 DEF OccupancyRecord
      <3> HIDE DEF r
      <3>6. r.rolled = (Cardinality(frames) < chunk)
        <4>1. (Cardinality(frames) < chunk) = FALSE
          BY <2>1, <3>1
        <4> QED BY <3>2, <4>1
      <3>7. r.retained + r.recent + 1 = Cardinality(frames)
        BY <2>1, <3>1, <3>3, <3>4
      <3> QED BY <3>2, <3>5, <3>6, <3>7
    <2> QED BY <2>6, <2>7
  <1> QED BY <1>1, InductiveInvariant, ExtraHolds, PTL

-----------------------------------------------------------------------------
(* Refinement of the rolling window *)

LEMMA WhatIsDirty ==
    ASSUME IInv, Extra, NEW b \in BlockIds, phase # "abandoned"
    PROVE  DirtyFrames(b) = IF Settled(b) THEN {} ELSE {chunk}
  <1> DEFINE c == cache[b]
  <1> USE ConstantsAssumption
  <1>0. /\ c \in Cache /\ chunk \in Nat /\ Entered(b) \in {chunk, chunk + 1}
        /\ HoldsWindow(c, Entered(b)) /\ CleanBelow(c, chunk)
        /\ phase = "clean" /\ b < block => CleanBelow(c, chunk + 1)
        /\ DirtyInv(b)
    BY DEF IInv, TypeOK, BlockInv, Entered, Extra
  <1>1. DirtyFrames(b) = {c.k[i].frame : i \in
                             {j \in Positions : j < Local(c) /\ c.k[j].pass # CleanPass}}
    BY DEF DirtyFrames, Held
  <1> HIDE DEF c
  <1>2. ASSUME NEW i \in Positions, i < Local(c)
        PROVE  /\ c.k[i].frame = FrameAt(i, Entered(b)) /\ c.k[i].frame < Entered(b)
               /\ c.k[i].frame \in Int
    <2>1. c.k[i].frame = FrameAt(i, Entered(b)) /\ Local(c) = Least(Entered(b), Size)
      BY <1>0, <1>2 DEF HoldsWindow
    <2> QED BY <1>0, <1>2, <2>1 DEF FrameAt, Least, Positions
  <1>3. CASE Settled(b)
    <2>1. CleanBelow(c, Entered(b))
      BY <1>0, <1>3 DEF Settled
    <2>2. \A i \in Positions : i < Local(c) => c.k[i].pass = CleanPass
      BY <1>2, <2>1 DEF CleanBelow
    <2> QED BY <1>1, <1>3, <2>2
  <1>4. CASE ~Settled(b)
    <2>1. Entered(b) = chunk + 1
      BY <1>0, <1>4 DEF Settled
    <2>2. ASSUME NEW i \in Positions, i < Local(c), c.k[i].pass # CleanPass
          PROVE  c.k[i].frame = chunk
      BY <1>0, <1>2, <2>1, <2>2 DEF CleanBelow
    <2>3. \E i \in Positions : i < Local(c) /\ c.k[i].frame = chunk
                               /\ c.k[i].pass # CleanPass
      <3> DEFINE i == Local(c) - 1
      <3>1. i \in Positions /\ i < Local(c) /\ FrameAt(i, chunk + 1) = chunk
        BY <1>0, <2>1 DEF HoldsWindow, FrameAt, Least, Positions
      <3> HIDE DEF i
      <3>2. c.k[i].frame = chunk
        BY <1>2, <2>1, <3>1
      <3> QED BY <1>0, <1>4, <3>1, <3>2 DEF DirtyInv, c
    <2> QED BY <1>1, <1>4, <2>2, <2>3
  <1> QED BY <1>3, <1>4

\* The cache of block b as the rolling window of the frames that entered it.
AsWindow(b) ==
    /\ Global(cache[b]) = Entered(b)
    /\ Frames(b) = WindowOf(Entered(b))
    /\ DirtyFrames(b) = IF Settled(b) THEN {} ELSE {chunk}

LEMMA IsWindow ==
    IInv /\ Extra /\ phase # "abandoned" => \A b \in BlockIds : AsWindow(b)
  BY FramesHeld, WhatIsDirty DEF AsWindow

LEMMA StaysWindow ==
    (IInv /\ Extra /\ phase # "abandoned" => \A b \in BlockIds : AsWindow(b))'
  BY IsWindow, PTL

\* The three steps of RollingWindow, for the cache of block b.
Window(b) == <<Global(cache[b]), Frames(b), DirtyFrames(b)>>

Enters(b) ==
    /\ DirtyFrames(b) = {}
    /\ Global(cache[b])' = Global(cache[b]) + 1
    /\ Frames(b)' = {f \in Frames(b) \cup {Global(cache[b])} :
                         f < Sink \/ f > Global(cache[b]) - (Size - Sink)}
    /\ DirtyFrames(b)' = {Global(cache[b])}

Commits(b) ==
    /\ DirtyFrames(b) # {}
    /\ DirtyFrames(b)' = {}
    /\ UNCHANGED <<Global(cache[b]), Frames(b)>>

\* One frame more in a window.
LEMMA OneMore ==
    ASSUME NEW n \in Nat
    PROVE  WindowOf(n + 1) = {f \in WindowOf(n) \cup {n} : f < Sink \/ f > n - (Size - Sink)}
  <1> USE ConstantsAssumption
  <1>1. ASSUME NEW f
        PROVE  f \in WindowOf(n + 1) <=>
                   f \in WindowOf(n) \cup {n} /\ (f < Sink \/ f > n - (Size - Sink))
    BY DEF WindowOf
  <1> QED BY <1>1

LEMMA BlockRolls ==
    ASSUME IInv, IInv', Extra, Extra', [Next]_vars, NEW b \in BlockIds
    PROVE  Enters(b) \/ Commits(b) \/ UNCHANGED Window(b)
  <1>1. CASE Abandon \/ Done \/ UNCHANGED vars
    <2>1. cache' = cache
      BY <1>1 DEF Abandon, Done, vars
    <2> QED BY <2>1 DEF Window, Frames, DirtyFrames, Held, Local, Global
  <1>2. CASE ~(Abandon \/ Done \/ UNCHANGED vars)
    <2>1. phase # "abandoned" /\ phase' # "abandoned"
      BY <1>2 DEF Next, BeginChunk, DenoiseBlock, BeginCommit, CleanBlock
    <2>2. /\ Frames(b) = WindowOf(Entered(b)) /\ Global(cache[b]) = Entered(b)
          /\ DirtyFrames(b) = IF Settled(b) THEN {} ELSE {chunk}
      BY <2>1, IsWindow DEF AsWindow
    <2>3. /\ Frames(b)' = WindowOf(Entered(b)') /\ Global(cache[b])' = Entered(b)'
          /\ DirtyFrames(b)' = IF Settled(b)' THEN {} ELSE {chunk'}
      <3>1. AsWindow(b)'
        BY <2>1, StaysWindow
      <3> QED BY <3>1 DEF AsWindow, WindowOf
    <2>4. CASE Settled(b)' = Settled(b) /\ Entered(b)' = Entered(b)
               /\ (~Settled(b) => chunk' = chunk)
      BY <2>2, <2>3, <2>4 DEF Window
    <2>5. CASE DenoiseBlock /\ ~Settled(b)' /\ chunk' = chunk /\ Entered(b)' = chunk + 1
               /\ (Settled(b) => Entered(b) = chunk) /\ (~Settled(b) => Entered(b) = chunk + 1)
      <3>1. CASE Settled(b)
        <4>1. chunk \in Nat
          BY <2>1, SettledStep
        <4>2. WindowOf(chunk + 1) = {f \in WindowOf(chunk) \cup {chunk} :
                                         f < Sink \/ f > chunk - (Size - Sink)}
          BY <4>1, OneMore
        <4> QED BY <2>2, <2>3, <2>5, <3>1, <4>2 DEF Enters
      <3>2. CASE ~Settled(b)
        BY <2>2, <2>3, <2>5, <3>2 DEF Window
      <3> QED BY <3>1, <3>2
    <2>6. CASE ~Settled(b) /\ Settled(b)' /\ Entered(b)' = Entered(b)
      BY <2>2, <2>3, <2>6 DEF Commits
    <2>7. \/ /\ Settled(b)' = Settled(b) /\ Entered(b)' = Entered(b)
             /\ ~Settled(b) => chunk' = chunk
          \/ /\ DenoiseBlock /\ ~Settled(b)' /\ chunk' = chunk /\ Entered(b)' = chunk + 1
             /\ Settled(b) => Entered(b) = chunk
             /\ ~Settled(b) => Entered(b) = chunk + 1
          \/ ~Settled(b) /\ Settled(b)' /\ Entered(b)' = Entered(b)
      BY <2>1, SettledStep
    <2> QED BY <2>4, <2>5, <2>6, <2>7
  <1> QED BY <1>1, <1>2

LEMMA InitWindow ==
    ASSUME Init, NEW b \in BlockIds
    PROVE  Global(cache[b]) = 0 /\ Frames(b) = {} /\ DirtyFrames(b) = {}
  <1>1. Global(cache[b]) = 0 /\ Local(cache[b]) = 0
    BY DEF Init, Global, Local
  <1>2. Held(b) = {}
    BY <1>1, ConstantsAssumption DEF Held, Positions
  <1> QED BY <1>1, <1>2 DEF Frames, DirtyFrames

\* The caches of the first block, which runs the clean pass in full, and of
\* the last, which only stores in it, implement the rolling window: eviction
\* and clean-up happen once for each frame, whatever the number of forwards.
THEOREM BlocksAlwaysRoll == Spec => BlocksRoll
  <1> USE ConstantsAssumption
  <1>1. 1 \in BlockIds /\ Blocks \in BlockIds
    BY DEF BlockIds
  <1>2. Init => FirstWindow!Init /\ LastWindow!Init
    BY <1>1, InitWindow DEF FirstWindow!Init, LastWindow!Init
  <1>3. IInv /\ IInv' /\ Extra /\ Extra' /\ [Next]_vars =>
            [FirstWindow!Next]_(FirstWindow!vars) /\ [LastWindow!Next]_(LastWindow!vars)
    <2> SUFFICES ASSUME IInv, IInv', Extra, Extra', [Next]_vars
                 PROVE  /\ [FirstWindow!Next]_(FirstWindow!vars)
                        /\ [LastWindow!Next]_(LastWindow!vars)
      OBVIOUS
    <2>1. [FirstWindow!Next]_(FirstWindow!vars)
      <3>1. Enters(1) \/ Commits(1) \/ UNCHANGED Window(1)
        BY <1>1, BlockRolls
      <3> QED BY <3>1 DEF FirstWindow!Next, FirstWindow!vars, FirstWindow!Enter,
                          FirstWindow!Commit, Enters, Commits, Window
    <2>2. [LastWindow!Next]_(LastWindow!vars)
      <3>1. Enters(Blocks) \/ Commits(Blocks) \/ UNCHANGED Window(Blocks)
        BY <1>1, BlockRolls
      <3> QED BY <3>1 DEF LastWindow!Next, LastWindow!vars, LastWindow!Enter,
                          LastWindow!Commit, Enters, Commits, Window
    <2> QED BY <2>1, <2>2
  <1> QED BY <1>2, <1>3, InductiveInvariant, ExtraHolds, PTL
             DEF Spec, BlocksRoll, FirstWindow!Spec, LastWindow!Spec
=============================================================================
