------------------------- MODULE BatchSessionProofs -------------------------
(***************************************************************************)
(* Proofs about a recorded session, for any number of chunks and every     *)
(* combination of the options: rows are whole, the decoder follows the     *)
(* session, and success means what it says.                                *)
(*                                                                         *)
(* The argument: the place of the host and the chunk of the loop determine *)
(* what the caches, the decoder, the VAE stream, the rows, the latents and *)
(* the probe hold.                                                         *)
(***************************************************************************)
EXTENDS BatchSession, SequenceTheorems, TLAPS

\* The caches: exact before the current chunk, untouched behind it.
CacheInv ==
    /\ \A c \in Chunks : c < chunk => kv[c] = "clean"
    /\ \A c \in Chunks : c > chunk => kv[c] = "empty"
    /\ pc \in {"start", "loop"} /\ chunk \in Chunks => kv[chunk] = "empty"
    /\ pc = "commit" => kv[chunk] = "noisy"
    /\ pc \in {"generated", "decode", "begin", "visible"} /\ ~Deferred => kv[chunk] = "clean"
    /\ pc \in {"drain", "row", "enqueue", "statistics"} => kv[chunk] = "clean"

\* The loop runs through the planned chunks, in the schedule that was asked for.
LoopInv ==
    /\ chunk <= Planned
    /\ pc \in {"commit", "generated", "decode", "begin", "visible", "drain", "row",
               "enqueue", "statistics"} => chunk < Planned
    /\ pc \in {"synchronize", "finish", "close", "write"} => chunk = Planned
    /\ pc = "commit" => ~Deferred
    /\ pc \in {"enqueue", "statistics", "synchronize", "finish"} => opts.overlap
    /\ pc \in {"begin", "drain"} => opts.taehv
    /\ pc = "decode" => ~opts.taehv
    /\ pc \in {"decode", "begin", "visible", "drain", "row"} => ~opts.overlap
    /\ opts.overlap /\ opts.taehv => pc \in {"start", "done"}
    /\ pc = "row" => frames[chunk] = "all"
    /\ pc = "start" => chunk = 0
    /\ status # "running" => pc = "done"
    /\ status = "success" => chunk = Planned

Decoding(c) == [op |-> "decode", chunk |-> c]
Projecting(c) == [op |-> "project", chunk |-> c]

\* The VAE stream has at most the decoding of the last chunk and the
\* projection of the current one before it.
StreamInv ==
    /\ vaeq \in {<<>>, <<Decoding(chunk - 1)>>}
                \cup (IF pc \in {"statistics", "done"}
                      THEN {<<Projecting(chunk)>>, <<Decoding(chunk - 1), Projecting(chunk)>>}
                      ELSE {})
    /\ pc \in {"finish", "close", "write"} => vaeq = <<>>
    /\ ~opts.overlap => vaeq = <<>>

Waiting == IF vaeq # <<>> /\ Head(vaeq).op = "decode" THEN 1 ELSE 0

\* The decoder has consumed the chunks up to here, and keeps at most the rest
\* of the current one.
DecoderInv ==
    /\ \A i \in 1..Len(fed) : fed[i] = i - 1
    /\ pc \in {"visible", "drain", "row"} => Len(fed) = chunk + 1
    /\ pc \notin {"visible", "drain", "row", "done"} => Len(fed) = chunk - Waiting
    /\ \A c \in Chunks : frames[c] # "mixed"
    /\ pc # "done" => \A c \in Chunks :
           /\ c < chunk - Waiting => frames[c] = "all"
           /\ c = chunk /\ pc \in {"visible", "drain"} =>
                  frames[c] = IF opts.taehv THEN "first" ELSE "all"
    /\ inside # NoChunk => opts.taehv /\ pc \in {"visible", "drain", "done"}

\* The rows, and in the overlapped schedule what waits to become one, are the
\* chunks so far.
RowsInv ==
    /\ \A i \in 1..Len(rows) :
           rows[i] = [chunk |-> i - 1, frames |-> "all", kv |-> "clean"]
    /\ pc # "done" => Len(rows) + Len(pending) = chunk
    /\ \A i \in 1..Len(pending) : pending[i] = Len(rows) + i - 1
    /\ ~opts.overlap \/ pc \in {"close", "write"} => pending = <<>>
    /\ status = "success" => Len(rows) = Planned /\ pending = <<>>

LatentsInv ==
    /\ opts.save /\ ~opts.overlap =>
           /\ pc \in {"start", "loop", "commit", "generated", "close"} => Len(latents) = chunk
           /\ pc \in {"decode", "begin", "visible", "drain", "row"} => Len(latents) = chunk + 1
    /\ opts.overlap => latents = <<>>
    /\ (pc = "write" \/ status = "success") /\ opts.save => saved /\ Len(latents) = Planned

\* The probe is in place for three chunks and sees both passes of each.
Asked(c) == opts.probeFrom <= c /\ c <= opts.probeFrom + 2

Kinds(c) ==
    IF c < chunk THEN {"denoise", "clean"}
    ELSE IF c > chunk \/ pc \in {"start", "loop"} THEN {}
    ELSE IF pc = "commit" THEN {"denoise"}
    ELSE {"denoise", "clean"}

ProbeInv ==
    opts.probeFrom >= 0 /\ ~Deferred =>
        /\ pc \in {"start", "loop"} =>
               probe.at = IF chunk <= opts.probeFrom THEN "none"
                          ELSE IF Asked(chunk) THEN "on" ELSE "off"
        /\ pc \in {"commit", "generated"} =>
               probe.at = IF chunk < opts.probeFrom THEN "none"
                          ELSE IF Asked(chunk) THEN "on" ELSE "off"
        /\ pc \in {"decode", "begin", "visible", "drain", "row", "enqueue", "statistics"} =>
               probe.at = IF chunk < opts.probeFrom THEN "none"
                          ELSE IF Asked(chunk + 1) THEN "on" ELSE "off"
        /\ pc \notin {"synchronize", "finish", "close", "write", "done"} =>
               \A c \in Chunks, k \in {"denoise", "clean"} :
                   <<c, k>> \in probe.calls <=> Asked(c) /\ k \in Kinds(c)
        /\ pc \in {"synchronize", "finish", "close", "write"} \/ status = "success" =>
               \A c \in Chunks, k \in {"denoise", "clean"} :
                   <<c, k>> \in probe.calls <=> Asked(c) /\ c < Planned

IInv ==
    /\ TypeOK
    /\ LoopInv
    /\ CacheInv
    /\ StreamInv
    /\ DecoderInv
    /\ RowsInv
    /\ LatentsInv
    /\ ProbeInv

USE ConstantsAssumption

-----------------------------------------------------------------------------
(* Facts the steps need *)

LEMMA Bounds ==
    ASSUME IInv
    PROVE  /\ chunk \in Nat /\ chunk <= Planned
           /\ Planned \in 1..ChunkCount /\ ChunkCount \in Nat
           /\ chunk < Planned => chunk \in Chunks
           /\ {opts.overlap, opts.taehv, opts.defer, opts.save} \subseteq BOOLEAN
           /\ opts.probeFrom \in Int
<1>1. opts \in Options /\ chunk \in 0..ChunkCount
  BY DEF IInv, TypeOK
<1>2. opts.limit \in 0..ChunkCount /\ Planned \in 1..ChunkCount
  BY <1>1 DEF Options, Planned
<1> QED
  BY <1>1, <1>2 DEF IInv, LoopInv, Options, Chunks

\* run_session ends, with what it has.
Stops ==
    /\ pc # "done" /\ pc' = "done"
    /\ status' \in {status, "failure"}
    /\ fault' \in BOOLEAN
    /\ UNCHANGED <<opts, chunk, kv, decoding, queues, rows, latents, saved>>
    /\ probe' \in {probe, ProbeReport(probe)}

LEMMA StopsStep == IInv /\ Stops => IInv'
<1> SUFFICES ASSUME IInv, Stops PROVE IInv'
  OBVIOUS
<1>1. TypeOK'
  <2>1. probe' \in [at : {"none", "on", "off"},
                   calls : SUBSET (Chunks \X {"denoise", "clean"})]
    <3>1. probe \in [at : {"none", "on", "off"},
                   calls : SUBSET (Chunks \X {"denoise", "clean"})]
      BY DEF IInv, TypeOK
    <3>2. ProbeReport(probe) \in [at : {"none", "on", "off"},
                   calls : SUBSET (Chunks \X {"denoise", "clean"})]
      BY <3>1 DEF ProbeReport
    <3> QED
      BY <3>1, <3>2 DEF Stops
  <2> QED
    BY <2>1 DEF IInv, TypeOK, Stops, decoding, queues
<1>2. LoopInv' /\ CacheInv'
  BY DEF IInv, LoopInv, CacheInv, Stops, Planned, Deferred, decoding
<1>3. StreamInv' /\ DecoderInv'
  BY DEF IInv, LoopInv, StreamInv, DecoderInv, Stops, decoding, queues, Waiting
<1>4. RowsInv' /\ LatentsInv' /\ ProbeInv'
  BY DEF IInv, LoopInv, RowsInv, LatentsInv, ProbeInv, Stops, Planned, Deferred, Asked,
    queues
<1> QED
  BY <1>1, <1>2, <1>3, <1>4 DEF IInv

LEMMA InitHolds == Init => IInv
<1> SUFFICES ASSUME Init PROVE IInv
  OBVIOUS
<1>1. opts.probeFrom \in Int /\ Planned \in 1..ChunkCount
  BY DEF Init, Options, Planned
<1>2. TypeOK
  <2>1. probe \in [at : {"none", "on", "off"}, calls : SUBSET (Chunks \X {"denoise", "clean"})]
    BY DEF Init
  <2>2. /\ kv \in [Chunks -> {"empty", "noisy", "clean"}]
        /\ frames \in [Chunks -> {"none", "first", "all", "mixed"}]
        /\ chunk \in 0..ChunkCount
    BY DEF Init
  <2>3. /\ <<>> \in Seq(Chunks)
        /\ <<>> \in Seq([op : {"project", "decode"}, chunk : Chunks])
        /\ <<>> \in Seq([chunk : Chunks, frames : {"none", "first", "all", "mixed"},
                         kv : {"empty", "noisy", "clean"}])
    OBVIOUS
  <2>4. /\ opts \in Options /\ inside \in Chunks \cup {NoChunk}
        /\ saved \in BOOLEAN /\ fault \in BOOLEAN
        /\ pc = "start" /\ status = "running"
        /\ fed = <<>> /\ vaeq = <<>> /\ pending = <<>> /\ rows = <<>> /\ latents = <<>>
    BY DEF Init
  <2> QED
    BY <2>1, <2>2, <2>3, <2>4 DEF TypeOK
<1>3. LoopInv /\ CacheInv /\ StreamInv /\ DecoderInv
  BY <1>1 DEF Init, LoopInv, CacheInv, StreamInv, DecoderInv, Waiting, Chunks
<1>4. RowsInv /\ LatentsInv /\ ProbeInv
  BY <1>1 DEF Init, RowsInv, LatentsInv, ProbeInv, Kinds, Asked, Chunks
<1> QED
  BY <1>2, <1>3, <1>4 DEF IInv

-----------------------------------------------------------------------------
(* The steps that only move the host *)

\* What a step needs that touches neither chunk nor anything the probe, the
\* latents and the rows depend on.
LEMMA QuietRows ==
    ASSUME IInv, UNCHANGED <<opts, chunk, pending, rows, status>>, pc # "done", pc' # "done",
           pc' \in {"close", "write"} => ~opts.overlap \/ pending = <<>>
    PROVE  RowsInv'
BY DEF IInv, LoopInv, RowsInv, Planned

LEMMA StartStep == IInv /\ Start => IInv'
<1> SUFFICES ASSUME IInv, Start PROVE IInv'
  OBVIOUS
<1>1. CASE opts.overlap /\ opts.taehv
  <2>1. Stops
    BY <1>1 DEF Start, Raise, Stops, IInv, TypeOK
  <2> QED
    BY <2>1, StopsStep
<1>2. CASE ~(opts.overlap /\ opts.taehv)
  <2>1. /\ pc = "start" /\ pc' = "loop"
        /\ UNCHANGED <<opts, chunk, kv, fed, inside, frames, vaeq, pending, rows, latents,
                       probe, saved, status, fault>>
    BY <1>2 DEF Start, Host, decoding, queues
  <2>2. TypeOK' /\ LoopInv' /\ CacheInv'
    BY <1>2, <2>1, Bounds DEF IInv, TypeOK, LoopInv, CacheInv, Planned, Deferred
  <2>3. StreamInv' /\ DecoderInv' /\ RowsInv'
    BY <2>1, QuietRows DEF IInv, LoopInv, StreamInv, DecoderInv, Waiting
  <2>4. LatentsInv' /\ ProbeInv'
    BY <2>1 DEF IInv, LoopInv, LatentsInv, ProbeInv, Deferred, Asked, Kinds, Planned
  <2> QED
    BY <2>2, <2>3, <2>4 DEF IInv
<1> QED
  BY <1>1, <1>2

LEMMA LoopEndsStep == IInv /\ LoopEnds => IInv'
<1> SUFFICES ASSUME IInv, LoopEnds PROVE IInv'
  OBVIOUS
<1>1. /\ pc = "loop" /\ chunk = Planned
      /\ pc' = IF opts.overlap THEN "synchronize" ELSE "close"
      /\ UNCHANGED <<opts, chunk, kv, fed, inside, frames, vaeq, pending, rows, latents,
                     probe, saved, status, fault>>
  BY DEF LoopEnds, Host, decoding, queues
<1>2. TypeOK' /\ LoopInv' /\ CacheInv'
  BY <1>1, Bounds DEF IInv, TypeOK, LoopInv, CacheInv, Planned, Deferred
<1>3. StreamInv' /\ DecoderInv' /\ RowsInv'
  BY <1>1, QuietRows DEF IInv, LoopInv, StreamInv, DecoderInv, Waiting
<1>4. LatentsInv'
  BY <1>1 DEF IInv, LoopInv, LatentsInv, Planned
<1>5. ProbeInv'
  BY <1>1, Bounds DEF IInv, LoopInv, ProbeInv, Deferred, Asked, Kinds, Planned, Chunks
<1> QED
  BY <1>2, <1>3, <1>4, <1>5 DEF IInv

\* The host waits for the VAE stream, and later finds nothing pending.
LEMMA SynchronizeStep == IInv /\ (Synchronize \/ AllFinished) => IInv'
<1> SUFFICES ASSUME IInv, Synchronize \/ AllFinished PROVE IInv'
  OBVIOUS
<1>1. /\ \/ pc = "synchronize" /\ pc' = "finish" /\ vaeq = <<>>
         \/ pc = "finish" /\ pc' = "close" /\ pending = <<>>
      /\ UNCHANGED <<opts, chunk, kv, fed, inside, frames, vaeq, pending, rows, latents,
                     probe, saved, status, fault>>
  BY DEF Synchronize, AllFinished, Host, decoding, queues
<1>2. TypeOK' /\ LoopInv' /\ CacheInv'
  BY <1>1 DEF IInv, TypeOK, LoopInv, CacheInv, Planned, Deferred
<1>3. StreamInv' /\ DecoderInv' /\ RowsInv'
  BY <1>1, QuietRows DEF IInv, LoopInv, StreamInv, DecoderInv, Waiting
<1>4. LatentsInv' /\ ProbeInv'
  BY <1>1 DEF IInv, LoopInv, LatentsInv, ProbeInv, Deferred, Asked, Kinds, Planned
<1> QED
  BY <1>2, <1>3, <1>4 DEF IInv

-----------------------------------------------------------------------------
(* Forwards of the current chunk *)

\* What the denoising, the clean pass and the projection leave alone.
LEMMA QuietDecoder ==
    ASSUME IInv, UNCHANGED <<opts, chunk, fed, inside, frames, vaeq>>,
           pc \in {"loop", "commit", "generated", "enqueue"},
           pc' \notin {"visible", "drain", "row", "done", "finish", "close",
                    "write"}
    PROVE  StreamInv' /\ DecoderInv'
BY DEF IInv, LoopInv, StreamInv, DecoderInv, Waiting

LEMMA DenoiseStep == IInv /\ Denoise => IInv'
<1> SUFFICES ASSUME IInv, Denoise PROVE IInv'
  OBVIOUS
<1>1. /\ pc = "loop" /\ pc' = (IF Deferred THEN "generated" ELSE "commit")
      /\ kv' = [kv EXCEPT ![chunk] = "noisy"] /\ chunk \in Chunks /\ chunk < Planned
      /\ UNCHANGED <<opts, chunk, fed, inside, frames, vaeq, pending, rows, latents,
                     saved, status, fault>>
  BY Bounds DEF Denoise, Host, decoding, queues
<1> DEFINE p == IF chunk = opts.probeFrom THEN [probe EXCEPT !.at = "on"] ELSE probe
<1>2. /\ p \in [at : {"none", "on", "off"}, calls : SUBSET (Chunks \X {"denoise", "clean"})]
      /\ p.at = (IF chunk = opts.probeFrom THEN "on" ELSE probe.at)
      /\ p.calls = probe.calls
      /\ probe' = (IF p.at = "on" THEN [p EXCEPT !.calls = @ \cup {<<chunk, "denoise">>}]
                   ELSE p)
  BY <1>1 DEF Denoise, Recorded, IInv, TypeOK
<1> HIDE DEF p
<1>2a. /\ probe'.at = p.at
       /\ probe'.calls = (IF p.at = "on" THEN probe.calls \cup {<<chunk, "denoise">>}
                          ELSE probe.calls)
       /\ probe' \in [at : {"none", "on", "off"},
                      calls : SUBSET (Chunks \X {"denoise", "clean"})]
  BY <1>1, <1>2
<1>3. TypeOK'
  BY <1>1, <1>2a DEF IInv, TypeOK
<1>4. LoopInv' /\ CacheInv'
  BY <1>1, Bounds DEF IInv, TypeOK, LoopInv, CacheInv, Planned, Deferred
<1>5. StreamInv' /\ DecoderInv' /\ RowsInv' /\ LatentsInv'
  BY <1>1, QuietDecoder, QuietRows DEF IInv, LoopInv, LatentsInv
<1>6. ProbeInv'
  <2> SUFFICES ASSUME opts.probeFrom >= 0, ~Deferred PROVE ProbeInv'
    BY <1>1 DEF ProbeInv, Deferred
  <2>1. /\ pc' = "commit" /\ status' # "success"
        /\ probe.at = IF chunk <= opts.probeFrom THEN "none"
                      ELSE IF Asked(chunk) THEN "on" ELSE "off"
    BY <1>1 DEF IInv, LoopInv, ProbeInv
  <2>2. probe'.at = IF chunk < opts.probeFrom THEN "none"
                    ELSE IF Asked(chunk) THEN "on" ELSE "off"
    BY <1>2, <1>2a, <2>1, Bounds DEF Asked
  <2>3. probe'.calls = IF Asked(chunk) THEN probe.calls \cup {<<chunk, "denoise">>}
                       ELSE probe.calls
    BY <1>2, <1>2a, <2>1, Bounds DEF Asked
  <2>4. ASSUME NEW c \in Chunks, NEW k \in {"denoise", "clean"}
        PROVE  <<c, k>> \in probe'.calls <=> Asked(c)' /\ k \in Kinds(c)'
    <3>1. /\ <<c, k>> \in probe.calls <=> Asked(c) /\ k \in Kinds(c)
          /\ Asked(c)' <=> Asked(c)
          /\ c \in Int
      <4>1. <<c, k>> \in probe.calls <=> Asked(c) /\ k \in Kinds(c)
        BY <1>1 DEF IInv, ProbeInv
      <4> QED
        BY <1>1, <4>1 DEF Asked, Chunks
    <3>2. CASE c = chunk
      <4>1. Kinds(c) = {} /\ Kinds(c)' = {"denoise"}
        BY <1>1, <2>1, <3>2, Bounds DEF Kinds
      <4> QED
        BY <2>3, <3>1, <3>2, <4>1
    <3>3. CASE c # chunk
      <4>1. Kinds(c)' = Kinds(c)
        BY <1>1, <2>1, <3>1, <3>3, Bounds DEF Kinds
      <4> QED
        BY <2>3, <3>1, <3>3, <4>1
    <3> QED
      BY <3>2, <3>3
  <2> QED
    BY <1>1, <2>1, <2>2, <2>4 DEF ProbeInv, Asked
<1> QED
  BY <1>3, <1>4, <1>5, <1>6 DEF IInv

LEMMA CommitStep == IInv /\ CommitAtOnce => IInv'
<1> SUFFICES ASSUME IInv, CommitAtOnce PROVE IInv'
  OBVIOUS
<1>1. /\ pc = "commit" /\ pc' = "generated" /\ ~Deferred
      /\ kv' = [kv EXCEPT ![chunk] = "clean"] /\ chunk \in Chunks /\ chunk < Planned
      /\ UNCHANGED <<opts, chunk, fed, inside, frames, vaeq, pending, rows, latents,
                     saved, status, fault>>
  BY Bounds DEF CommitAtOnce, CleanPass, Host, decoding, queues, IInv, LoopInv
<1>2. /\ probe'.at = probe.at
      /\ probe'.calls = (IF probe.at = "on" THEN probe.calls \cup {<<chunk, "clean">>}
                         ELSE probe.calls)
      /\ probe' \in [at : {"none", "on", "off"},
                     calls : SUBSET (Chunks \X {"denoise", "clean"})]
  BY <1>1 DEF CommitAtOnce, CleanPass, Recorded, IInv, TypeOK
<1>3. TypeOK'
  BY <1>1, <1>2 DEF IInv, TypeOK
<1>4. LoopInv' /\ CacheInv'
  BY <1>1, Bounds DEF IInv, TypeOK, LoopInv, CacheInv, Planned, Deferred
<1>5. StreamInv' /\ DecoderInv' /\ RowsInv' /\ LatentsInv'
  BY <1>1, QuietDecoder, QuietRows DEF IInv, LoopInv, LatentsInv
<1>6. ProbeInv'
  <2> SUFFICES ASSUME opts.probeFrom >= 0, ~Deferred PROVE ProbeInv'
    BY <1>1 DEF ProbeInv, Deferred
  <2>1. /\ status' # "success"
        /\ probe.at = IF chunk < opts.probeFrom THEN "none"
                      ELSE IF Asked(chunk) THEN "on" ELSE "off"
    BY <1>1 DEF IInv, LoopInv, ProbeInv
  <2>2. probe'.calls = IF Asked(chunk) THEN probe.calls \cup {<<chunk, "clean">>}
                       ELSE probe.calls
    BY <1>2, <2>1, Bounds DEF Asked
  <2>3. ASSUME NEW c \in Chunks, NEW k \in {"denoise", "clean"}
        PROVE  <<c, k>> \in probe'.calls <=> Asked(c)' /\ k \in Kinds(c)'
    <3>1. /\ <<c, k>> \in probe.calls <=> Asked(c) /\ k \in Kinds(c)
          /\ Asked(c)' <=> Asked(c)
          /\ c \in Int
      <4>1. <<c, k>> \in probe.calls <=> Asked(c) /\ k \in Kinds(c)
        BY <1>1 DEF IInv, ProbeInv
      <4> QED
        BY <1>1, <4>1 DEF Asked, Chunks
    <3>2. CASE c = chunk
      <4>1. Kinds(c) = {"denoise"} /\ Kinds(c)' = {"denoise", "clean"}
        BY <1>1, <3>2, Bounds DEF Kinds
      <4> QED
        BY <2>2, <3>1, <3>2, <4>1
    <3>3. CASE c # chunk
      <4>1. Kinds(c)' = Kinds(c)
        BY <1>1, <3>1, <3>3, Bounds DEF Kinds
      <4> QED
        BY <2>2, <3>1, <3>3, <4>1
    <3> QED
      BY <3>2, <3>3
  <2> QED
    BY <1>1, <1>2, <2>1, <2>3 DEF ProbeInv, Asked
<1> QED
  BY <1>3, <1>4, <1>5, <1>6 DEF IInv

LEMMA GeneratedStep == IInv /\ Generated => IInv'
<1> SUFFICES ASSUME IInv, Generated PROVE IInv'
  OBVIOUS
<1>1. /\ pc = "generated" /\ chunk \in Chunks /\ chunk < Planned
      /\ pc' = IF opts.overlap THEN "enqueue" ELSE IF opts.taehv THEN "begin" ELSE "decode"
      /\ UNCHANGED <<opts, chunk, kv, fed, inside, frames, vaeq, pending, rows, saved,
                     status, fault>>
  BY Bounds DEF Generated, Host, decoding, queues, IInv, LoopInv
<1>2. /\ probe'.at = (IF probe.at = "on" /\ chunk >= opts.probeFrom + 2 THEN "off"
                      ELSE probe.at)
      /\ probe'.calls = probe.calls
      /\ probe' \in [at : {"none", "on", "off"},
                     calls : SUBSET (Chunks \X {"denoise", "clean"})]
  BY <1>1 DEF Generated, IInv, TypeOK
<1>3. /\ latents \in Seq(Chunks) /\ latents' \in Seq(Chunks)
      /\ latents' = (IF opts.save /\ ~opts.overlap THEN Append(latents, chunk) ELSE latents)
      /\ opts.save /\ ~opts.overlap => Len(latents') = Len(latents) + 1
  BY <1>1 DEF Generated, IInv, TypeOK
<1>4. TypeOK'
  BY <1>1, <1>2, <1>3 DEF IInv, TypeOK
<1>5. LoopInv' /\ CacheInv'
  BY <1>1, Bounds DEF IInv, TypeOK, LoopInv, CacheInv, Planned, Deferred
<1>6. StreamInv' /\ DecoderInv' /\ RowsInv'
  BY <1>1, QuietDecoder, QuietRows
<1>7. LatentsInv'
  BY <1>1, <1>3 DEF IInv, LoopInv, LatentsInv
<1>8. ProbeInv'
  <2> SUFFICES ASSUME opts.probeFrom >= 0, ~Deferred PROVE ProbeInv'
    BY <1>1 DEF ProbeInv, Deferred
  <2>1. /\ status' # "success"
        /\ probe.at = IF chunk < opts.probeFrom THEN "none"
                      ELSE IF Asked(chunk) THEN "on" ELSE "off"
    BY <1>1 DEF IInv, LoopInv, ProbeInv
  <2>2. probe'.at = IF chunk < opts.probeFrom THEN "none"
                    ELSE IF Asked(chunk + 1) THEN "on" ELSE "off"
    BY <1>2, <2>1, Bounds DEF Asked
  <2>3. \A c \in Chunks, k \in {"denoise", "clean"} :
            <<c, k>> \in probe'.calls <=> Asked(c)' /\ k \in Kinds(c)'
    BY <1>1, <1>2, <2>1 DEF IInv, ProbeInv, Kinds, Asked
  <2> QED
    BY <1>1, <2>1, <2>2, <2>3 DEF ProbeInv, Asked
<1> QED
  BY <1>4, <1>5, <1>6, <1>7, <1>8 DEF IInv

-----------------------------------------------------------------------------
(* The serial schedule *)

\* What is settled while the current chunk is decoded and recorded.
LEMMA QuietResults ==
    ASSUME IInv, UNCHANGED <<opts, chunk, pending, rows, latents, saved, status>>,
           pc \in {"decode", "begin", "visible", "drain", "row", "enqueue", "statistics"},
           pc' \in {"decode", "begin", "visible", "drain", "row", "enqueue", "statistics"},
           ~Deferred => probe' = probe
    PROVE  RowsInv' /\ LatentsInv' /\ ProbeInv'
<1>1. RowsInv'
  BY QuietRows
<1>2. LatentsInv'
  BY DEF IInv, LoopInv, LatentsInv, Planned
<1>3. ProbeInv'
  <2> SUFFICES ASSUME opts.probeFrom >= 0, ~Deferred PROVE ProbeInv'
    BY DEF ProbeInv, Deferred
  <2>1. probe' = probe /\ status' # "success"
    BY DEF IInv, LoopInv
  <2>2. ASSUME NEW c \in Chunks, NEW k \in {"denoise", "clean"}
        PROVE  <<c, k>> \in probe'.calls <=> Asked(c)' /\ k \in Kinds(c)'
    <3>1. <<c, k>> \in probe.calls <=> Asked(c) /\ k \in Kinds(c)
      BY DEF IInv, ProbeInv
    <3>2. Asked(c)' <=> Asked(c)
      BY DEF Asked
    <3>3. Kinds(c)' = Kinds(c)
      BY DEF Kinds
    <3> QED
      BY <2>1, <3>1, <3>2, <3>3
  <2> QED
    BY <2>1, <2>2 DEF IInv, ProbeInv, Asked
<1> QED
  BY <1>1, <1>2, <1>3

\* The next latent continues what the decoder has consumed.
LEMMA Consumed ==
    ASSUME fed \in Seq(Chunks), \A i \in 1..Len(fed) : fed[i] = i - 1,
           NEW c \in Chunks, Len(fed) = c
    PROVE  LET new == Append(fed, c)
           IN  /\ new \in Seq(Chunks) /\ Len(new) = c + 1
               /\ \A i \in 1..Len(new) : new[i] = i - 1
<1>1. /\ Append(fed, c) \in Seq(Chunks) /\ Len(Append(fed, c)) = Len(fed) + 1
      /\ \A i \in 1..(Len(fed) + 1) :
             Append(fed, c)[i] = IF i <= Len(fed) THEN fed[i] ELSE c
  OBVIOUS
<1> QED
  BY <1>1

LEMMA DecodeStep == IInv /\ (Decode \/ BeginLatent) => IInv'
<1> SUFFICES ASSUME IInv, Decode \/ BeginLatent PROVE IInv'
  OBVIOUS
<1> DEFINE how == IF opts.taehv THEN "first" ELSE "all"
<1>1. /\ pc \in {"decode", "begin"} /\ pc' = "visible" /\ chunk \in Chunks /\ chunk < Planned
      /\ ~opts.overlap /\ vaeq = <<>> /\ inside = NoChunk
      /\ pc = "begin" <=> opts.taehv
      /\ UNCHANGED <<opts, chunk, kv, vaeq, pending, rows, latents, probe, saved,
                     status, fault>>
  BY Bounds DEF Decode, BeginLatent, Host, decoding, queues, IInv, LoopInv, StreamInv, DecoderInv
<1>2. /\ fed' = Append(fed, chunk)
      /\ frames' = [frames EXCEPT ![chunk] = how]
      /\ inside' \in Chunks \cup {NoChunk} /\ (inside' # NoChunk => opts.taehv)
  BY <1>1 DEF Decode, BeginLatent, Host
<1> HIDE DEF how
<1>3. Len(fed) = chunk
  <2>1. Len(fed) = chunk - Waiting /\ chunk \in Nat
    BY <1>1, Bounds DEF IInv, DecoderInv
  <2>2. Waiting = 0
    BY <1>1 DEF Waiting
  <2> QED
    BY <2>1, <2>2
<1>4. /\ fed' \in Seq(Chunks) /\ Len(fed') = chunk + 1
      /\ \A i \in 1..Len(fed') : fed'[i] = i - 1
  BY <1>1, <1>2, <1>3, Consumed DEF IInv, TypeOK, DecoderInv
<1>5. /\ how \in {"first", "all"} /\ how = IF opts.taehv THEN "first" ELSE "all"
      /\ frames' \in [Chunks -> {"none", "first", "all", "mixed"}]
      /\ \A c \in Chunks : frames'[c] = IF c = chunk THEN how ELSE frames[c]
  <2>1. how \in {"first", "all"} /\ how = IF opts.taehv THEN "first" ELSE "all"
    BY DEF how
  <2> QED
    BY <1>1, <1>2, <2>1 DEF IInv, TypeOK
<1>6. TypeOK'
  BY <1>1, <1>2, <1>4, <1>5 DEF IInv, TypeOK
<1>7. LoopInv' /\ CacheInv'
  BY <1>1, Bounds DEF IInv, LoopInv, CacheInv, Planned, Deferred
<1>8. StreamInv'
  BY <1>1 DEF StreamInv
<1>9. DecoderInv'
  BY <1>1, <1>2, <1>4, <1>5, Bounds DEF IInv, DecoderInv, Waiting, Chunks
<1>10. RowsInv' /\ LatentsInv' /\ ProbeInv'
  BY <1>1, QuietResults
<1> QED
  BY <1>6, <1>7, <1>8, <1>9, <1>10 DEF IInv

LEMMA FirstVisibleStep == IInv /\ FirstVisible => IInv'
<1> SUFFICES ASSUME IInv, FirstVisible PROVE IInv'
  OBVIOUS
<1>1. /\ pc = "visible" /\ pc' = (IF opts.taehv THEN "drain" ELSE "row")
      /\ chunk \in Chunks /\ chunk < Planned /\ ~opts.overlap /\ vaeq = <<>>
      /\ UNCHANGED <<opts, chunk, fed, inside, frames, vaeq, pending, rows, latents, saved,
                     status, fault>>
  BY Bounds DEF FirstVisible, Host, decoding, queues, IInv, LoopInv, StreamInv
<1>2. /\ kv' = (IF Deferred THEN [kv EXCEPT ![chunk] = "clean"] ELSE kv)
      /\ ~Deferred => probe' = probe
      /\ probe' \in [at : {"none", "on", "off"},
                     calls : SUBSET (Chunks \X {"denoise", "clean"})]
  BY <1>1 DEF FirstVisible, CleanPass, Recorded, IInv, TypeOK
<1>3. TypeOK'
  BY <1>1, <1>2 DEF IInv, TypeOK
<1>4. frames[chunk] = IF opts.taehv THEN "first" ELSE "all"
  BY <1>1 DEF IInv, DecoderInv
<1>5. LoopInv'
  BY <1>1, <1>4, Bounds DEF IInv, LoopInv, Planned, Deferred
<1>6. CacheInv'
  <2>1. kv \in [Chunks -> {"empty", "noisy", "clean"}] /\ kv'[chunk] = "clean"
    BY <1>1, <1>2 DEF IInv, TypeOK, CacheInv
  <2>2. \A c \in Chunks : c # chunk => kv'[c] = kv[c]
    BY <1>1, <1>2, <2>1
  <2> QED
    BY <1>1, <2>1, <2>2, Bounds DEF IInv, CacheInv, Chunks
<1>7. StreamInv' /\ DecoderInv'
  BY <1>1, <1>4 DEF IInv, StreamInv, DecoderInv, Waiting
<1>8. RowsInv' /\ LatentsInv' /\ ProbeInv'
  BY <1>1, <1>2, QuietResults
<1> QED
  BY <1>3, <1>5, <1>6, <1>7, <1>8 DEF IInv

LEMMA DrainStep == IInv /\ DrainLatent => IInv'
<1> SUFFICES ASSUME IInv, DrainLatent PROVE IInv'
  OBVIOUS
<1>1. /\ pc = "drain" /\ pc' = "row" /\ opts.taehv /\ inside' = NoChunk
      /\ chunk \in Chunks /\ chunk < Planned /\ ~opts.overlap /\ vaeq = <<>>
      /\ frames[chunk] = "first"
      /\ UNCHANGED <<opts, chunk, kv, fed, vaeq, pending, rows, latents, probe, saved,
                     status, fault>>
  BY Bounds DEF DrainLatent, Host, queues, IInv, LoopInv, StreamInv, DecoderInv
<1>2. /\ frames' \in [Chunks -> {"none", "first", "all", "mixed"}]
      /\ \A c \in Chunks : frames'[c] = IF c = chunk THEN "all" ELSE frames[c]
  BY <1>1 DEF DrainLatent, IInv, TypeOK
<1>3. TypeOK'
  BY <1>1, <1>2 DEF IInv, TypeOK
<1>4. LoopInv' /\ CacheInv'
  BY <1>1, <1>2 DEF IInv, LoopInv, CacheInv, Planned, Deferred
<1>5. StreamInv' /\ DecoderInv'
  BY <1>1, <1>2 DEF IInv, StreamInv, DecoderInv, Waiting
<1>6. RowsInv' /\ LatentsInv' /\ ProbeInv'
  BY <1>1, QuietResults
<1> QED
  BY <1>3, <1>4, <1>5, <1>6 DEF IInv

\* A row appended to the rows so far.
LEMMA RowIsWhole ==
    ASSUME IInv, Len(rows) < chunk \/ (Len(rows) = chunk /\ pc = "row"), chunk <= Planned,
           pc \in {"row", "finish"}
    PROVE  LET new == Append(rows, Row(Len(rows)))
           IN  /\ new \in Seq([chunk : Chunks, frames : {"none", "first", "all", "mixed"},
                               kv : {"empty", "noisy", "clean"}])
               /\ Len(new) = Len(rows) + 1
               /\ \A i \in 1..Len(new) :
                      new[i] = [chunk |-> i - 1, frames |-> "all", kv |-> "clean"]
<1> DEFINE n == Len(rows)
           whole == [chunk |-> n, frames |-> "all", kv |-> "clean"]
<1>1. n \in Nat /\ n \in Chunks
  BY Bounds DEF IInv, TypeOK, LoopInv, Chunks
<1>2. kv[n] = "clean"
  BY <1>1 DEF IInv, CacheInv
<1>3. frames[n] = "all"
  <2>1. CASE pc = "row" /\ n = chunk
    BY <2>1 DEF IInv, LoopInv
  <2>2. CASE n < chunk
    <3>1. vaeq = <<>>
      BY DEF IInv, LoopInv, StreamInv
    <3> QED
      BY <1>1, <2>2, <3>1, Bounds DEF IInv, DecoderInv, Waiting
  <2> QED
    BY <2>1, <2>2
<1>4. Row(n) = whole
  BY <1>2, <1>3 DEF Row
<1>5. /\ rows \in Seq([chunk : Chunks, frames : {"none", "first", "all", "mixed"},
                       kv : {"empty", "noisy", "clean"}])
      /\ \A i \in 1..n : rows[i] = [chunk |-> i - 1, frames |-> "all", kv |-> "clean"]
      /\ whole \in [chunk : Chunks, frames : {"none", "first", "all", "mixed"},
                    kv : {"empty", "noisy", "clean"}]
  BY <1>1 DEF IInv, TypeOK, RowsInv
<1>6. /\ Append(rows, whole) \in Seq([chunk : Chunks, frames : {"none", "first", "all", "mixed"},
                                     kv : {"empty", "noisy", "clean"}])
      /\ Len(Append(rows, whole)) = n + 1
      /\ \A i \in 1..(n + 1) : Append(rows, whole)[i] = IF i <= n THEN rows[i] ELSE whole
  <2> HIDE DEF whole
  <2> QED
    BY <1>5
<1>7. \A i \in 1..(n + 1) :
          Append(rows, whole)[i] = [chunk |-> i - 1, frames |-> "all", kv |-> "clean"]
  <2> TAKE i \in 1..(n + 1)
  <2>1. CASE i \in 1..n
    BY <1>1, <1>5, <1>6, <2>1
  <2>2. CASE i = n + 1
    <3>1. i - 1 = n /\ ~(i <= n)
      BY <1>1, <2>2
    <3> QED
      BY <1>6, <3>1
  <2> QED
    BY <1>1, <2>1, <2>2
<1> QED
  BY <1>4, <1>6, <1>7

\* The probe is asked about the next chunk once the current one has its row.
LEMMA NextChunkProbe ==
    ASSUME IInv, pc \in {"row", "statistics"}, pc' = "loop", chunk' = chunk + 1,
           UNCHANGED <<opts, probe, status>>
    PROVE  ProbeInv'
<1> SUFFICES ASSUME opts.probeFrom >= 0, ~Deferred PROVE ProbeInv'
  BY DEF ProbeInv, Deferred
<1>1. chunk \in Nat /\ opts.probeFrom \in Int /\ status' # "success"
  BY Bounds DEF IInv, LoopInv
<1>2. probe'.at = IF chunk < opts.probeFrom THEN "none"
                  ELSE IF Asked(chunk + 1) THEN "on" ELSE "off"
  BY DEF IInv, ProbeInv
<1>3. ASSUME NEW c \in Chunks, NEW k \in {"denoise", "clean"}
      PROVE  <<c, k>> \in probe'.calls <=> Asked(c)' /\ k \in Kinds(c)'
  <2>1. <<c, k>> \in probe.calls <=> Asked(c) /\ k \in Kinds(c)
    BY DEF IInv, ProbeInv
  <2>2. Asked(c)' <=> Asked(c)
    BY DEF Asked
  <2>3. Kinds(c)' = Kinds(c)
    BY <1>1 DEF Kinds, Chunks
  <2> QED
    BY <2>1, <2>2, <2>3
<1>4. probe'.at = IF chunk' <= opts.probeFrom THEN "none"
                  ELSE IF opts.probeFrom <= chunk' /\ chunk' <= opts.probeFrom + 2
                  THEN "on" ELSE "off"
  BY <1>1, <1>2 DEF Asked
<1> QED
  BY <1>1, <1>3, <1>4 DEF ProbeInv, Asked

LEMMA FinishActionStep == IInv /\ FinishAction => IInv'
<1> SUFFICES ASSUME IInv, FinishAction PROVE IInv'
  OBVIOUS
<1>1. /\ pc = "row" /\ pc' = "loop" /\ chunk' = chunk + 1 /\ rows' = Append(rows, Row(chunk))
      /\ chunk \in Chunks /\ chunk < Planned /\ ~opts.overlap
      /\ vaeq = <<>> /\ inside = NoChunk /\ pending = <<>>
      /\ UNCHANGED <<opts, kv, fed, inside, frames, vaeq, pending, latents, probe, saved,
                     status, fault>>
  BY Bounds DEF FinishAction, NextChunk, Host, decoding, queues, IInv, LoopInv, StreamInv,
    DecoderInv, RowsInv
<1>2. Len(rows) = chunk /\ chunk \in Nat /\ chunk' \in 0..ChunkCount
  <2>1. Len(rows) + Len(pending) = chunk /\ Len(pending) = 0 /\ Len(rows) \in Nat
    BY <1>1 DEF IInv, RowsInv, TypeOK
  <2> QED
    BY <1>1, <2>1, Bounds
<1>3. /\ rows' \in Seq([chunk : Chunks, frames : {"none", "first", "all", "mixed"},
                        kv : {"empty", "noisy", "clean"}])
      /\ Len(rows') = chunk + 1
      /\ \A i \in 1..Len(rows') :
             rows'[i] = [chunk |-> i - 1, frames |-> "all", kv |-> "clean"]
  <2>1. rows' = Append(rows, Row(Len(rows))) /\ chunk <= Planned
    BY <1>1, <1>2, Bounds
  <2>2. Len(rows) < chunk \/ (Len(rows) = chunk /\ pc = "row")
    BY <1>1, <1>2
  <2> QED
    BY <1>1, <1>2, <2>1, <2>2, RowIsWhole
<1>4. TypeOK'
  BY <1>1, <1>2, <1>3 DEF IInv, TypeOK
<1>5. LoopInv'
  BY <1>1, Bounds DEF IInv, LoopInv, Planned, Deferred
<1>6. CacheInv'
  BY <1>1, <1>2, Bounds DEF IInv, CacheInv, Chunks
<1>7. StreamInv'
  BY <1>1 DEF StreamInv
<1>8. DecoderInv'
  BY <1>1, <1>2, Bounds DEF IInv, LoopInv, DecoderInv, Waiting, Chunks
<1>9. RowsInv'
  BY <1>1, <1>2, <1>3 DEF IInv, LoopInv, RowsInv
<1>10. LatentsInv'
  BY <1>1, Bounds DEF IInv, LoopInv, LatentsInv
<1>11. ProbeInv'
  BY <1>1, NextChunkProbe
<1> QED
  BY <1>4, <1>5, <1>6, <1>7, <1>8, <1>9, <1>10, <1>11 DEF IInv

-----------------------------------------------------------------------------
(* The overlapped schedule *)

\* The queue of the VAE stream never holds more than two entries.
LEMMA ShortQueues ==
    ASSUME NEW a, NEW b
    PROVE  /\ Append(<<>>, a) = <<a>> /\ Append(<<a>>, b) = <<a, b>>
           /\ Head(<<a>>) = a /\ Tail(<<a>>) = <<>>
           /\ Head(<<a, b>>) = a /\ Tail(<<a, b>>) = <<b>>
           /\ <<a, b>> # <<b>> /\ <<a>> # <<>>
<1> DEFINE s == Append(<<a>>, b)
           t == <<a, b>>
<1>1. /\ s \in Seq({a, b}) /\ t \in Seq({a, b}) /\ Len(s) = 2 /\ Len(t) = 2
      /\ s[1] = a /\ s[2] = b /\ t[1] = a /\ t[2] = b
  OBVIOUS
<1> HIDE DEF s, t
<1>2. \A i \in 1..2 : i = 1 \/ i = 2
  OBVIOUS
<1>3. s = t
  BY <1>1, <1>2, SeqEqual
<1>4. Append(<<>>, a) = <<a>>
  OBVIOUS
<1>5. Head(<<a>>) = a /\ Tail(<<a>>) = <<>> /\ <<a>> # <<>>
  OBVIOUS
<1>6. Head(<<a, b>>) = a /\ Tail(<<a, b>>) = <<b>> /\ <<a, b>> # <<b>>
  OBVIOUS
<1> QED
  BY <1>3, <1>4, <1>5, <1>6 DEF s, t

LEMMA HeadTyped ==
    ASSUME NEW S, NEW s \in Seq(S), s # <<>>
    PROVE  Head(s) \in S /\ Tail(s) \in Seq(S)
OBVIOUS

LEMMA WorkTyped ==
    ASSUME NEW c \in Chunks
    PROVE  /\ Decoding(c) \in [op : {"project", "decode"}, chunk : Chunks]
           /\ Projecting(c) \in [op : {"project", "decode"}, chunk : Chunks]
BY DEF Decoding, Projecting

LEMMA EnqueueStep == IInv /\ Enqueue => IInv'
<1> SUFFICES ASSUME IInv, Enqueue PROVE IInv'
  OBVIOUS
<1>1. /\ pc = "enqueue" /\ pc' = "statistics" /\ opts.overlap
      /\ chunk \in Chunks /\ chunk < Planned
      /\ vaeq' = Append(vaeq, Projecting(chunk))
      /\ UNCHANGED <<opts, chunk, kv, fed, inside, frames, pending, rows, latents, probe,
                     saved, status, fault>>
  BY Bounds DEF Enqueue, Host, decoding, IInv, LoopInv, Projecting
<1>2. vaeq \in {<<>>, <<Decoding(chunk - 1)>>}
  BY <1>1 DEF IInv, StreamInv
<1>3. /\ vaeq = <<>> => vaeq' = <<Projecting(chunk)>>
      /\ vaeq # <<>> => vaeq' = <<Decoding(chunk - 1), Projecting(chunk)>>
  BY <1>1, <1>2, ShortQueues
<1>4. Waiting' = Waiting
  BY <1>2, <1>3 DEF Waiting, Decoding, Projecting
<1>5. TypeOK'
  <2>1. vaeq' \in Seq([op : {"project", "decode"}, chunk : Chunks])
    BY <1>1, WorkTyped DEF IInv, TypeOK
  <2> QED
    BY <1>1, <2>1 DEF IInv, TypeOK
<1>6. LoopInv' /\ CacheInv'
  BY <1>1, Bounds DEF IInv, LoopInv, CacheInv, Planned, Deferred
<1>7. StreamInv'
  BY <1>1, <1>2, <1>3 DEF StreamInv, Decoding, Projecting
<1>8. DecoderInv'
  BY <1>1, <1>4 DEF IInv, DecoderInv
<1>9. RowsInv' /\ LatentsInv' /\ ProbeInv'
  BY <1>1, QuietResults
<1> QED
  BY <1>5, <1>6, <1>7, <1>8, <1>9 DEF IInv

LEMMA StatisticsStep == IInv /\ Statistics => IInv'
<1> SUFFICES ASSUME IInv, Statistics PROVE IInv'
  OBVIOUS
<1>1. /\ pc = "statistics" /\ pc' = "loop" /\ chunk' = chunk + 1 /\ opts.overlap
      /\ chunk \in Chunks /\ chunk < Planned
      /\ vaeq = <<>> /\ vaeq' = <<Decoding(chunk)>> /\ pending' = Append(pending, chunk)
      /\ UNCHANGED <<opts, kv, fed, inside, frames, rows, latents, probe, saved, status,
                     fault>>
  BY Bounds DEF Statistics, NextChunk, Host, decoding, IInv, LoopInv, Decoding
<1>2. chunk \in Nat /\ chunk' \in 0..ChunkCount /\ chunk' - 1 = chunk
  BY <1>1, Bounds
<1>3. Waiting = 0 /\ Waiting' = 1
  BY <1>1 DEF Waiting, Decoding
<1>4. /\ pending \in Seq(Chunks) /\ pending' \in Seq(Chunks)
      /\ Len(pending') = Len(pending) + 1
      /\ \A i \in 1..Len(pending') :
             pending'[i] = IF i <= Len(pending) THEN pending[i] ELSE chunk
  BY <1>1 DEF IInv, TypeOK
<1>5. TypeOK'
  <2>1. vaeq' \in Seq([op : {"project", "decode"}, chunk : Chunks])
    BY <1>1, WorkTyped
  <2> QED
    BY <1>1, <1>2, <1>4, <2>1 DEF IInv, TypeOK
<1>6. LoopInv'
  BY <1>1, Bounds DEF IInv, LoopInv, Planned, Deferred
<1>7. CacheInv'
  BY <1>1, <1>2, Bounds DEF IInv, CacheInv, Chunks
<1>8. StreamInv'
  BY <1>1, <1>2 DEF StreamInv
<1>9. DecoderInv'
  BY <1>1, <1>2, <1>3, Bounds DEF IInv, LoopInv, DecoderInv, Chunks
<1>10. RowsInv'
  <2>1. Len(rows) \in Nat /\ Len(pending) \in Nat /\ Len(rows) + Len(pending) = chunk
    BY <1>1, <1>4 DEF IInv, TypeOK, RowsInv
  <2>2. \A i \in 1..Len(pending') : pending'[i] = Len(rows) + i - 1
    <3> TAKE i \in 1..Len(pending')
    <3>1. CASE i \in 1..Len(pending)
      <4>1. pending[i] = Len(rows) + i - 1
        BY <3>1 DEF IInv, RowsInv
      <4> QED
        BY <1>4, <3>1, <4>1
    <3>2. CASE i = Len(pending) + 1
      <4>1. ~(i <= Len(pending)) /\ Len(rows) + i - 1 = chunk
        BY <1>2, <2>1, <3>2
      <4> QED
        BY <1>4, <4>1
    <3> QED
      BY <1>4, <2>1, <3>1, <3>2
  <2> QED
    BY <1>1, <1>4, <2>1, <2>2 DEF IInv, LoopInv, RowsInv
<1>11. LatentsInv'
  BY <1>1 DEF IInv, LoopInv, LatentsInv
<1>12. ProbeInv'
  BY <1>1, NextChunkProbe
<1> QED
  BY <1>5, <1>6, <1>7, <1>8, <1>9, <1>10, <1>11, <1>12 DEF IInv

LEMMA VaeStepHolds == IInv /\ VaeStep => IInv'
<1> SUFFICES ASSUME IInv, VaeStep PROVE IInv'
  OBVIOUS
<1>1. /\ pc # "done" /\ vaeq # <<>> /\ vaeq' = Tail(vaeq) /\ opts.overlap
      /\ pc \notin {"decode", "begin", "visible", "drain", "row", "finish", "close", "write"}
      /\ UNCHANGED <<opts, pc, chunk, kv, inside, pending, rows, latents, probe, saved,
                     status, fault>>
  BY DEF VaeStep, results, IInv, LoopInv, StreamInv
<1>2. CASE vaeq = <<Projecting(chunk)>>
  <2>1. vaeq' = <<>> /\ Head(vaeq).op = "project"
    BY <1>1, <1>2 DEF Projecting
  <2>2. UNCHANGED <<fed, frames>> /\ Waiting = 0 /\ Waiting' = 0
    BY <2>1 DEF VaeStep, Waiting
  <2>3. TypeOK' /\ LoopInv' /\ CacheInv'
    BY <1>1, <2>1, <2>2 DEF IInv, TypeOK, LoopInv, CacheInv, Planned, Deferred
  <2>4. StreamInv' /\ DecoderInv'
    BY <1>1, <2>1, <2>2 DEF IInv, StreamInv, DecoderInv
  <2>5. RowsInv' /\ LatentsInv' /\ ProbeInv'
    BY <1>1 DEF IInv, RowsInv, LatentsInv, ProbeInv, Planned, Deferred, Asked, Kinds
  <2> QED
    BY <2>3, <2>4, <2>5 DEF IInv
<1>3. CASE vaeq # <<Projecting(chunk)>>
  <2> DEFINE c == chunk - 1
  <2>1. /\ Head(vaeq) = Decoding(c)
        /\ vaeq' \in {<<>>} \cup (IF pc = "statistics" THEN {<<Projecting(chunk)>>} ELSE {})
    <3>1. vaeq \in {<<Decoding(c)>>} \cup (IF pc = "statistics"
                      THEN {<<Decoding(c), Projecting(chunk)>>} ELSE {})
      BY <1>1, <1>3 DEF IInv, StreamInv
    <3> HIDE DEF c
    <3>2. CASE vaeq = <<Decoding(c)>>
      BY <1>1, <3>2, ShortQueues
    <3>3. CASE vaeq # <<Decoding(c)>>
      <4>1. vaeq = <<Decoding(c), Projecting(chunk)>> /\ pc = "statistics"
        BY <3>1, <3>3
      <4> QED
        BY <1>1, <4>1, ShortQueues
    <3> QED
      BY <3>2, <3>3
  <2>2. c \in Chunks /\ c \in Nat /\ c + 1 = chunk
    <3>1. Decoding(c) \in [op : {"project", "decode"}, chunk : Chunks]
      <4>1. vaeq \in Seq([op : {"project", "decode"}, chunk : Chunks]) /\ vaeq # <<>>
        BY <1>1 DEF IInv, TypeOK
      <4>2. Head(vaeq) \in [op : {"project", "decode"}, chunk : Chunks]
        BY <4>1, HeadTyped
      <4> QED
        BY <2>1, <4>2
    <3>2. c \in Chunks
      BY <3>1 DEF Decoding
    <3> QED
      BY <3>2, Bounds DEF Chunks
  <2>3. /\ fed' = Append(fed, c) /\ frames' = [frames EXCEPT ![c] = "all"]
        /\ Waiting = 1 /\ Waiting' = 0
    <3>1. Head(vaeq).op = "decode" /\ Head(vaeq).chunk = c
      BY <2>1 DEF Decoding
    <3>2. vaeq' = <<>> \/ Head(vaeq').op # "decode"
      BY <2>1, ShortQueues DEF Projecting
    <3> QED
      BY <1>1, <3>1, <3>2 DEF VaeStep, Waiting
  <2> HIDE DEF c
  <2>4. Len(fed) = c
    <3>1. Len(fed) = chunk - 1
      BY <1>1, <2>3 DEF IInv, DecoderInv
    <3> QED
      BY <2>2, <3>1
  <2>5. /\ fed' \in Seq(Chunks) /\ Len(fed') = chunk
        /\ \A i \in 1..Len(fed') : fed'[i] = i - 1
    BY <2>2, <2>3, <2>4, Consumed DEF IInv, TypeOK, DecoderInv
  <2>6. /\ frames' \in [Chunks -> {"none", "first", "all", "mixed"}]
        /\ \A d \in Chunks : frames'[d] = IF d = c THEN "all" ELSE frames[d]
    BY <2>2, <2>3 DEF IInv, TypeOK
  <2>7. TypeOK'
    <3>1. vaeq' \in Seq([op : {"project", "decode"}, chunk : Chunks])
      BY <1>1 DEF IInv, TypeOK
    <3> QED
      BY <1>1, <2>5, <2>6, <3>1 DEF IInv, TypeOK
  <2>8. LoopInv' /\ CacheInv'
    BY <1>1 DEF IInv, LoopInv, CacheInv, Planned, Deferred
  <2>9. StreamInv'
    BY <1>1, <2>1 DEF StreamInv, Projecting
  <2>10. DecoderInv'
    BY <1>1, <2>2, <2>3, <2>5, <2>6 DEF IInv, DecoderInv, Chunks
  <2>11. RowsInv' /\ LatentsInv' /\ ProbeInv'
    BY <1>1 DEF IInv, RowsInv, LatentsInv, ProbeInv, Planned, Deferred, Asked, Kinds
  <2> QED
    BY <2>7, <2>8, <2>9, <2>10, <2>11 DEF IInv
<1> QED
  BY <1>2, <1>3

LEMMA FinishPendingStep == IInv /\ FinishPending => IInv'
<1> SUFFICES ASSUME IInv, FinishPending PROVE IInv'
  OBVIOUS
<1>1. /\ pc = "finish" /\ pc' = "finish" /\ chunk = Planned /\ opts.overlap
      /\ pending # <<>> /\ pending' = Tail(pending)
      /\ rows' = Append(rows, Row(Head(pending)))
      /\ UNCHANGED <<opts, chunk, kv, fed, inside, frames, vaeq, latents, probe, saved, status,
                     fault>>
  BY DEF FinishPending, Host, decoding, IInv, LoopInv
<1>2. /\ pending \in Seq(Chunks) /\ pending' \in Seq(Chunks)
      /\ Len(pending) \in Nat \ {0} /\ Len(pending') = Len(pending) - 1
      /\ \A i \in 1..Len(pending') : pending'[i] = pending[i + 1]
      /\ Head(pending) = pending[1]
  <2>1. pending \in Seq(Chunks)
    BY DEF IInv, TypeOK
  <2> QED
    BY <1>1, <2>1
<1>3. Len(rows) \in Nat /\ Len(rows) + Len(pending) = chunk /\ Head(pending) = Len(rows)
  <2>1. Len(rows) \in Nat /\ Len(rows) + Len(pending) = chunk
    BY <1>1 DEF IInv, TypeOK, RowsInv
  <2>2. pending[1] = Len(rows) + 1 - 1
    BY <1>2 DEF IInv, RowsInv
  <2> QED
    BY <1>2, <2>1, <2>2
<1>4. /\ rows' \in Seq([chunk : Chunks, frames : {"none", "first", "all", "mixed"},
                        kv : {"empty", "noisy", "clean"}])
      /\ Len(rows') = Len(rows) + 1
      /\ \A i \in 1..Len(rows') :
             rows'[i] = [chunk |-> i - 1, frames |-> "all", kv |-> "clean"]
  <2>1. rows' = Append(rows, Row(Len(rows))) /\ Len(rows) < chunk /\ chunk <= Planned
    BY <1>1, <1>2, <1>3, Bounds
  <2> QED
    BY <1>1, <2>1, RowIsWhole
<1>5. TypeOK'
  BY <1>1, <1>2, <1>4 DEF IInv, TypeOK
<1>6. LoopInv' /\ CacheInv'
  BY <1>1 DEF IInv, LoopInv, CacheInv, Planned, Deferred
<1>7. StreamInv' /\ DecoderInv'
  BY <1>1 DEF IInv, StreamInv, DecoderInv, Waiting
<1>8. RowsInv'
  <2>1. \A i \in 1..Len(pending') : pending'[i] = Len(rows') + i - 1
    <3> TAKE i \in 1..Len(pending')
    <3>1. i \in Nat /\ i + 1 \in 1..Len(pending)
      BY <1>2
    <3>2. pending[i + 1] = Len(rows) + (i + 1) - 1
      BY <3>1 DEF IInv, RowsInv
    <3> QED
      BY <1>2, <1>3, <1>4, <3>1, <3>2
  <2>2. Len(rows') + Len(pending') = chunk
    BY <1>2, <1>3, <1>4
  <2>3. status' # "success"
    BY <1>1 DEF IInv, LoopInv
  <2> QED
    BY <1>1, <1>4, <2>1, <2>2, <2>3 DEF RowsInv
<1>9. LatentsInv' /\ ProbeInv'
  BY <1>1 DEF IInv, LoopInv, LatentsInv, ProbeInv, Planned, Deferred, Asked, Kinds
<1> QED
  BY <1>5, <1>6, <1>7, <1>8, <1>9 DEF IInv

-----------------------------------------------------------------------------
(* The end of the session, and all steps together *)

LEMMA CloseStep == IInv /\ CloseSession => IInv'
<1> SUFFICES ASSUME IInv, CloseSession PROVE IInv'
  OBVIOUS
<1> DEFINE Empty == rows = <<>> \/ (opts.save /\ latents = <<>>)
<1>1. CASE Empty
  <2>1. Stops
    BY <1>1 DEF CloseSession, Raise, Stops, IInv, TypeOK
  <2> QED
    BY <2>1, StopsStep
<1>2. CASE ~Empty
  <2>1. /\ pc = "close" /\ pc' = "write" /\ chunk = Planned /\ saved' = opts.save
        /\ UNCHANGED <<opts, fault, chunk, kv, fed, inside, frames, vaeq, pending, rows,
                       latents, status>>
    BY <1>2 DEF CloseSession, Host, decoding, queues, IInv, LoopInv
  <2>2. /\ probe' \in [at : {"none", "on", "off"},
                       calls : SUBSET (Chunks \X {"denoise", "clean"})]
        /\ probe'.calls = probe.calls
    BY DEF CloseSession, ProbeReport, IInv, TypeOK
  <2>3. TypeOK'
    <3>1. saved' \in BOOLEAN
      BY <2>1, Bounds
    <3> QED
      BY <2>1, <2>2, <3>1 DEF IInv, TypeOK
  <2>4. LoopInv' /\ CacheInv'
    BY <2>1, Bounds DEF IInv, LoopInv, CacheInv, Planned, Deferred
  <2>5. StreamInv' /\ DecoderInv'
    BY <2>1 DEF IInv, LoopInv, StreamInv, DecoderInv, Waiting
  <2>6. RowsInv'
    BY <2>1, QuietRows DEF IInv, RowsInv
  <2>7. LatentsInv'
    BY <1>2, <2>1, Bounds DEF IInv, LoopInv, LatentsInv, Planned
  <2>8. ProbeInv'
    <3> SUFFICES ASSUME opts.probeFrom >= 0, ~Deferred PROVE ProbeInv'
      BY <2>1 DEF ProbeInv, Deferred
    <3>1. \A c \in Chunks, k \in {"denoise", "clean"} :
              <<c, k>> \in probe.calls <=> Asked(c) /\ c < Planned
      BY <2>1 DEF IInv, ProbeInv
    <3> QED
      BY <2>1, <2>2, <3>1 DEF ProbeInv, Asked, Planned
  <2> QED
    BY <2>3, <2>4, <2>5, <2>6, <2>7, <2>8 DEF IInv
<1> QED
  BY <1>1, <1>2

LEMMA WriteStep == IInv /\ WriteMetrics => IInv'
<1> SUFFICES ASSUME IInv, WriteMetrics PROVE IInv'
  OBVIOUS
<1>1. /\ pc = "write" /\ pc' = "done" /\ chunk = Planned
      /\ status' = "success" /\ fed' = <<>> /\ inside' = NoChunk
      /\ vaeq = <<>> /\ pending = <<>>
      /\ UNCHANGED <<opts, fault, chunk, kv, frames, vaeq, pending, rows, latents, probe,
                     saved>>
  BY DEF WriteMetrics, Host, queues, IInv, LoopInv, StreamInv, RowsInv
<1>2. TypeOK'
  <2>1. <<>> \in Seq(Chunks)
    OBVIOUS
  <2> QED
    BY <1>1, <2>1 DEF IInv, TypeOK
<1>3. LoopInv' /\ CacheInv'
  BY <1>1, Bounds DEF IInv, LoopInv, CacheInv, Planned, Deferred
<1>4. StreamInv' /\ DecoderInv'
  <2>1. Len(fed') = 0
    BY <1>1
  <2> QED
    BY <1>1, <2>1 DEF IInv, StreamInv, DecoderInv
<1>5. RowsInv'
  <2>1. Len(rows) = chunk
    BY <1>1 DEF IInv, TypeOK, RowsInv
  <2> QED
    BY <1>1, <2>1 DEF IInv, RowsInv, Planned
<1>6. LatentsInv'
  BY <1>1 DEF IInv, LatentsInv, Planned
<1>7. ProbeInv'
  <2> SUFFICES ASSUME opts.probeFrom >= 0, ~Deferred PROVE ProbeInv'
    BY <1>1 DEF ProbeInv, Deferred
  <2>1. \A c \in Chunks, k \in {"denoise", "clean"} :
            <<c, k>> \in probe.calls <=> Asked(c) /\ c < Planned
    BY <1>1 DEF IInv, ProbeInv
  <2> QED
    BY <1>1, <2>1 DEF ProbeInv, Asked, Planned
<1> QED
  BY <1>2, <1>3, <1>4, <1>5, <1>6, <1>7 DEF IInv

LEMMA FaultStep == IInv /\ (Fails \/ CtrlC) => IInv'
<1> SUFFICES ASSUME IInv, Fails \/ CtrlC PROVE IInv'
  OBVIOUS
<1>1. Stops
  BY DEF Fails, CtrlC, Raise, Stops
<1> QED
  BY <1>1, StopsStep

LEMMA StutterStep == IInv /\ UNCHANGED vars => IInv'
<1> SUFFICES ASSUME IInv, UNCHANGED vars PROVE IInv'
  OBVIOUS
<1>1. TypeOK' /\ LoopInv' /\ CacheInv' /\ StreamInv'
  BY DEF vars, decoding, queues, IInv, TypeOK, LoopInv, CacheInv, StreamInv, Planned, Deferred
<1>2. DecoderInv' /\ RowsInv' /\ LatentsInv'
  BY DEF vars, decoding, queues, IInv, DecoderInv, RowsInv, LatentsInv, Waiting, Planned
<1>3. ProbeInv'
  BY DEF vars, IInv, ProbeInv, Planned, Deferred, Asked, Kinds
<1> QED
  BY <1>1, <1>2, <1>3 DEF IInv

LEMMA NextHolds == IInv /\ [Next]_vars => IInv'
<1> SUFFICES ASSUME IInv, [Next]_vars PROVE IInv'
  OBVIOUS
<1>1. CASE HostStep
  BY <1>1, StartStep, DenoiseStep, LoopEndsStep, CommitStep, GeneratedStep, DecodeStep,
    FirstVisibleStep, DrainStep, FinishActionStep, EnqueueStep, StatisticsStep, SynchronizeStep,
    FinishPendingStep, CloseStep, WriteStep DEF HostStep
<1>2. CASE VaeStep
  BY <1>2, VaeStepHolds
<1>3. CASE Fails \/ CtrlC
  BY <1>3, FaultStep
<1>4. CASE Ended \/ UNCHANGED vars
  BY <1>4, StutterStep DEF Ended
<1> QED
  BY <1>1, <1>2, <1>3, <1>4 DEF Next

-----------------------------------------------------------------------------
\* The place of the host and the chunk of the loop determine what the caches,
\* the decoder, the VAE stream, the rows, the latents and the probe hold, for
\* every length of a session and every combination of its options.
THEOREM InductiveInvariant == Spec => []IInv
<1>1. Init => IInv
  BY InitHolds
<1>2. IInv /\ [Next]_vars => IInv'
  BY NextHolds
<1> QED
  BY <1>1, <1>2, PTL DEF Spec

\* Every variable of a session has its type, for every number of chunks.
THEOREM TypeCorrect == Spec => []TypeOK
<1>1. IInv => TypeOK
  BY DEF IInv
<1> QED
  BY <1>1, InductiveInvariant, PTL

\* No session records a row of a chunk that is not decoded to its end or whose
\* keys are not exact, or denoises a chunk before the keys of the one before.
THEOREM RowsAreAlwaysWhole == Spec => []RowsAreWhole
<1>1. IInv => RowsAreWhole
  <2> SUFFICES ASSUME IInv PROVE RowsAreWhole
    OBVIOUS
  <2>1. CleanBeforeNext
    <3> SUFFICES ASSUME NEW c \in Chunks, NEW d \in Chunks, kv[c] # "empty", d < c
                 PROVE  kv[d] = "clean"
      BY DEF CleanBeforeNext
    <3>1. c <= chunk
      BY Bounds DEF IInv, CacheInv, Chunks
    <3>2. d < chunk
      BY <3>1, Bounds DEF Chunks
    <3> QED
      BY <3>2 DEF IInv, CacheInv
  <2> QED
    BY <2>1 DEF IInv, RowsInv, RowsAreWhole
<1> QED
  BY <1>1, InductiveInvariant, PTL

\* The causal decoder consumes the latents of every session once each and in
\* order, and never starts one while frames of another are inside.
THEOREM DecoderAlwaysFollows == Spec => []DecoderFollowsSession
<1>1. IInv => DecoderFollowsSession
  BY DEF IInv, DecoderInv, DecoderFollowsSession
<1> QED
  BY <1>1, InductiveInvariant, PTL

\* A session that reports success has generated, decoded and recorded every
\* planned chunk, saved its latents if asked to, and probed both forwards of
\* exactly the chunks the probe was asked for.
THEOREM SuccessIsAlwaysWhole == Spec => []SuccessIsWhole
<1>1. IInv => SuccessIsWhole
  <2> SUFFICES ASSUME IInv, status = "success" PROVE SuccessIsWhole
    BY DEF SuccessIsWhole
  <2>1. Len(rows) = Planned /\ pending = <<>>
    BY DEF IInv, RowsInv
  <2>2. opts.save => saved /\ Len(latents) = Planned
    BY DEF IInv, LatentsInv
  <2>3. ASSUME opts.probeFrom \in 0..(Planned - 1), ~Deferred
        PROVE  probe.calls = Probed \X {"denoise", "clean"}
    <3>1. probe.calls \subseteq Chunks \X {"denoise", "clean"}
      BY DEF IInv, TypeOK
    <3>2. \A c \in Chunks, k \in {"denoise", "clean"} :
              <<c, k>> \in probe.calls <=> Asked(c) /\ c < Planned
      <4>1. opts.probeFrom >= 0
        BY <2>3, Bounds
      <4> QED
        BY <2>3, <4>1 DEF IInv, ProbeInv
    <3>3. \A c \in Chunks : c \in Probed <=> Asked(c) /\ c < Planned
      BY <2>3 DEF Probed, Asked, Chunks
    <3>4. Probed \subseteq Chunks
      BY DEF Probed
    <3>5. ASSUME NEW c, NEW k
          PROVE  <<c, k>> \in probe.calls <=> <<c, k>> \in Probed \X {"denoise", "clean"}
      BY <3>1, <3>2, <3>3, <3>4
    <3>6. Probed \X {"denoise", "clean"} \subseteq Chunks \X {"denoise", "clean"}
      BY <3>4
    <3>7. \A x \in Chunks \X {"denoise", "clean"} : x = <<x[1], x[2]>>
      OBVIOUS
    <3> QED
      BY <3>1, <3>5, <3>6, <3>7
  <2> QED
    BY <2>1, <2>2, <2>3 DEF SuccessIsWhole
<1> QED
  BY <1>1, InductiveInvariant, PTL
=============================================================================
