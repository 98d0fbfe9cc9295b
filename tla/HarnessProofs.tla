---------------------------- MODULE HarnessProofs ----------------------------
(***************************************************************************)
(* Proofs about the programs of MCHarnesses, each for every value of its    *)
(* constants.                                                               *)
(***************************************************************************)
EXTENDS MCHarnesses, FiniteSetTheorems, TLAPS

\* Only the step of the program that runs can touch its variables.
LEMMA OneProgram ==
    ASSUME [Next]_vars
    PROVE  /\ UNCHANGED equivalence \/ (program = "equivalence" /\ Equivalence!Next)
           /\ UNCHANGED branches \/ (program = "probe" /\ Probe!Next)
           /\ UNCHANGED launcher \/ (program = "launcher" /\ Launcher!Next)
           /\ UNCHANGED boundary \/ (program = "boundary" /\ Boundary!Next)
  BY DEF Next, vars

-----------------------------------------------------------------------------
(* BoundaryRuntime *)

\* While the first run of the cleanup lane is on its way there is no row yet;
\* behind its boundary the loader has no model any more, so no second run
\* begins.
GivenAway ==
    Boundary!CleanupLane =>
        /\ pcB \in {"encode", "load", "denoise", "cleanup", "vae", "decode", "video"}
               => runs = <<>>
        /\ pcB \in {"vae", "decode", "video"} => holders = {}
        /\ pcB = "runs" /\ runs # <<>> => "lbworld" \notin holders
        /\ runs = <<>> \/ Len(runs) = 1

\* What record_phase_event is called with.
PhaseNames == {"after_t5", "before_vae", "after_cleanup", "vae_start", "vae_complete"}

Decoded == {i \in DOMAIN events : events[i] = "vae_complete"}

\* A run has its event as soon as it has decoded.
PhasesCounted ==
    opts.phases /\ pcB # "done" =>
        Cardinality(Decoded) = IF pcB = "video" THEN Len(runs) + 1 ELSE Len(runs)

BoundaryType ==
    /\ opts \in Boundary!Options
    /\ runs \in Seq(Nat)
    /\ events \in Seq(PhaseNames)
    /\ file \in {events, Boundary!Torn}
    /\ report \in BOOLEAN
    /\ pcB \in {"encode", "load", "runs", "denoise", "cleanup", "vae", "decode",
                "video", "done"}
    /\ pcB \in {"encode", "load"} => runs = <<>>

BoundaryInv ==
    /\ BoundaryType
    /\ GivenAway
    /\ PhasesCounted
    /\ pcB = "cleanup" => Boundary!CleanupLane
    /\ report => pcB = "done" /\ ReportIsWhole

LEMMA BoundaryInit == Init => BoundaryInv
  <1> SUFFICES ASSUME Init PROVE BoundaryInv
    OBVIOUS
  <1>0. /\ opts \in Boundary!Options /\ pcB = "encode" /\ events = << >>
        /\ file = << >> /\ runs = << >> /\ report = FALSE
    BY DEF Init, Boundary!Init
  <1>1. BoundaryType
    <2>1. << >> \in Seq(Nat) /\ << >> \in Seq(PhaseNames)
      OBVIOUS
    <2> QED BY <1>0, <2>1 DEF BoundaryType
  <1>2. GivenAway
    BY DEF Init, Boundary!Init, GivenAway
  <1>3. Cardinality(Decoded) = 0
    <2>1. Decoded = {}
      BY DEF Init, Boundary!Init, Decoded
    <2> QED BY <2>1, FS_EmptySet
  <1>4. PhasesCounted
    BY <1>3 DEF PhasesCounted, Init, Boundary!Init
  <1> QED BY <1>1, <1>2, <1>4 DEF BoundaryInv, Init, Boundary!Init

\* The operator of FiniteSets as the instance sees it.
LEMMA SameCardinality ==
    ASSUME NEW S
    PROVE  Boundary!Cardinality(S) = Cardinality(S)
  BY DEF Boundary!Cardinality, Cardinality

LEMMA AppendFacts ==
    ASSUME NEW S, NEW s \in Seq(S), NEW x \in S
    PROVE  /\ Append(s, x) \in Seq(S)
           /\ Len(s) \in Nat /\ DOMAIN s = 1..Len(s)
           /\ Len(Append(s, x)) = Len(s) + 1
           /\ DOMAIN Append(s, x) = 1..(Len(s) + 1)
           /\ Append(s, x)[Len(s) + 1] = x
           /\ \A i \in 1..Len(s) : Append(s, x)[i] = s[i]
  OBVIOUS

\* How Record changes the count of the decoded runs.
LEMMA DecodedAppend ==
    ASSUME events \in Seq(PhaseNames), NEW phase \in PhaseNames
    PROVE  Cardinality({i \in DOMAIN Append(events, phase) :
                            Append(events, phase)[i] = "vae_complete"}) =
               Cardinality(Decoded) + IF phase = "vae_complete" THEN 1 ELSE 0
  <1> DEFINE es == Append(events, phase)
             n == Len(events)
  <1>1. /\ n \in Nat /\ DOMAIN events = 1..n
        /\ DOMAIN es = 1..(n + 1)
        /\ es[n + 1] = phase
        /\ \A i \in 1..n : es[i] = events[i]
    <2> HIDE DEF PhaseNames
    <2> QED BY AppendFacts
  <1> HIDE DEF es, n
  <1>2. IsFiniteSet(Decoded) /\ n + 1 \notin Decoded
    <2>1. IsFiniteSet(1..n)
      BY <1>1, FS_Interval
    <2>2. Decoded \subseteq 1..n
      BY <1>1 DEF Decoded
    <2>3. IsFiniteSet(Decoded)
      BY <2>1, <2>2, FS_Subset
    <2> QED BY <1>1, <2>2, <2>3
  <1>3. {i \in DOMAIN es : es[i] = "vae_complete"} =
            IF phase = "vae_complete" THEN Decoded \cup {n + 1} ELSE Decoded
    BY <1>1 DEF Decoded
  <1>4. Cardinality(Decoded \cup {n + 1}) = Cardinality(Decoded) + 1
    BY <1>2, FS_AddElement
  <1>5. Cardinality(Decoded) \in Nat
    BY <1>2, FS_CardinalityType
  <1> DEFINE ds == {i \in DOMAIN es : es[i] = "vae_complete"}
  <1> HIDE DEF ds
  <1>6. Cardinality(ds) =
            Cardinality(Decoded) + IF phase = "vae_complete" THEN 1 ELSE 0
    <2>1. CASE phase = "vae_complete"
      BY <2>1, <1>3, <1>4 DEF ds
    <2>2. CASE phase # "vae_complete"
      <3>1. ds = Decoded
        BY <2>2, <1>3 DEF ds
      <3> QED BY <2>2, <3>1, <1>5
    <2> QED BY <2>1, <2>2
  <1> QED BY <1>6 DEF ds, es

\* What RecordIf does to the events, the file and the count.
LEMMA RecordStep ==
    ASSUME BoundaryType, ~Boundary!Writing, NEW c \in BOOLEAN, NEW phase \in PhaseNames,
           Boundary!RecordIf(c, phase)
    PROVE  /\ events' \in Seq(PhaseNames)
           /\ file' \in {events', Boundary!Torn}
           /\ Cardinality(Decoded)' =
                  IF c /\ phase = "vae_complete" THEN Cardinality(Decoded) + 1
                  ELSE Cardinality(Decoded)
  <1>0. Cardinality(Decoded) \in Nat
    <2>1. DOMAIN events = 1..Len(events) /\ Len(events) \in Nat
      BY DEF BoundaryType
    <2>2. Decoded \subseteq 1..Len(events)
      BY <2>1 DEF Decoded
    <2>3. IsFiniteSet(1..Len(events))
      BY <2>1, FS_Interval
    <2>4. IsFiniteSet(Decoded)
      BY <2>2, <2>3, FS_Subset
    <2> QED BY <2>4, FS_CardinalityType
  <1>1. CASE c
    <2>1. events' = Append(events, phase) /\ file' = Boundary!Torn
      BY <1>1 DEF Boundary!RecordIf, Boundary!Record
    <2>2. events' \in Seq(PhaseNames)
      BY <2>1, AppendFacts DEF BoundaryType
    <2>3. Cardinality(Decoded)' =
              Cardinality(Decoded) + IF phase = "vae_complete" THEN 1 ELSE 0
      BY <2>1, DecodedAppend DEF BoundaryType, Decoded
    <2> QED BY <1>0, <1>1, <2>1, <2>2, <2>3
  <1>2. CASE ~c
    <2>1. UNCHANGED <<events, file>>
      BY <1>2 DEF Boundary!RecordIf
    <2>2. UNCHANGED Decoded
      BY <2>1 DEF Decoded
    <2> QED BY <1>2, <2>1, <2>2 DEF BoundaryType, Boundary!Torn
  <1> QED BY <1>1, <1>2

LEMMA BoundaryQuiet == BoundaryInv /\ UNCHANGED boundary => BoundaryInv'
  <1> SUFFICES ASSUME BoundaryInv, UNCHANGED boundary PROVE BoundaryInv'
    OBVIOUS
  <1>1. UNCHANGED Decoded
    BY DEF Decoded, boundary
  <1> QED BY <1>1 DEF BoundaryInv, boundary, BoundaryType, GivenAway, PhasesCounted,
       Boundary!CleanupLane, Boundary!Torn, ReportIsWhole, Boundary!ReportIsWhole

\* One step of the 14B run.
LEMMA BoundaryStep == BoundaryInv /\ Boundary!Next => BoundaryInv'
  <1> SUFFICES ASSUME BoundaryInv, Boundary!Next PROVE BoundaryInv'
    OBVIOUS
  <1>0. /\ BoundaryType /\ GivenAway /\ PhasesCounted
        /\ opts.phases \in BOOLEAN /\ opts.patched \in BOOLEAN /\ opts.cleanup \in BOOLEAN
        /\ pcB # "done" => report = FALSE
    BY DEF BoundaryInv, BoundaryType, Boundary!Options
  <1>1. CASE Boundary!EncodePrompts
    <2>0. ~Boundary!Writing /\ UNCHANGED <<opts, report>> /\ pcB # "done"
      BY <1>1 DEF Boundary!EncodePrompts, Boundary!Goes
    <2>1. Boundary!RecordIf(opts.phases, "after_t5")
      BY <1>1 DEF Boundary!EncodePrompts
    <2>2. /\ events' \in Seq(PhaseNames)
          /\ file' \in {events', Boundary!Torn}
          /\ Cardinality(Decoded)' = Cardinality(Decoded)
      BY <1>0, <2>0, <2>1, RecordStep DEF PhaseNames
    <2>3. BoundaryType'
      BY <1>0, <1>1, <2>0, <2>2 DEF Boundary!EncodePrompts, Boundary!Goes, BoundaryType
    <2>4. GivenAway'
      BY <1>0, <1>1, <2>0 DEF Boundary!EncodePrompts, Boundary!Goes, GivenAway, BoundaryType, Boundary!CleanupLane
    <2>5. PhasesCounted'
      BY <1>0, <1>1, <2>0, <2>2 DEF Boundary!EncodePrompts, Boundary!Goes, PhasesCounted, BoundaryType
    <2>6. pcB' = "cleanup" => Boundary!CleanupLane'
      BY <1>1 DEF Boundary!EncodePrompts, Boundary!Goes, Boundary!CleanupLane
    <2> QED BY <1>0, <2>0, <2>3, <2>4, <2>5, <2>6 DEF BoundaryInv
  <1>2. CASE Boundary!LoadModel
    <2>0. ~Boundary!Writing /\ UNCHANGED <<opts, report>> /\ pcB # "done"
      BY <1>2 DEF Boundary!LoadModel, Boundary!Goes
    <2>1. UNCHANGED <<events, file>>
      BY <1>2 DEF Boundary!LoadModel
    <2>2. /\ events' \in Seq(PhaseNames)
          /\ file' \in {events', Boundary!Torn}
          /\ Cardinality(Decoded)' = Cardinality(Decoded)
      BY <1>0, <2>1 DEF BoundaryType, Decoded, Boundary!Torn
    <2>3. BoundaryType'
      BY <1>0, <1>2, <2>0, <2>2 DEF Boundary!LoadModel, Boundary!Goes, BoundaryType
    <2>4. GivenAway'
      BY <1>0, <1>2, <2>0 DEF Boundary!LoadModel, Boundary!Goes, GivenAway, BoundaryType, Boundary!CleanupLane
    <2>5. PhasesCounted'
      BY <1>0, <1>2, <2>0, <2>2 DEF Boundary!LoadModel, Boundary!Goes, PhasesCounted, BoundaryType
    <2>6. pcB' = "cleanup" => Boundary!CleanupLane'
      BY <1>2 DEF Boundary!LoadModel, Boundary!Goes, Boundary!CleanupLane
    <2> QED BY <1>0, <2>0, <2>3, <2>4, <2>5, <2>6 DEF BoundaryInv
  <1>3. CASE Boundary!BeginSample
    <2>0. ~Boundary!Writing /\ UNCHANGED <<opts, report>> /\ pcB # "done"
      BY <1>3 DEF Boundary!BeginSample, Boundary!Goes
    <2>1. UNCHANGED <<events, file>>
      BY <1>3 DEF Boundary!BeginSample
    <2>2. /\ events' \in Seq(PhaseNames)
          /\ file' \in {events', Boundary!Torn}
          /\ Cardinality(Decoded)' = Cardinality(Decoded)
      BY <1>0, <2>1 DEF BoundaryType, Decoded, Boundary!Torn
    <2>3. BoundaryType'
      BY <1>0, <1>3, <2>0, <2>2 DEF Boundary!BeginSample, Boundary!Goes, BoundaryType
    <2>4. GivenAway'
      BY <1>0, <1>3, <2>0 DEF Boundary!BeginSample, Boundary!Goes, GivenAway, BoundaryType, Boundary!CleanupLane
    <2>5. PhasesCounted'
      BY <1>0, <1>3, <2>0, <2>2 DEF Boundary!BeginSample, Boundary!Goes, PhasesCounted, BoundaryType
    <2>6. pcB' = "cleanup" => Boundary!CleanupLane'
      BY <1>3 DEF Boundary!BeginSample, Boundary!Goes, Boundary!CleanupLane
    <2> QED BY <1>0, <2>0, <2>3, <2>4, <2>5, <2>6 DEF BoundaryInv
  <1>4. CASE Boundary!Denoise
    <2>0. ~Boundary!Writing /\ UNCHANGED <<opts, report>> /\ pcB # "done"
      BY <1>4 DEF Boundary!Denoise, Boundary!Goes
    <2>1. Boundary!RecordIf(opts.patched /\ opts.phases, "before_vae")
      BY <1>4 DEF Boundary!Denoise
    <2>2. /\ events' \in Seq(PhaseNames)
          /\ file' \in {events', Boundary!Torn}
          /\ Cardinality(Decoded)' = Cardinality(Decoded)
      BY <1>0, <2>0, <2>1, RecordStep DEF PhaseNames
    <2>3. BoundaryType'
      BY <1>0, <1>4, <2>0, <2>2 DEF Boundary!Denoise, Boundary!Goes, BoundaryType
    <2>4. GivenAway'
      BY <1>0, <1>4, <2>0 DEF Boundary!Denoise, Boundary!Goes, GivenAway, BoundaryType, Boundary!CleanupLane
    <2>5. PhasesCounted'
      BY <1>0, <1>4, <2>0, <2>2 DEF Boundary!Denoise, Boundary!Goes, PhasesCounted, BoundaryType
    <2>6. pcB' = "cleanup" => Boundary!CleanupLane'
      BY <1>4 DEF Boundary!Denoise, Boundary!Goes, Boundary!CleanupLane
    <2> QED BY <1>0, <2>0, <2>3, <2>4, <2>5, <2>6 DEF BoundaryInv
  <1>5. CASE Boundary!ReleaseBeforeVae
    <2>0. ~Boundary!Writing /\ UNCHANGED <<opts, report>> /\ pcB # "done"
      BY <1>5 DEF Boundary!ReleaseBeforeVae, Boundary!Goes
    <2>1. Boundary!RecordIf(opts.phases, "after_cleanup")
      BY <1>5 DEF Boundary!ReleaseBeforeVae
    <2>2. /\ events' \in Seq(PhaseNames)
          /\ file' \in {events', Boundary!Torn}
          /\ Cardinality(Decoded)' = Cardinality(Decoded)
      BY <1>0, <2>0, <2>1, RecordStep DEF PhaseNames
    <2>3. BoundaryType'
      BY <1>0, <1>5, <2>0, <2>2 DEF Boundary!ReleaseBeforeVae, Boundary!Goes, BoundaryType
    <2>4. GivenAway'
      BY <1>0, <1>5, <2>0 DEF Boundary!ReleaseBeforeVae, Boundary!Goes, GivenAway, BoundaryType, Boundary!CleanupLane
    <2>5. PhasesCounted'
      BY <1>0, <1>5, <2>0, <2>2 DEF Boundary!ReleaseBeforeVae, Boundary!Goes, PhasesCounted, BoundaryType
    <2>6. pcB' = "cleanup" => Boundary!CleanupLane'
      BY <1>5 DEF Boundary!ReleaseBeforeVae, Boundary!Goes, Boundary!CleanupLane
    <2> QED BY <1>0, <2>0, <2>3, <2>4, <2>5, <2>6 DEF BoundaryInv
  <1>6. CASE Boundary!BeginDecode
    <2>0. ~Boundary!Writing /\ UNCHANGED <<opts, report>> /\ pcB # "done"
      BY <1>6 DEF Boundary!BeginDecode, Boundary!Goes
    <2>1. Boundary!RecordIf(opts.phases, "vae_start")
      BY <1>6 DEF Boundary!BeginDecode
    <2>2. /\ events' \in Seq(PhaseNames)
          /\ file' \in {events', Boundary!Torn}
          /\ Cardinality(Decoded)' = Cardinality(Decoded)
      BY <1>0, <2>0, <2>1, RecordStep DEF PhaseNames
    <2>3. BoundaryType'
      BY <1>0, <1>6, <2>0, <2>2 DEF Boundary!BeginDecode, Boundary!Goes, BoundaryType
    <2>4. GivenAway'
      BY <1>0, <1>6, <2>0 DEF Boundary!BeginDecode, Boundary!Goes, GivenAway, BoundaryType, Boundary!CleanupLane
    <2>5. PhasesCounted'
      BY <1>0, <1>6, <2>0, <2>2 DEF Boundary!BeginDecode, Boundary!Goes, PhasesCounted, BoundaryType
    <2>6. pcB' = "cleanup" => Boundary!CleanupLane'
      BY <1>6 DEF Boundary!BeginDecode, Boundary!Goes, Boundary!CleanupLane
    <2> QED BY <1>0, <2>0, <2>3, <2>4, <2>5, <2>6 DEF BoundaryInv
  <1>7. CASE Boundary!EndDecode
    <2>0. ~Boundary!Writing /\ UNCHANGED <<opts, report>> /\ pcB # "done"
      BY <1>7 DEF Boundary!EndDecode, Boundary!Goes
    <2>1. Boundary!RecordIf(opts.phases, "vae_complete")
      BY <1>7 DEF Boundary!EndDecode
    <2>2. /\ events' \in Seq(PhaseNames)
          /\ file' \in {events', Boundary!Torn}
          /\ Cardinality(Decoded)' = IF opts.phases THEN Cardinality(Decoded) + 1 ELSE Cardinality(Decoded)
      BY <1>0, <2>0, <2>1, RecordStep DEF PhaseNames
    <2>3. BoundaryType'
      BY <1>0, <1>7, <2>0, <2>2 DEF Boundary!EndDecode, Boundary!Goes, BoundaryType
    <2>4. GivenAway'
      BY <1>0, <1>7, <2>0 DEF Boundary!EndDecode, Boundary!Goes, GivenAway, BoundaryType, Boundary!CleanupLane
    <2>5. PhasesCounted'
      BY <1>0, <1>7, <2>0, <2>2 DEF Boundary!EndDecode, Boundary!Goes, PhasesCounted, BoundaryType
    <2>6. pcB' = "cleanup" => Boundary!CleanupLane'
      BY <1>7 DEF Boundary!EndDecode, Boundary!Goes, Boundary!CleanupLane
    <2> QED BY <1>0, <2>0, <2>3, <2>4, <2>5, <2>6 DEF BoundaryInv
  <1>8. CASE Boundary!FinishRun
    <2>0. ~Boundary!Writing /\ UNCHANGED <<opts, report>> /\ pcB # "done"
      BY <1>8 DEF Boundary!FinishRun, Boundary!Goes
    <2>1. UNCHANGED <<events, file>>
      BY <1>8 DEF Boundary!FinishRun
    <2>2. /\ events' \in Seq(PhaseNames)
          /\ file' \in {events', Boundary!Torn}
          /\ Cardinality(Decoded)' = Cardinality(Decoded)
      BY <1>0, <2>1 DEF BoundaryType, Decoded, Boundary!Torn
    <2>3. BoundaryType'
      BY <1>0, <1>8, <2>0, <2>2 DEF Boundary!FinishRun, Boundary!Goes, BoundaryType
    <2>4. GivenAway'
      BY <1>0, <1>8, <2>0 DEF Boundary!FinishRun, Boundary!Goes, GivenAway, BoundaryType, Boundary!CleanupLane
    <2>5. PhasesCounted'
      BY <1>0, <1>8, <2>0, <2>2 DEF Boundary!FinishRun, Boundary!Goes, PhasesCounted, BoundaryType
    <2>6. pcB' = "cleanup" => Boundary!CleanupLane'
      BY <1>8 DEF Boundary!FinishRun, Boundary!Goes, Boundary!CleanupLane
    <2> QED BY <1>0, <2>0, <2>3, <2>4, <2>5, <2>6 DEF BoundaryInv
  <1>9. CASE Boundary!WriteReport
    <2>0. pcB' # "cleanup"
      BY <1>9 DEF Boundary!WriteReport, Boundary!Goes
    <2>1. /\ UNCHANGED <<opts, holders, events, file, runs>>
          /\ pcB = "runs" /\ pcB' = "done" /\ report' = TRUE
          /\ Len(runs) = opts.repeat /\ ~Boundary!Writing
      BY <1>9 DEF Boundary!WriteReport, Boundary!Goes
    <2>2. BoundaryType' /\ GivenAway'
      BY <1>0, <2>1 DEF BoundaryType, GivenAway, Boundary!CleanupLane, Boundary!Torn
    <2>3. PhasesCounted'
      BY <2>1 DEF PhasesCounted
    <2>4. file = events
      BY <1>0, <2>1 DEF BoundaryType, Boundary!Writing
    <2>5. Boundary!CleanupLane => opts.repeat <= 1
      BY <1>0, <2>1 DEF GivenAway, BoundaryType
    <2>6. opts.phases => Cardinality(Decoded) = opts.repeat
      BY <1>0, <2>1 DEF PhasesCounted
    <2>7. opts.phases =>
              Boundary!Cardinality({i \in DOMAIN events : events[i] = "vae_complete"})
                  = opts.repeat
      BY <2>6, SameCardinality DEF Decoded
    <2>9. ReportIsWhole'
      <3>1. (opts.phases =>
              Boundary!Cardinality({i \in DOMAIN events : events[i] = "vae_complete"})
                  = opts.repeat)'
        BY <2>7, <2>1
      <3>2. (file = events)' /\ (Len(runs) = opts.repeat)'
        BY <2>1, <2>4
      <3>3. (Boundary!CleanupLane => opts.repeat <= 1)'
        BY <2>1, <2>5 DEF Boundary!CleanupLane
      <3> QED BY <3>1, <3>2, <3>3, Zenon DEF ReportIsWhole, Boundary!ReportIsWhole
    <2> QED BY <2>0, <2>1, <2>2, <2>3, <2>9 DEF BoundaryInv
  <1>10. CASE Boundary!WriteEvents
    <2>1. /\ UNCHANGED <<opts, pcB, holders, events, runs, report>>
          /\ pcB # "done" /\ file' = events
      BY <1>10 DEF Boundary!WriteEvents
    <2>2. UNCHANGED Decoded
      BY <2>1 DEF Decoded
    <2>3. BoundaryType' /\ GivenAway' /\ PhasesCounted'
      BY <1>0, <2>1, <2>2 DEF BoundaryType, GivenAway, PhasesCounted, Boundary!CleanupLane,
         Boundary!Torn
    <2> QED BY <1>0, <2>1, <2>3 DEF BoundaryInv, Boundary!CleanupLane
  <1>11. CASE Boundary!Ends
    <2>1. /\ UNCHANGED <<opts, holders, events, file, runs, report>>
          /\ pcB # "done" /\ pcB' = "done"
      BY <1>11 DEF Boundary!Ends
    <2>2. BoundaryType' /\ GivenAway' /\ PhasesCounted'
      BY <1>0, <2>1 DEF BoundaryType, GivenAway, PhasesCounted, Boundary!CleanupLane,
         Boundary!Torn
    <2> QED BY <1>0, <2>1, <2>2 DEF BoundaryInv
  <1>12. CASE Boundary!Ended
    BY <1>12, BoundaryQuiet DEF Boundary!Ended, Boundary!vars, boundary
  <1> QED BY <1>1, <1>2, <1>3, <1>4, <1>5, <1>6, <1>7, <1>8, <1>9, <1>10, <1>11,
             <1>12 DEF Boundary!Next

LEMMA BoundaryHolds == Spec => []BoundaryInv
  <1>1. BoundaryInv /\ [Next]_vars => BoundaryInv'
    BY OneProgram, BoundaryQuiet, BoundaryStep
  <1> QED BY <1>1, BoundaryInit, PTL DEF Spec

\* metrics.json is written only when all runs are in it, never for two runs in
\* the cleanup lane, and with the phases that are on disk.
THEOREM ReportAlwaysWhole == Spec => []ReportIsWhole
  <1>1. BoundaryInv => ReportIsWhole
    BY DEF BoundaryInv, ReportIsWhole, Boundary!ReportIsWhole
  <1> QED BY <1>1, BoundaryHolds, PTL

-----------------------------------------------------------------------------
(* CompiledHelpers *)

AllGraphs == Launcher!Helpers \X {"1008"}

\* Every way to the session leads through the prewarm when one is asked for,
\* and the prewarm calls every helper that a block calls.
WarmedUp ==
    /\ prewarm => lane # "region"
    /\ prewarm /\ pcL \in {"prepare", "session"} =>
           AllGraphs \subseteq graphs
    /\ prewarm /\ tokens = "1008" => cold = {}

\* A block that has lost its forward is one whose forward is kept; before the
\* constructor is patched, before it has run, and at the ends that
\* OriginalsRestored names, nothing is replaced.
KeptForwards ==
    /\ blocks \in [Launcher!Blocks -> {"eager", "pure", "wrapped"}]
    /\ lane = "pure" =>
           \A b \in Launcher!Blocks : blocks[b] # "eager" => b \in installation
    /\ pcL \in {"start", "patch"} => ctor = "original"
    /\ pcL \in {"start", "patch", "import", "live", "construct", "install"} =>
           \A b \in Launcher!Blocks : blocks[b] = "eager"
    /\ OriginalsRestored

LauncherInv == WarmedUp /\ KeptForwards

LEMMA LauncherInit == Init => LauncherInv
  BY DEF Init, Launcher!Init, LauncherInv, WarmedUp, KeptForwards,
     OriginalsRestored, Launcher!OriginalsRestored, Launcher!Ended

LEMMA LauncherQuiet == LauncherInv /\ UNCHANGED launcher => LauncherInv'
  <1> SUFFICES ASSUME WarmedUp, KeptForwards, UNCHANGED launcher
               PROVE  WarmedUp' /\ KeptForwards'
    BY DEF LauncherInv
  <1>1. UNCHANGED <<lane, prewarm, tokens, pcL, ctor, blocks, installation,
                    graphs, cold>>
    BY DEF launcher
  <1>2. WarmedUp'
    BY <1>1 DEF WarmedUp
  <1>3. OriginalsRestored'
    BY <1>1 DEF KeptForwards, OriginalsRestored, Launcher!OriginalsRestored,
       Launcher!Ended
  <1>4. KeptForwards'
    BY <1>1, <1>3 DEF KeptForwards
  <1> QED BY <1>2, <1>4

\* Whatever a replaced block calls, with an activation of either type, is a
\* helper that the prewarm has called.
LEMMA CalledIsWarm == Launcher!Called \subseteq Launcher!Helpers
  BY DEF Launcher!Called, Launcher!Helpers, Launcher!Residual

LEMMA PrewarmCallsAll ==
    Launcher!Prewarm => graphs' = graphs \cup AllGraphs
  BY DEF AllGraphs, Launcher!Prewarm, Launcher!Helpers, Launcher!Residual

LEMMA LauncherStep == LauncherInv /\ Launcher!Next => LauncherInv'
  <1> SUFFICES ASSUME LauncherInv, Launcher!Next PROVE LauncherInv'
    OBVIOUS
  <1>0. WarmedUp /\ KeptForwards
    BY DEF LauncherInv
  <1>1. CASE Launcher!LoadTunings
    <2>1. WarmedUp'
      BY <1>0, <1>1 DEF Launcher!LoadTunings, Launcher!Step, Launcher!arguments, WarmedUp
    <2>2. KeptForwards'
      BY <1>0, <1>1 DEF Launcher!LoadTunings, Launcher!Step, Launcher!arguments, KeptForwards,
         OriginalsRestored, Launcher!OriginalsRestored, Launcher!Ended, Launcher!Leading
    <2> QED BY <2>1, <2>2 DEF LauncherInv
  <1>2. CASE Launcher!PatchConstructor
    <2>1. WarmedUp'
      BY <1>0, <1>2 DEF Launcher!PatchConstructor, Launcher!Step, Launcher!arguments, WarmedUp
    <2>2. KeptForwards'
      BY <1>0, <1>2 DEF Launcher!PatchConstructor, Launcher!Step, Launcher!arguments, KeptForwards,
         OriginalsRestored, Launcher!OriginalsRestored, Launcher!Ended, Launcher!Leading
    <2> QED BY <2>1, <2>2 DEF LauncherInv
  <1>3. CASE Launcher!ImportLive
    <2>1. WarmedUp'
      <3>1. /\ pcL' = "live" \/ pcL' = "import failed"
            /\ UNCHANGED <<lane, prewarm, requested, tokens, graphs, cold>>
        BY <1>3 DEF Launcher!ImportLive, Launcher!Step, Launcher!arguments
      <3> QED BY <1>0, <3>1 DEF WarmedUp
    <2>2. KeptForwards'
      BY <1>0, <1>3 DEF Launcher!ImportLive, Launcher!Step, Launcher!arguments, KeptForwards,
         OriginalsRestored, Launcher!OriginalsRestored, Launcher!Ended, Launcher!Leading
    <2> QED BY <2>1, <2>2 DEF LauncherInv
  <1>4. CASE Launcher!Aborts
    <2>1. WarmedUp'
      BY <1>0, <1>4 DEF Launcher!Aborts, Launcher!Step, Launcher!arguments, WarmedUp
    <2>2. KeptForwards'
      BY <1>0, <1>4 DEF Launcher!Aborts, Launcher!Step, Launcher!arguments, KeptForwards,
         OriginalsRestored, Launcher!OriginalsRestored, Launcher!Ended, Launcher!Leading
    <2> QED BY <2>1, <2>2 DEF LauncherInv
  <1>5. CASE Launcher!StartLive
    <2>1. WarmedUp'
      BY <1>0, <1>5 DEF Launcher!StartLive, Launcher!Step, Launcher!arguments, WarmedUp
    <2>2. KeptForwards'
      BY <1>0, <1>5 DEF Launcher!StartLive, Launcher!Step, Launcher!arguments, KeptForwards,
         OriginalsRestored, Launcher!OriginalsRestored, Launcher!Ended, Launcher!Leading
    <2> QED BY <2>1, <2>2 DEF LauncherInv
  <1>6. CASE Launcher!Construct
    <2>1. WarmedUp'
      BY <1>0, <1>6 DEF Launcher!Construct, Launcher!Step, Launcher!arguments, WarmedUp
    <2>2. KeptForwards'
      BY <1>0, <1>6 DEF Launcher!Construct, Launcher!Step, Launcher!arguments, KeptForwards,
         OriginalsRestored, Launcher!OriginalsRestored, Launcher!Ended, Launcher!Leading
    <2> QED BY <2>1, <2>2 DEF LauncherInv
  <1>7. CASE Launcher!Install
    <2>1. WarmedUp'
      BY <1>0, <1>7 DEF Launcher!Install, Launcher!Step, Launcher!arguments, WarmedUp
    <2>2. KeptForwards'
      BY <1>0, <1>7 DEF Launcher!Install, Launcher!Step, Launcher!arguments, KeptForwards,
         OriginalsRestored, Launcher!OriginalsRestored, Launcher!Ended, Launcher!Leading
    <2> QED BY <2>1, <2>2 DEF LauncherInv
  <1>8. CASE Launcher!Wrap
    <2>1. WarmedUp'
      BY <1>0, <1>8 DEF Launcher!Wrap, Launcher!Step, Launcher!arguments, WarmedUp
    <2>2. KeptForwards'
      BY <1>0, <1>8 DEF Launcher!Wrap, Launcher!Step, Launcher!arguments, KeptForwards,
         OriginalsRestored, Launcher!OriginalsRestored, Launcher!Ended, Launcher!Leading
    <2> QED BY <2>1, <2>2 DEF LauncherInv
  <1>9. CASE Launcher!Prewarm
    <2>1. WarmedUp'
      BY <1>0, <1>9, PrewarmCallsAll DEF Launcher!Prewarm, Launcher!Step, Launcher!arguments, WarmedUp
    <2>2. KeptForwards'
      BY <1>0, <1>9 DEF Launcher!Prewarm, Launcher!Step, Launcher!arguments, KeptForwards,
         OriginalsRestored, Launcher!OriginalsRestored, Launcher!Ended, Launcher!Leading
    <2> QED BY <2>1, <2>2 DEF LauncherInv
  <1>10. CASE Launcher!PrepareSession
    <2>1. WarmedUp'
      BY <1>0, <1>10 DEF Launcher!PrepareSession, Launcher!Step, Launcher!arguments, WarmedUp
    <2>2. KeptForwards'
      BY <1>0, <1>10 DEF Launcher!PrepareSession, Launcher!Step, Launcher!arguments, KeptForwards,
         OriginalsRestored, Launcher!OriginalsRestored, Launcher!Ended, Launcher!Leading
    <2> QED BY <2>1, <2>2 DEF LauncherInv
  <1>11. CASE Launcher!EndSession
    <2>1. WarmedUp'
      BY <1>0, <1>11 DEF Launcher!EndSession, Launcher!Step, Launcher!arguments, WarmedUp
    <2>2. KeptForwards'
      BY <1>0, <1>11 DEF Launcher!EndSession, Launcher!Step, Launcher!arguments, KeptForwards,
         OriginalsRestored, Launcher!OriginalsRestored, Launcher!Ended, Launcher!Leading
    <2> QED BY <2>1, <2>2 DEF LauncherInv
  <1>12. CASE Launcher!TakeBack
    <2>1. WarmedUp'
      BY <1>0, <1>12 DEF Launcher!TakeBack, Launcher!Step, Launcher!arguments, WarmedUp
    <2>2. KeptForwards'
      BY <1>0, <1>12 DEF Launcher!TakeBack, Launcher!Step, Launcher!arguments, KeptForwards,
         OriginalsRestored, Launcher!OriginalsRestored, Launcher!Ended, Launcher!Leading
    <2> QED BY <2>1, <2>2 DEF LauncherInv
  <1>13. ASSUME NEW kind \in {"denoise", "clean"}, Launcher!BeginForward(kind)
         PROVE  LauncherInv'
    BY <1>0, <1>13 DEF Launcher!BeginForward, Launcher!arguments, LauncherInv, WarmedUp,
       KeptForwards, OriginalsRestored, Launcher!OriginalsRestored, Launcher!Ended
  <1>14. CASE Launcher!RunBlock
    <2>1. /\ pcL = "session" /\ UNCHANGED <<lane, prewarm, requested, tokens>>
          /\ UNCHANGED <<pcL, ctor, blocks, installation>>
      BY <1>14 DEF Launcher!RunBlock, Launcher!arguments
    <2>2. KeptForwards'
      BY <1>0, <2>1 DEF KeptForwards, OriginalsRestored, Launcher!OriginalsRestored, Launcher!Ended
    <2>3. \/ UNCHANGED <<graphs, cold>>
          \/ /\ graphs' = graphs \cup Launcher!Called \X {tokens}
             /\ cold' = cold \cup ((Launcher!Called \X {tokens}) \ graphs)
      BY <1>14 DEF Launcher!RunBlock
    <2>4. prewarm /\ tokens = "1008" => cold' = {}
      BY <1>0, <2>1, <2>3, CalledIsWarm DEF WarmedUp, AllGraphs
    <2>5. graphs \subseteq graphs'
      BY <2>3
    <2>6. WarmedUp'
      BY <1>0, <2>1, <2>4, <2>5 DEF WarmedUp
    <2> QED BY <2>2, <2>6 DEF LauncherInv
  <1>15. CASE Launcher!CleanupFails
    <2>1. WarmedUp'
      BY <1>0, <1>15 DEF Launcher!CleanupFails, Launcher!Step, Launcher!arguments, WarmedUp
    <2>2. KeptForwards'
      BY <1>0, <1>15 DEF Launcher!CleanupFails, Launcher!Step, Launcher!arguments, KeptForwards,
         OriginalsRestored, Launcher!OriginalsRestored, Launcher!Ended
    <2> QED BY <2>1, <2>2 DEF LauncherInv
  <1>16. CASE Launcher!Returned
    BY <1>16, LauncherQuiet DEF Launcher!Returned, Launcher!vars, Launcher!arguments, launcher
  <1> QED BY <1>1, <1>2, <1>3, <1>4, <1>5, <1>6, <1>7, <1>8, <1>9, <1>10, <1>11, <1>12,
             <1>13, <1>14, <1>15, <1>16 DEF Launcher!Next

LEMMA LauncherHolds == Spec => []LauncherInv
  <1>1. LauncherInv /\ [Next]_vars => LauncherInv'
    BY OneProgram, LauncherQuiet, LauncherStep
  <1> QED BY <1>1, LauncherInit, PTL DEF Spec

\* After a prewarm no forward of the session waits for a graph, whatever number
\* of blocks the model has and how many are replaced.
THEOREM NothingIsCold == Spec => []NoColdGraph
  <1>1. LauncherInv => NoColdGraph
    BY DEF LauncherInv, WarmedUp, NoColdGraph, Launcher!NoColdGraph
  <1> QED BY <1>1, LauncherHolds, PTL

\* At every end of run_pure_compile_live.py every block has its own forward, and
\* at every end of the two launchers a class still patched has made no model,
\* for any number of blocks.
THEOREM OriginalsAlwaysRestored == Spec => []OriginalsRestored
  <1>1. LauncherInv => OriginalsRestored
    BY DEF LauncherInv, KeptForwards
  <1> QED BY <1>1, LauncherHolds, PTL

-----------------------------------------------------------------------------
(* BranchProbe: the input probe *)

\* From the first RGB frame of the first branch until the clean pass has ended
\* the key either has not come or has come during that time; whoever waits for
\* the thread finds its arrival on the right side of clean_end.
WorkerInv ==
    /\ pcP \in {"rgb0", "clean_end"} => ~Probe!InPrefix
    /\ pcP = "collect" => Probe!InPrefix
    /\ pcP \in {"commit", "clean_end"} /\ ~Probe!InPrefix /\ Probe!Current = 1 =>
           \/ worker.state = "asleep"
           \/ worker.state = "during" /\ worker.arrival \in 0..clock
    /\ pcP = "join" =>
           \/ worker.state = "asleep"
           \/ worker.state = "during" /\ worker.arrival \in 0..(clock - 1)
           \/ worker.state = "later" /\ worker.arrival = clock

InputInv == clock \in Nat /\ WorkerInv /\ ProbeIsHonest

LEMMA InputInit == Init => InputInv
  BY DEF Init, Probe!Init, InputInv, WorkerInv, ProbeIsHonest, Probe!ProbeIsHonest,
     Probe!NoProbe

LEMMA InputQuiet == InputInv /\ UNCHANGED branches => InputInv'
  BY DEF InputInv, WorkerInv, ProbeIsHonest, Probe!ProbeIsHonest, branches,
     Probe!InPrefix, Probe!Current

LEMMA InputStep == InputInv /\ Probe!Next => InputInv'
  <1> SUFFICES ASSUME InputInv, Probe!Next PROVE InputInv'
    OBVIOUS
  <1>0. clock \in Nat /\ WorkerInv /\ ProbeIsHonest
    BY DEF InputInv
  <1>1. CASE Probe!GenerateChunk
    <2>1. clock' \in Nat /\ ProbeIsHonest'
      BY <1>0, <1>1 DEF Probe!GenerateChunk, Probe!input, Probe!presented, Probe!kept, Probe!session, Probe!model, Probe!Goes,
         ProbeIsHonest, Probe!ProbeIsHonest, Probe!NoProbe
    <2>2. WorkerInv'
      BY <1>0, <1>1 DEF Probe!GenerateChunk, Probe!input, Probe!presented, Probe!kept, Probe!session, Probe!model, Probe!Goes,
         WorkerInv, Probe!InPrefix, Probe!Current
    <2> QED BY <2>1, <2>2 DEF InputInv
  <1>2. CASE Probe!CommitCleanKV
    <2>1. clock' \in Nat /\ ProbeIsHonest'
      BY <1>0, <1>2 DEF Probe!CommitCleanKV, Probe!input, Probe!presented, Probe!kept, Probe!session, Probe!model, Probe!Goes,
         ProbeIsHonest, Probe!ProbeIsHonest, Probe!NoProbe
    <2>2. /\ clock' = clock + 1 /\ pcP = "commit"
          /\ UNCHANGED <<worker, common, measured>>
          /\ pcP' \in {"commit", "clean_end", "generate", "clone"}
          /\ pcP' = "clean_end" => ~Probe!InPrefix
      BY <1>2 DEF Probe!CommitCleanKV, Probe!kept, Probe!Goes
    <2>3. UNCHANGED <<Probe!InPrefix, Probe!Current>>
      BY <2>2 DEF Probe!InPrefix, Probe!Current
    <2>4. WorkerInv'
      BY <1>0, <2>2, <2>3 DEF WorkerInv
    <2> QED BY <2>1, <2>4 DEF InputInv
  <1>3. CASE Probe!Collect
    <2>1. clock' \in Nat /\ ProbeIsHonest'
      BY <1>0, <1>3 DEF Probe!Collect, Probe!input, Probe!presented, Probe!kept, Probe!session, Probe!model, Probe!Goes,
         ProbeIsHonest, Probe!ProbeIsHonest, Probe!NoProbe
    <2>2. WorkerInv'
      BY <1>0, <1>3 DEF Probe!Collect, Probe!input, Probe!presented, Probe!kept, Probe!session, Probe!model, Probe!Goes,
         WorkerInv, Probe!InPrefix, Probe!Current
    <2> QED BY <2>1, <2>2 DEF InputInv
  <1>4. CASE Probe!CloneCommon
    <2>1. clock' \in Nat /\ ProbeIsHonest'
      BY <1>0, <1>4 DEF Probe!CloneCommon, Probe!input, Probe!presented, Probe!kept, Probe!session, Probe!model, Probe!Goes,
         ProbeIsHonest, Probe!ProbeIsHonest, Probe!NoProbe
    <2>2. WorkerInv'
      BY <1>0, <1>4 DEF Probe!CloneCommon, Probe!input, Probe!presented, Probe!kept, Probe!session, Probe!model, Probe!Goes,
         WorkerInv, Probe!InPrefix, Probe!Current
    <2> QED BY <2>1, <2>2 DEF InputInv
  <1>5. CASE Probe!BeginBranch
    <2>1. clock' \in Nat /\ ProbeIsHonest'
      BY <1>0, <1>5 DEF Probe!BeginBranch, Probe!input, Probe!presented, Probe!kept, Probe!session, Probe!model, Probe!Goes,
         ProbeIsHonest, Probe!ProbeIsHonest, Probe!NoProbe
    <2>2. WorkerInv'
      BY <1>0, <1>5 DEF Probe!BeginBranch, Probe!input, Probe!presented, Probe!kept, Probe!session, Probe!model, Probe!Goes,
         WorkerInv, Probe!InPrefix, Probe!Current
    <2> QED BY <2>1, <2>2 DEF InputInv
  <1>6. CASE Probe!FeedPrefix
    <2>1. clock' \in Nat /\ ProbeIsHonest'
      BY <1>0, <1>6 DEF Probe!FeedPrefix, Probe!input, Probe!presented, Probe!kept, Probe!session, Probe!model, Probe!Goes,
         ProbeIsHonest, Probe!ProbeIsHonest, Probe!NoProbe
    <2>2. WorkerInv'
      BY <1>0, <1>6 DEF Probe!FeedPrefix, Probe!input, Probe!presented, Probe!kept, Probe!session, Probe!model, Probe!Goes,
         WorkerInv, Probe!InPrefix, Probe!Current
    <2> QED BY <2>1, <2>2 DEF InputInv
  <1>7. CASE Probe!FirstFrame
    <2>1. clock' \in Nat /\ ProbeIsHonest'
      BY <1>0, <1>7 DEF Probe!FirstFrame, Probe!input, Probe!presented, Probe!kept, Probe!session, Probe!model, Probe!Goes,
         ProbeIsHonest, Probe!ProbeIsHonest, Probe!NoProbe
    <2>2. WorkerInv'
      BY <1>0, <1>7 DEF Probe!FirstFrame, Probe!input, Probe!presented, Probe!kept, Probe!session, Probe!model, Probe!Goes,
         WorkerInv, Probe!InPrefix, Probe!Current
    <2> QED BY <2>1, <2>2 DEF InputInv
  <1>8. CASE Probe!Arrive
    <2>1. clock' \in Nat /\ ProbeIsHonest'
      BY <1>0, <1>8 DEF Probe!Arrive, Probe!input, Probe!presented, Probe!kept, Probe!session, Probe!model, Probe!Goes,
         ProbeIsHonest, Probe!ProbeIsHonest, Probe!NoProbe
    <2>2. WorkerInv'
      BY <1>0, <1>8 DEF Probe!Arrive, Probe!input, Probe!presented, Probe!kept, Probe!session, Probe!model, Probe!Goes,
         WorkerInv, Probe!InPrefix, Probe!Current
    <2> QED BY <2>1, <2>2 DEF InputInv
  <1>9. CASE Probe!CleanEnd
    <2>1. clock' \in Nat /\ ProbeIsHonest'
      BY <1>0, <1>9 DEF Probe!CleanEnd, Probe!input, Probe!presented, Probe!kept, Probe!session, Probe!model, Probe!Goes,
         ProbeIsHonest, Probe!ProbeIsHonest, Probe!NoProbe
    <2>2. WorkerInv'
      BY <1>0, <1>9 DEF Probe!CleanEnd, Probe!input, Probe!presented, Probe!kept, Probe!session, Probe!model, Probe!Goes,
         WorkerInv, Probe!InPrefix, Probe!Current
    <2> QED BY <2>1, <2>2 DEF InputInv
  <1>10. CASE Probe!JoinWorker
    <2>0. /\ clock' = clock /\ pcP = "join"
          /\ probe' = [observed |-> worker.state # "asleep",
                       during |-> Probe!DuringClean(worker.state # "asleep"),
                       truth |-> worker.state = "during"]
      BY <1>10 DEF Probe!JoinWorker, Probe!Goes
    <2>1. clock' \in Nat /\ ProbeIsHonest'
      <3>1. Probe!DuringClean(worker.state # "asleep") = (worker.state = "during")
        BY <1>0, <2>0 DEF WorkerInv, Probe!DuringClean, Probe!CleanEndAt
      <3>2. worker.state = "during" => worker.state # "asleep"
        OBVIOUS
      <3>3. /\ probe'.during = (worker.state = "during")
            /\ probe'.truth = (worker.state = "during")
            /\ probe'.observed = (worker.state # "asleep")
        BY <2>0, <3>1
      <3> QED BY <1>0, <2>0, <3>2, <3>3 DEF ProbeIsHonest, Probe!ProbeIsHonest
    <2>2. WorkerInv'
      BY <1>0, <1>10 DEF Probe!JoinWorker, Probe!input, Probe!presented, Probe!kept, Probe!session, Probe!model, Probe!Goes,
         WorkerInv, Probe!InPrefix, Probe!Current
    <2> QED BY <2>1, <2>2 DEF InputInv
  <1>11. CASE Probe!RemainingFrame
    <2>1. clock' \in Nat /\ ProbeIsHonest'
      BY <1>0, <1>11 DEF Probe!RemainingFrame, Probe!input, Probe!presented, Probe!kept, Probe!session, Probe!model, Probe!Goes,
         ProbeIsHonest, Probe!ProbeIsHonest, Probe!NoProbe
    <2>2. WorkerInv'
      BY <1>0, <1>11 DEF Probe!RemainingFrame, Probe!input, Probe!presented, Probe!kept, Probe!session, Probe!model, Probe!Goes,
         WorkerInv, Probe!InPrefix, Probe!Current
    <2> QED BY <2>1, <2>2 DEF InputInv
  <1>12. CASE Probe!FinishBranch
    <2>1. clock' \in Nat /\ ProbeIsHonest'
      BY <1>0, <1>12 DEF Probe!FinishBranch, Probe!input, Probe!presented, Probe!kept, Probe!session, Probe!model, Probe!Goes,
         ProbeIsHonest, Probe!ProbeIsHonest, Probe!NoProbe
    <2>2. WorkerInv'
      BY <1>0, <1>12 DEF Probe!FinishBranch, Probe!input, Probe!presented, Probe!kept, Probe!session, Probe!model, Probe!Goes,
         WorkerInv, Probe!InPrefix, Probe!Current
    <2> QED BY <2>1, <2>2 DEF InputInv
  <1>13. CASE Probe!WriteResults
    <2>1. clock' \in Nat /\ ProbeIsHonest'
      BY <1>0, <1>13 DEF Probe!WriteResults, Probe!input, Probe!presented, Probe!kept, Probe!session, Probe!model, Probe!Goes,
         ProbeIsHonest, Probe!ProbeIsHonest, Probe!NoProbe
    <2>2. WorkerInv'
      BY <1>0, <1>13 DEF Probe!WriteResults, Probe!input, Probe!presented, Probe!kept, Probe!session, Probe!model, Probe!Goes,
         WorkerInv, Probe!InPrefix, Probe!Current
    <2> QED BY <2>1, <2>2 DEF InputInv
  <1>14. CASE Probe!Raise
    <2>1. clock' \in Nat /\ ProbeIsHonest'
      BY <1>0, <1>14 DEF Probe!Raise, Probe!input, Probe!presented, Probe!kept, Probe!session, Probe!model, Probe!Goes,
         ProbeIsHonest, Probe!ProbeIsHonest, Probe!NoProbe
    <2>2. WorkerInv'
      BY <1>0, <1>14 DEF Probe!Raise, Probe!input, Probe!presented, Probe!kept, Probe!session, Probe!model, Probe!Goes,
         WorkerInv, Probe!InPrefix, Probe!Current
    <2> QED BY <2>1, <2>2 DEF InputInv
  <1>15. CASE Probe!Finished
    BY <1>15, InputQuiet DEF Probe!Finished, Probe!vars, Probe!input, Probe!presented, Probe!kept, Probe!session, Probe!model, branches
  <1> QED BY <1>1, <1>2, <1>3, <1>4, <1>5, <1>6, <1>7, <1>8, <1>9, <1>10, <1>11, <1>12, <1>13, <1>14, <1>15
     DEF Probe!Next

\* The input probe tells the truth about the key: it says "during the clean
\* pass" exactly of a key that came between clean_start and clean_end, however
\* late it wakes up.
THEOREM ProbeAlwaysHonest == Spec => []ProbeIsHonest
  <1>1. InputInv /\ [Next]_vars => InputInv'
    BY OneProgram, InputQuiet, InputStep
  <1>2. InputInv => ProbeIsHonest
    BY DEF InputInv
  <1> QED BY <1>1, <1>2, InputInit, PTL DEF Spec

-----------------------------------------------------------------------------
(* CursorEquivalence and BranchProbe: the caches of a session.  KVCache is  *)
(* instantiated three times; what its instances do to a cache is stated     *)
(* here once, where `cursor` tells them apart: with "host" the forwards     *)
(* read the host cursors, else those of the tensors.                        *)

BlockIds == 1..CacheBlocks
Positions == 0..(Size - 1)
LastStep == Timesteps - 1
CleanPass == Timesteps

Lesser(a, b) == IF a < b THEN a ELSE b
EntryOf(n, pass) == [frame |-> n, pass |-> pass]
FrameAt(i, n) == IF n <= Size \/ i < Sink THEN i ELSE n - Size + i

\* The keys of n frames, the newest of them written by `pass`, and what
\* self-attention reads of them.
KeysOf(n, pass) ==
    [i \in Positions |->
        IF i < Lesser(n, Size)
        THEN EntryOf(FrameAt(i, n), IF FrameAt(i, n) = n - 1 THEN pass ELSE CleanPass)
        ELSE [frame |-> -1, pass |-> -1]]

EntriesOf(n, pass) ==
    {KeysOf(n, pass)[i] : i \in {j \in Positions : j < Lesser(n, Size)}}

\* A cache with the keys of n frames and all its cursors behind them.
Fields == {"k", "global", "local", "globalPy", "localPy", "cross"}

Holds(cursor, c, n, pass) ==
    /\ DOMAIN c = Fields
    /\ c.k = KeysOf(n, pass)
    /\ c.global = n /\ c.local = Lesser(n, Size)
    /\ cursor = "host" => c.globalPy = n /\ c.localPy = Lesser(n, Size)
    /\ c.cross \in BOOLEAN

\* A forward of one block for frame n, as KVCache's FullBlock and StoreOnly.
Global(cursor, c) == IF cursor = "host" THEN c.globalPy ELSE c.global
Local(cursor, c) == IF cursor = "host" THEN c.localPy ELSE c.local
Overflows(cursor, c, end) == end > Global(cursor, c) /\ 1 + Local(cursor, c) > Size
Evicted(cursor, c, end) ==
    IF Overflows(cursor, c, end) THEN 1 + Local(cursor, c) - Size ELSE 0
Rolled(cursor, c, end) ==
    IF ~Overflows(cursor, c, end) THEN c.k
    ELSE LET moved == Local(cursor, c) - Evicted(cursor, c, end) - Sink
         IN  [i \in Positions |->
                 IF i \in Sink..(Sink + moved - 1)
                 THEN c.k[i + Evicted(cursor, c, end)] ELSE c.k[i]]
LocalEnd(cursor, c, end) ==
    Local(cursor, c) + end - Global(cursor, c) - Evicted(cursor, c, end)
Stored(cursor, c, end, entry) ==
    [c EXCEPT !.k = [Rolled(cursor, c, end) EXCEPT ![LocalEnd(cursor, c, end) - 1] = entry]]
Advanced(cursor, c, end, st) ==
    [st EXCEPT !.global = end,
               !.local = LocalEnd(cursor, c, end),
               !.globalPy = IF cursor = "host" THEN end ELSE @,
               !.localPy = IF cursor = "host" THEN LocalEnd(cursor, c, end) ELSE @]
Attended(k, end) == {k[i] : i \in {j \in Positions : end - Size <= j /\ j < end}}

FullForward(cursor, cache, cacheNext, attendedNext, b, n, pass, flag) ==
    LET c == cache[b]
        st == Stored(cursor, c, n + 1, EntryOf(n, pass))
    IN  /\ cacheNext = [cache EXCEPT ![b] =
                          [Advanced(cursor, c, n + 1, st) EXCEPT
                              !.cross = @ \/ (pass # CleanPass /\ ~flag)]]
        /\ attendedNext = Attended(st.k, LocalEnd(cursor, c, n + 1))

StoringForward(cursor, cache, cacheNext, b, n, pass) ==
    cacheNext = [cache EXCEPT ![b] = Stored(cursor, @, n + 1, EntryOf(n, pass))]

-----------------------------------------------------------------------------
(* A session: its caches are a function of where it is, in chunk n          *)

\* The frames that block b has stored keys for, and the forward that has
\* written the newest of them.
EnteredAt(n, phase, s, b0, b) ==
    IF phase = "idle" \/ (phase = "denoise" /\ s = 0 /\ b >= b0) THEN n ELSE n + 1

PassAt(phase, s, b0, b) ==
    IF phase = "denoise" THEN IF b < b0 THEN s ELSE IF s = 0 THEN CleanPass ELSE s - 1
    ELSE IF phase = "generated" \/ (phase = "clean" /\ ~(b < b0)) THEN LastStep
    ELSE CleanPass

Filled(cache) == \A b \in BlockIds : cache[b].cross

CrossAt(cache, n, phase, s, b0) ==
    \A b \in BlockIds :
        /\ phase = "idle" => (cache[b].cross <=> n > 0)
        /\ phase = "denoise" /\ (s > 0 \/ b < b0) => cache[b].cross
        /\ phase \in {"generated", "clean"} => cache[b].cross

Session(cursor, cache, n, phase, s, b0) ==
    /\ DOMAIN cache = BlockIds
    /\ n \in Nat /\ s \in 0..LastStep /\ b0 \in BlockIds
    /\ phase \in {"idle", "denoise", "generated", "clean"}
    /\ phase \in {"idle", "generated"} => b0 = 1
    /\ phase \in {"generated", "clean"} => s = LastStep
    /\ \A b \in BlockIds :
          Holds(cursor, cache[b], EnteredAt(n, phase, s, b0, b), PassAt(phase, s, b0, b))
    /\ CrossAt(cache, n, phase, s, b0)

\* What forward j of chunk n has read, counted from 0 over all timesteps and
\* blocks.
ForwardRead(n, j) == <<EntriesOf(n + 1, j \div CacheBlocks), TRUE>>

\* The forwards of a chunk that are over.
ForwardsDone(phase, s, b0) ==
    IF phase = "idle" THEN 0
    ELSE IF phase = "denoise" THEN s * CacheBlocks + b0 - 1
    ELSE Timesteps * CacheBlocks

\* A cache that waits for the first or for a later forward for frame n.
Ready(cursor, c, n, p) == Holds(cursor, c, n, CleanPass) \/ Holds(cursor, c, n + 1, p)

WithKeys(c, keys) == [c EXCEPT !.k = keys]

\* A store turns the keys of n frames into those of n + 1 or, in a later
\* forward of the chunk, rewrites the newest entry.  All of the window is read.
LEMMA StoredKeys ==
    ASSUME NEW cursor, NEW c, NEW n \in Nat, NEW p, NEW pass,
           Ready(cursor, c, n, p)
    PROVE  /\ Stored(cursor, c, n + 1, EntryOf(n, pass)) =
                  WithKeys(c, KeysOf(n + 1, pass))
           /\ LocalEnd(cursor, c, n + 1) = Lesser(n + 1, Size)
  <1> DEFINE entry == EntryOf(n, pass)
             end == n + 1
             ks == [Rolled(cursor, c, end) EXCEPT ![LocalEnd(cursor, c, end) - 1] = entry]
             l == LocalEnd(cursor, c, end) - 1
             full == Global(cursor, c) = n /\ n >= Size
  <1>0. /\ Size \in Nat /\ Sink \in Nat /\ Sink < Size /\ n \in Nat
        /\ DOMAIN c.k = Positions
    BY CacheAssumption DEF Ready, Holds, KeysOf
  <1>a. \/ Global(cursor, c) = n /\ Local(cursor, c) = Lesser(n, Size)
               /\ c.k = KeysOf(n, CleanPass)
        \/ Global(cursor, c) = n + 1 /\ Local(cursor, c) = Lesser(n + 1, Size)
               /\ c.k = KeysOf(n + 1, p)
    BY DEF Ready, Holds, Global, Local
  <1>2. /\ LocalEnd(cursor, c, end) = Lesser(n + 1, Size)
        /\ Rolled(cursor, c, end) = [i \in Positions |->
                               IF full /\ Sink <= i /\ i < Size - 1
                               THEN c.k[i + 1] ELSE c.k[i]]
    <2>1. CASE Overflows(cursor, c, end)
      <3>1. full /\ Evicted(cursor, c, end) = 1 /\ Local(cursor, c) = Size
        BY <2>1, <1>0, <1>a DEF Overflows, Evicted, Lesser
      <3>2. \A i \in Positions : i \in Sink..(Sink + (Local(cursor, c) - 1 - Sink) - 1)
                                  <=> Sink <= i /\ i < Size - 1
        BY <3>1, <1>0 DEF Positions
      <3>3. Rolled(cursor, c, end) = [i \in Positions |->
                               IF full /\ Sink <= i /\ i < Size - 1
                               THEN c.k[i + 1] ELSE c.k[i]]
        BY <2>1, <3>1, <3>2 DEF Rolled
      <3>4. LocalEnd(cursor, c, end) = Lesser(n + 1, Size)
        BY <3>1, <1>0 DEF LocalEnd, Lesser
      <3> QED BY <3>3, <3>4
    <2>2. CASE ~Overflows(cursor, c, end)
      <3>1. ~full /\ LocalEnd(cursor, c, end) = Lesser(n + 1, Size)
        BY <2>2, <1>0, <1>a DEF Overflows, Evicted, LocalEnd, Lesser
      <3>2. Rolled(cursor, c, end) = c.k
        BY <2>2 DEF Rolled
      <3>3. c.k = [i \in Positions |-> c.k[i]]
        BY <1>a DEF KeysOf
      <3> QED BY <3>1, <3>2, <3>3
    <2> QED BY <2>1, <2>2
  <1>3. l = Lesser(n + 1, Size) - 1 /\ l \in Positions /\ FrameAt(l, n + 1) = n
    BY <1>0, <1>2 DEF Positions, Lesser, FrameAt
  <1>b. ks = [Rolled(cursor, c, end) EXCEPT ![l] = entry]
    OBVIOUS
  <1> HIDE DEF l, ks, entry, full
  <1>4. \A i \in Positions : ks[i] = IF i = l THEN entry
                                     ELSE IF full /\ Sink <= i /\ i < Size - 1
                                     THEN c.k[i + 1] ELSE c.k[i]
    BY <1>2, <1>3, <1>b
  <1>5. ASSUME NEW i \in Positions PROVE ks[i] = KeysOf(n + 1, pass)[i]
    <2>0. i \in Int /\ 0 <= i /\ i < Size /\ l \in Int
      BY <1>0, <1>3 DEF Positions
    <2>1. CASE i = l
      <3>1. ks[i] = entry /\ i < Lesser(n + 1, Size)
        BY <2>1, <1>0, <1>3, <1>4 DEF Lesser
      <3> QED BY <2>1, <3>1, <1>0, <1>3 DEF KeysOf, entry
    <2>2. CASE i > l
      <3>1. ~(full /\ Sink <= i /\ i < Size - 1) /\ ~(i < Lesser(n + 1, Size))
            /\ ~(i < Lesser(n, Size))
        BY <2>2, <2>0, <1>0, <1>3 DEF Lesser, full
      <3>2. ks[i] = c.k[i]
        BY <2>0, <2>2, <3>1, <1>4
      <3> QED BY <3>1, <3>2, <1>a DEF KeysOf
    <2>3. CASE i < l /\ full /\ Sink <= i
      <3>1. i + 1 \in Positions /\ i < Size - 1
        BY <2>3, <2>0, <1>0, <1>3 DEF Lesser, Positions
      <3>2. ks[i] = c.k[i + 1]
        BY <2>0, <2>3, <3>1, <1>4
      <3>3. /\ c.k = KeysOf(n, CleanPass)
            /\ i + 1 < Lesser(n, Size) /\ i < Lesser(n + 1, Size)
            /\ FrameAt(i + 1, n) = FrameAt(i, n + 1) /\ FrameAt(i, n + 1) # n
            /\ FrameAt(i + 1, n) = n - 1 => CleanPass = CleanPass
        BY <2>3, <2>0, <1>0, <1>3, <1>a DEF Lesser, FrameAt, full
      <3> QED BY <3>1, <3>2, <3>3, <1>0 DEF KeysOf
    <2>4. CASE i < l /\ ~(full /\ Sink <= i)
      <3>1. ks[i] = c.k[i] /\ i < Lesser(n + 1, Size)
        BY <2>4, <2>0, <1>0, <1>3, <1>4 DEF Lesser
      <3>2. FrameAt(i, n + 1) # n
        BY <2>4, <2>0, <1>0, <1>3 DEF Lesser, FrameAt
      <3>3. CASE c.k = KeysOf(n, CleanPass) /\ Global(cursor, c) = n
        <4>1. i < Lesser(n, Size) /\ FrameAt(i, n) = FrameAt(i, n + 1)
          BY <2>4, <3>3, <2>0, <1>0, <1>3 DEF Lesser, FrameAt, full
        <4> QED BY <3>1, <3>2, <3>3, <4>1, <1>0 DEF KeysOf
      <3>4. CASE c.k = KeysOf(n + 1, p)
        BY <3>1, <3>2, <3>4, <1>0 DEF KeysOf
      <3> QED BY <3>3, <3>4, <1>a
    <2> QED BY <2>0, <2>1, <2>2, <2>3, <2>4
  <1>6. DOMAIN ks = Positions
    BY <1>2, <1>b
  <1>7. ks = KeysOf(n + 1, pass)
    <2>1. ks = [i \in Positions |-> ks[i]]
      BY <1>2, <1>b
    <2>2. KeysOf(n + 1, pass) = [i \in Positions |-> KeysOf(n + 1, pass)[i]]
      BY DEF KeysOf
    <2> QED BY <1>5, <2>1, <2>2
  <1> QED BY <1>2, <1>7 DEF Stored, WithKeys, ks, entry

\* What a forward leaves, with the cursor updates and without them.
LEMMA ForwardHolds ==
    ASSUME NEW cursor, NEW c, NEW n \in Nat, NEW p, NEW pass,
           Ready(cursor, c, n, p)
    PROVE  LET st == Stored(cursor, c, n + 1, EntryOf(n, pass))
               d == Advanced(cursor, c, n + 1, st)
           IN  /\ Holds(cursor, d, n + 1, pass) /\ d.cross = c.cross
               /\ st.cross = c.cross
               /\ Holds(cursor, c, n + 1, p) => Holds(cursor, st, n + 1, pass)
               /\ Attended(st.k, LocalEnd(cursor, c, n + 1)) = EntriesOf(n + 1, pass)
  <1> DEFINE st == Stored(cursor, c, n + 1, EntryOf(n, pass))
             d == Advanced(cursor, c, n + 1, st)
             e == LocalEnd(cursor, c, n + 1)
  <1>1. st = WithKeys(c, KeysOf(n + 1, pass)) /\ e = Lesser(n + 1, Size)
    BY StoredKeys
  <1>2. DOMAIN c = Fields /\ c.cross \in BOOLEAN
    BY DEF Ready, Holds
  <1> HIDE DEF st, e
  <1>3. /\ DOMAIN st = Fields /\ st.k = KeysOf(n + 1, pass) /\ st.cross = c.cross
        /\ st.global = c.global /\ st.local = c.local
        /\ st.globalPy = c.globalPy /\ st.localPy = c.localPy
    BY <1>1, <1>2 DEF Fields, WithKeys
  <1>4. /\ DOMAIN d = Fields /\ d.k = st.k /\ d.cross = st.cross
        /\ d.global = n + 1 /\ d.local = e
        /\ cursor = "host" => d.globalPy = n + 1 /\ d.localPy = e
    BY <1>3 DEF Advanced, e, Fields
  <1> HIDE DEF d
  <1>5. Holds(cursor, d, n + 1, pass) /\ d.cross = c.cross
    BY <1>1, <1>2, <1>3, <1>4 DEF Holds
  <1>6. Holds(cursor, c, n + 1, p) => Holds(cursor, st, n + 1, pass)
    BY <1>2, <1>3 DEF Holds
  <1>7. Attended(st.k, e) = EntriesOf(n + 1, pass)
    <2>1. {j \in Positions : e - Size <= j /\ j < e} = {j \in Positions : j < e}
      BY <1>1, CacheAssumption DEF Positions, Lesser
    <2> QED BY <1>1, <1>3, <2>1 DEF Attended, EntriesOf
  <1> QED BY <1>3, <1>5, <1>6, <1>7 DEF st, d, e

\* The same of the cache of the block that runs, which also fills its
\* cross-attention unless it is told that this has been done.
BeforeForward(cursor, cache, cacheNext, attendedNext, b, n, p, pass, flag) ==
    /\ flag \in BOOLEAN /\ b \in BlockIds /\ n \in Nat
    /\ DOMAIN cache = BlockIds
    /\ flag => Filled(cache)
    /\ Ready(cursor, cache[b], n, p)
    /\ FullForward(cursor, cache, cacheNext, attendedNext, b, n, pass, flag)

AfterForward(cursor, cache, cacheNext, attendedNext, b, n, pass) ==
    /\ DOMAIN cacheNext = BlockIds
    /\ Holds(cursor, cacheNext[b], n + 1, pass)
    /\ cache[b].cross \/ pass # CleanPass => cacheNext[b].cross
    /\ \A o \in BlockIds : o # b => cacheNext[o] = cache[o]
    /\ attendedNext = EntriesOf(n + 1, pass)

\* A forward that stores, attends and advances keeps what its block holds.
LEMMA FullForwardHolds ==
    ASSUME NEW cursor, NEW cache, NEW cacheNext, NEW attendedNext, NEW b, NEW n,
           NEW p, NEW pass, NEW flag,
           BeforeForward(cursor, cache, cacheNext, attendedNext, b, n, p, pass, flag)
    PROVE  AfterForward(cursor, cache, cacheNext, attendedNext, b, n, pass)
  <1> DEFINE c == cache[b]
             st == Stored(cursor, c, n + 1, EntryOf(n, pass))
             d == Advanced(cursor, c, n + 1, st)
             x == [d EXCEPT !.cross = @ \/ (pass # CleanPass /\ ~flag)]
  <1>0. /\ flag \in BOOLEAN /\ b \in BlockIds /\ n \in Nat
        /\ DOMAIN cache = BlockIds
        /\ flag => Filled(cache)
        /\ Ready(cursor, c, n, p)
        /\ FullForward(cursor, cache, cacheNext, attendedNext, b, n, pass, flag)
    BY DEF BeforeForward
  <1>1. /\ Holds(cursor, d, n + 1, pass) /\ d.cross = c.cross
        /\ Attended(st.k, LocalEnd(cursor, c, n + 1)) = EntriesOf(n + 1, pass)
    BY <1>0, ForwardHolds
  <1>2. cacheNext = [cache EXCEPT ![b] = x] /\ attendedNext = EntriesOf(n + 1, pass)
    BY <1>0, <1>1 DEF FullForward
  <1>3. flag => c.cross
    BY <1>0 DEF Filled
  <1> HIDE DEF c, d
  <1>4. /\ DOMAIN x = Fields /\ x.k = d.k /\ x.global = d.global /\ x.local = d.local
        /\ x.globalPy = d.globalPy /\ x.localPy = d.localPy
        /\ x.cross = (d.cross \/ (pass # CleanPass /\ ~flag))
    BY <1>1 DEF Holds, Fields
  <1> HIDE DEF x
  <1>5. Holds(cursor, x, n + 1, pass)
    <2>1. x.cross \in BOOLEAN
      BY <1>4
    <2> QED BY <1>1, <1>4, <2>1 DEF Holds
  <1>6. (c.cross => x.cross) /\ (pass # CleanPass => x.cross)
    BY <1>1, <1>3, <1>4
  <1>7. cacheNext[b] = x /\ \A o \in BlockIds : o # b => cacheNext[o] = cache[o]
    BY <1>0, <1>2
  <1>8. DOMAIN cacheNext = BlockIds
    BY <1>0, <1>2
  <1> QED BY <1>2, <1>5, <1>6, <1>7, <1>8 DEF c, AfterForward

\* prepare_session: no frame, no cursor, no cross-attention.
Prepared ==
    [b \in BlockIds |->
        [k |-> [i \in Positions |-> [frame |-> -1, pass |-> -1]],
         global |-> 0, local |-> 0, globalPy |-> 0, localPy |-> 0, cross |-> FALSE]]

\* A session begins with nothing stored.
LEMMA SessionPrepared ==
    ASSUME NEW cursor
    PROVE  Session(cursor, Prepared, 0, "idle", 0, 1)
  <1> USE CacheAssumption
  <1>1. 1 \in BlockIds /\ 0 \in 0..LastStep
    BY DEF BlockIds, LastStep
  <1>2. KeysOf(0, CleanPass) = [i \in Positions |-> [frame |-> -1, pass |-> -1]]
    BY DEF KeysOf, Lesser, Positions
  <1>3. ASSUME NEW b \in BlockIds
        PROVE  /\ Holds(cursor, Prepared[b], 0, CleanPass)
               /\ Prepared[b].cross = FALSE
    <2>1. Prepared[b] = [k |-> KeysOf(0, CleanPass), global |-> 0, local |-> 0,
                         globalPy |-> 0, localPy |-> 0, cross |-> FALSE]
      BY <1>2 DEF Prepared
    <2>2. Lesser(0, Size) = 0
      BY DEF Lesser
    <2> QED BY <2>1, <2>2 DEF Holds, Fields
  <1>4. \A b \in BlockIds : /\ EnteredAt(0, "idle", 0, 1, b) = 0
                            /\ PassAt("idle", 0, 1, b) = CleanPass
    BY DEF EnteredAt, PassAt
  <1>5. CrossAt(Prepared, 0, "idle", 0, 1)
    <2> SUFFICES ASSUME NEW b \in BlockIds PROVE ~Prepared[b].cross
      BY DEF CrossAt
    <2>1. Prepared[b].cross = FALSE
      BY <1>3
    <2> QED BY <2>1
  <1>6. DOMAIN Prepared = BlockIds
    BY DEF Prepared
  <1> HIDE DEF Prepared
  <1> QED BY <1>1, <1>3, <1>4, <1>5, <1>6 DEF Session

\* generate_chunk is entered.
LEMMA SessionBegins ==
    ASSUME NEW cursor, NEW cache, NEW n, NEW s, NEW b0,
           Session(cursor, cache, n, "idle", s, b0)
    PROVE  Session(cursor, cache, n, "denoise", 0, 1)
  <1> USE CacheAssumption
  <1>1. /\ DOMAIN cache = BlockIds /\ n \in Nat
        /\ 1 \in BlockIds /\ 0 \in 0..LastStep
    BY DEF BlockIds, LastStep, Session
  <1>2. ASSUME NEW b \in BlockIds
        PROVE  Holds(cursor, cache[b], n, CleanPass)
    BY DEF Session, EnteredAt, PassAt
  <1>3. \A b \in BlockIds : /\ EnteredAt(n, "denoise", 0, 1, b) = n
                            /\ PassAt("denoise", 0, 1, b) = CleanPass
    BY DEF EnteredAt, PassAt, BlockIds
  <1>4. CrossAt(cache, n, "denoise", 0, 1)
    BY DEF CrossAt, BlockIds
  <1> QED BY <1>1, <1>2, <1>3, <1>4 DEF Session

\* commit_clean_kv is entered.
LEMMA SessionCommits ==
    ASSUME NEW cursor, NEW cache, NEW n, NEW s, NEW b0,
           Session(cursor, cache, n, "generated", s, b0)
    PROVE  Session(cursor, cache, n, "clean", s, b0) /\ b0 = 1
  <1>1. /\ DOMAIN cache = BlockIds /\ n \in Nat /\ b0 = 1 /\ b0 \in BlockIds
        /\ s = LastStep /\ s \in 0..LastStep
    BY DEF Session
  <1>2. ASSUME NEW b \in BlockIds
        PROVE  Holds(cursor, cache[b], n + 1, LastStep) /\ cache[b].cross
    BY DEF Session, EnteredAt, PassAt, CrossAt
  <1>3. \A b \in BlockIds : /\ EnteredAt(n, "clean", s, b0, b) = n + 1
                            /\ PassAt("clean", s, b0, b) = LastStep
    BY <1>1 DEF EnteredAt, PassAt, BlockIds
  <1>4. CrossAt(cache, n, "clean", s, b0)
    BY <1>2 DEF CrossAt
  <1> QED BY <1>1, <1>2, <1>3, <1>4 DEF Session

\* A denoising forward: the caches of all blocks, wherever it leaves the session.
LEMMA SessionDenoises ==
    ASSUME NEW cursor, NEW cache, NEW cacheNext, NEW attendedNext,
           NEW n, NEW s, NEW b0, NEW flag \in BOOLEAN,
           Session(cursor, cache, n, "denoise", s, b0), flag => Filled(cache),
           FullForward(cursor, cache, cacheNext, attendedNext, b0, n, s, flag)
    PROVE  /\ attendedNext = EntriesOf(n + 1, s)
           /\ cacheNext[b0].cross
           /\ Filled(cache) => Filled(cacheNext)
           /\ b0 < CacheBlocks => Session(cursor, cacheNext, n, "denoise", s, b0 + 1)
           /\ ~(b0 < CacheBlocks) =>
                 /\ Filled(cacheNext)
                 /\ s < LastStep => Session(cursor, cacheNext, n, "denoise", s + 1, 1)
                 /\ ~(s < LastStep) => Session(cursor, cacheNext, n, "generated", s, 1)
  <1> USE CacheAssumption
  <1>1. /\ DOMAIN cache = BlockIds /\ n \in Nat /\ b0 \in BlockIds
        /\ s \in 0..LastStep /\ s # CleanPass /\ s \in Nat /\ LastStep \in Nat
        /\ 1 \in BlockIds /\ b0 \in Nat
    BY DEF Session, LastStep, CleanPass, BlockIds
  <1>2. ASSUME NEW b \in BlockIds
        PROVE  /\ b < b0 => Holds(cursor, cache[b], n + 1, s) /\ cache[b].cross
               /\ ~(b < b0) /\ s = 0 => Holds(cursor, cache[b], n, CleanPass)
               /\ ~(b < b0) /\ s # 0 => Holds(cursor, cache[b], n + 1, s - 1)
               /\ s > 0 => cache[b].cross
    <2>1. /\ Holds(cursor, cache[b], EnteredAt(n, "denoise", s, b0, b),
                   PassAt("denoise", s, b0, b))
          /\ s > 0 \/ b < b0 => cache[b].cross
      BY DEF Session, CrossAt
    <2>2. b >= b0 <=> ~(b < b0)
      BY <1>1 DEF BlockIds
    <2> QED BY <1>1, <2>1, <2>2 DEF EnteredAt, PassAt
  <1>3. Holds(cursor, cache[b0], n, CleanPass) \/ Holds(cursor, cache[b0], n + 1, s - 1)
    BY <1>1, <1>2
  <1>4. /\ DOMAIN cacheNext = BlockIds
        /\ Holds(cursor, cacheNext[b0], n + 1, s)
        /\ cacheNext[b0].cross
        /\ \A o \in BlockIds : o # b0 => cacheNext[o] = cache[o]
        /\ attendedNext = EntriesOf(n + 1, s)
    <2>1. BeforeForward(cursor, cache, cacheNext, attendedNext, b0, n, s - 1, s, flag)
      BY <1>1, <1>3 DEF BeforeForward, Ready
    <2>2. AfterForward(cursor, cache, cacheNext, attendedNext, b0, n, s)
      BY <2>1, FullForwardHolds
    <2> QED BY <1>1, <2>2 DEF AfterForward
  <1>5. Filled(cache) => Filled(cacheNext)
    BY <1>4 DEF Filled
  <1>6. CASE b0 < CacheBlocks
    <2>1. b0 + 1 \in BlockIds
      BY <1>1, <1>6 DEF BlockIds
    <2>2. ASSUME NEW b \in BlockIds
          PROVE  Holds(cursor, cacheNext[b], EnteredAt(n, "denoise", s, b0 + 1, b),
                       PassAt("denoise", s, b0 + 1, b))
      <3>1. CASE b = b0
        <4>1. /\ EnteredAt(n, "denoise", s, b0 + 1, b) = n + 1
              /\ PassAt("denoise", s, b0 + 1, b) = s
          BY <3>1, <1>1 DEF EnteredAt, PassAt
        <4> QED BY <3>1, <4>1, <1>4
      <3>2. CASE b # b0
        <4>1. (b < b0 + 1 <=> b < b0) /\ (b >= b0 + 1 <=> b >= b0)
          BY <3>2, <1>1 DEF BlockIds
        <4>2. /\ EnteredAt(n, "denoise", s, b0 + 1, b) = EnteredAt(n, "denoise", s, b0, b)
              /\ PassAt("denoise", s, b0 + 1, b) = PassAt("denoise", s, b0, b)
          BY <4>1 DEF EnteredAt, PassAt
        <4> QED BY <3>2, <4>2, <1>4 DEF Session
      <3> QED BY <3>1, <3>2
    <2>3. CrossAt(cacheNext, n, "denoise", s, b0 + 1)
      <3> SUFFICES ASSUME NEW b \in BlockIds, s > 0 \/ b < b0 + 1
                   PROVE  cacheNext[b].cross
        BY DEF CrossAt
      <3>1. b = b0 \/ b < b0 \/ s > 0
        BY <1>1 DEF BlockIds
      <3> QED BY <3>1, <1>2, <1>4
    <2>4. Session(cursor, cacheNext, n, "denoise", s, b0 + 1)
      BY <1>1, <1>4, <2>1, <2>2, <2>3 DEF Session
    <2> QED BY <1>4, <1>5, <1>6, <2>4
  <1>7. CASE ~(b0 < CacheBlocks)
    <2>1. ASSUME NEW b \in BlockIds
          PROVE  Holds(cursor, cacheNext[b], n + 1, s) /\ cacheNext[b].cross
      <3>1. b = b0 \/ b < b0
        BY <1>1, <1>7 DEF BlockIds
      <3> QED BY <3>1, <1>2, <1>4
    <2>2. Filled(cacheNext)
      BY <2>1 DEF Filled
    <2>3. ASSUME s < LastStep PROVE Session(cursor, cacheNext, n, "denoise", s + 1, 1)
      <3>1. \A b \in BlockIds : /\ EnteredAt(n, "denoise", s + 1, 1, b) = n + 1
                                /\ PassAt("denoise", s + 1, 1, b) = s
        BY <1>1 DEF EnteredAt, PassAt, BlockIds
      <3>2. s + 1 \in 0..LastStep
        BY <2>3, <1>1
      <3>3. CrossAt(cacheNext, n, "denoise", s + 1, 1)
        BY <2>1 DEF CrossAt
      <3> QED BY <3>1, <3>2, <3>3, <1>1, <1>4, <2>1 DEF Session
    <2>4. ASSUME ~(s < LastStep) PROVE Session(cursor, cacheNext, n, "generated", s, 1)
      <3>1. s = LastStep
        BY <2>4, <1>1
      <3>2. \A b \in BlockIds : /\ EnteredAt(n, "generated", s, 1, b) = n + 1
                                /\ PassAt("generated", s, 1, b) = s
        BY <3>1 DEF EnteredAt, PassAt
      <3>3. CrossAt(cacheNext, n, "generated", s, 1)
        BY <2>1 DEF CrossAt
      <3> QED BY <3>1, <3>2, <3>3, <1>1, <1>4, <2>1 DEF Session
    <2> QED BY <1>4, <1>5, <1>7, <2>2, <2>3, <2>4
  <1> QED BY <1>6, <1>7

\* A forward of the clean pass.
LEMMA SessionCleans ==
    ASSUME NEW cursor, NEW cache, NEW cacheNext, NEW attendedNext,
           NEW n, NEW s, NEW b0, NEW flag \in BOOLEAN,
           Session(cursor, cache, n, "clean", s, b0), flag => Filled(cache)
    PROVE  /\ b0 < CacheBlocks
              /\ FullForward(cursor, cache, cacheNext, attendedNext, b0, n, CleanPass, flag)
                  => /\ Session(cursor, cacheNext, n, "clean", s, b0 + 1)
                     /\ attendedNext = EntriesOf(n + 1, CleanPass)
                     /\ Filled(cacheNext)
           /\ ~(b0 < CacheBlocks)
              /\ StoringForward(cursor, cache, cacheNext, b0, n, CleanPass)
                  => Session(cursor, cacheNext, n + 1, "idle", s, 1) /\ Filled(cacheNext)
  <1> USE CacheAssumption
  <1>1. /\ DOMAIN cache = BlockIds /\ n \in Nat /\ b0 \in BlockIds
        /\ s \in 0..LastStep /\ s = LastStep
        /\ 1 \in BlockIds /\ b0 \in Nat
    BY DEF Session, BlockIds
  <1>2. ASSUME NEW b \in BlockIds
        PROVE  /\ b < b0 => Holds(cursor, cache[b], n + 1, CleanPass)
               /\ ~(b < b0) => Holds(cursor, cache[b], n + 1, LastStep)
               /\ cache[b].cross
    BY DEF Session, CrossAt, EnteredAt, PassAt
  <1>3. Holds(cursor, cache[b0], n + 1, LastStep)
    BY <1>1, <1>2
  <1>4. ASSUME b0 < CacheBlocks,
               FullForward(cursor, cache, cacheNext, attendedNext, b0, n, CleanPass, flag)
        PROVE  /\ Session(cursor, cacheNext, n, "clean", s, b0 + 1)
               /\ attendedNext = EntriesOf(n + 1, CleanPass)
               /\ Filled(cacheNext)
    <2>1. /\ DOMAIN cacheNext = BlockIds
          /\ Holds(cursor, cacheNext[b0], n + 1, CleanPass)
          /\ cacheNext[b0].cross
          /\ \A o \in BlockIds : o # b0 => cacheNext[o] = cache[o]
          /\ attendedNext = EntriesOf(n + 1, CleanPass)
      <3>1. BeforeForward(cursor, cache, cacheNext, attendedNext, b0, n, LastStep,
                          CleanPass, flag)
        BY <1>1, <1>3, <1>4 DEF BeforeForward, Ready
      <3>2. AfterForward(cursor, cache, cacheNext, attendedNext, b0, n, CleanPass)
        BY <3>1, FullForwardHolds
      <3> QED BY <1>1, <1>2, <3>2 DEF AfterForward
    <2>2. b0 + 1 \in BlockIds
      BY <1>1, <1>4 DEF BlockIds
    <2>3. ASSUME NEW b \in BlockIds
          PROVE  Holds(cursor, cacheNext[b], EnteredAt(n, "clean", s, b0 + 1, b),
                       PassAt("clean", s, b0 + 1, b))
      <3>1. EnteredAt(n, "clean", s, b0 + 1, b) = n + 1
        BY DEF EnteredAt
      <3>2. CASE b = b0
        <4>1. PassAt("clean", s, b0 + 1, b) = CleanPass
          BY <3>2, <1>1 DEF PassAt
        <4> QED BY <3>1, <3>2, <4>1, <2>1
      <3>3. CASE b # b0
        <4>1. b < b0 + 1 <=> b < b0
          BY <3>3, <1>1 DEF BlockIds
        <4>2. PassAt("clean", s, b0 + 1, b) = IF b < b0 THEN CleanPass ELSE LastStep
          BY <4>1 DEF PassAt
        <4> QED BY <3>1, <3>3, <4>2, <1>2, <2>1
      <3> QED BY <3>2, <3>3
    <2>4. Filled(cacheNext)
      BY <1>2, <2>1 DEF Filled
    <2>5. CrossAt(cacheNext, n, "clean", s, b0 + 1)
      BY <2>4 DEF CrossAt, Filled
    <2>6. Session(cursor, cacheNext, n, "clean", s, b0 + 1)
      BY <1>1, <2>1, <2>2, <2>3, <2>5 DEF Session
    <2> QED BY <2>1, <2>4, <2>6
  <1>5. ASSUME ~(b0 < CacheBlocks),
               StoringForward(cursor, cache, cacheNext, b0, n, CleanPass)
        PROVE  Session(cursor, cacheNext, n + 1, "idle", s, 1) /\ Filled(cacheNext)
    <2> DEFINE st == Stored(cursor, cache[b0], n + 1, EntryOf(n, CleanPass))
    <2>1. Holds(cursor, st, n + 1, CleanPass) /\ st.cross = cache[b0].cross
      BY <1>1, <1>3, ForwardHolds DEF Ready
    <2>2. cacheNext = [cache EXCEPT ![b0] = st]
      BY <1>5 DEF StoringForward
    <2> HIDE DEF st
    <2>3. /\ DOMAIN cacheNext = BlockIds /\ cacheNext[b0] = st
          /\ \A o \in BlockIds : o # b0 => cacheNext[o] = cache[o]
      BY <1>1, <2>2
    <2>4. ASSUME NEW b \in BlockIds
          PROVE  Holds(cursor, cacheNext[b], n + 1, CleanPass) /\ cacheNext[b].cross
      <3>1. b = b0 \/ b < b0
        BY <1>1, <1>5 DEF BlockIds
      <3>2. CASE b = b0
        BY <3>2, <2>1, <2>3, <1>2
      <3>3. CASE b # b0
        BY <3>1, <3>3, <2>3, <1>2
      <3> QED BY <3>2, <3>3
    <2>5. \A b \in BlockIds : /\ EnteredAt(n + 1, "idle", s, 1, b) = n + 1
                              /\ PassAt("idle", s, 1, b) = CleanPass
      BY DEF EnteredAt, PassAt
    <2>6. CrossAt(cacheNext, n + 1, "idle", s, 1)
      BY <1>1, <2>4 DEF CrossAt
    <2>7. Session(cursor, cacheNext, n + 1, "idle", s, 1)
      BY <1>1, <2>3, <2>4, <2>5, <2>6 DEF Session
    <2> QED BY <2>4, <2>7 DEF Filled
  <1> QED BY <1>4, <1>5

\* Between two calls, in every block.
LEMMA SessionRests ==
    ASSUME NEW cursor, NEW cache, NEW n, NEW phase, NEW s, NEW b0,
           Session(cursor, cache, n, phase, s, b0), phase \in {"idle", "generated"},
           NEW b \in BlockIds
    PROVE  LET m == IF phase = "idle" THEN n ELSE n + 1
           IN  /\ cache[b].k = KeysOf(m, IF phase = "idle" THEN CleanPass ELSE LastStep)
               /\ cache[b].global = m /\ cache[b].local = Lesser(m, Size)
               /\ cursor = "host" => cache[b].globalPy = m /\ cache[b].localPy = Lesser(m, Size)
               /\ phase = "idle" => (cache[b].cross <=> n > 0)
               /\ phase = "generated" => cache[b].cross
  BY DEF Session, EnteredAt, PassAt, Holds, CrossAt

\* Between two chunks, the step and block of the latest forward do not matter.
LEMMA SessionElsewhere ==
    ASSUME NEW cursor, NEW cache, NEW n, NEW s, NEW b0, NEW t \in 0..LastStep,
           Session(cursor, cache, n, "idle", s, b0)
    PROVE  Session(cursor, cache, n, "idle", t, 1)
  <1>1. 1 \in BlockIds
    BY CacheAssumption DEF BlockIds
  <1>2. \A b \in BlockIds :
           /\ EnteredAt(n, "idle", t, 1, b) = EnteredAt(n, "idle", s, b0, b)
           /\ PassAt("idle", t, 1, b) = PassAt("idle", s, b0, b)
    BY DEF EnteredAt, PassAt
  <1>3. CrossAt(cache, n, "idle", t, 1)
    BY DEF Session, CrossAt
  <1> QED BY <1>1, <1>2, <1>3 DEF Session

-----------------------------------------------------------------------------
(* The list of what the forwards of a chunk have read                       *)

\* Forwards are counted over all timesteps and blocks.
LEMMA ForwardIndex ==
    ASSUME NEW s \in 0..LastStep, NEW b0 \in BlockIds
    PROVE  /\ ForwardsDone("denoise", s, b0) \in Nat
           /\ ForwardsDone("denoise", s, b0) \div CacheBlocks = s
           /\ ForwardsDone("denoise", s, b0 + 1) = ForwardsDone("denoise", s, b0) + 1
           /\ ~(b0 < CacheBlocks) =>
                 /\ ForwardsDone("denoise", s + 1, 1) = ForwardsDone("denoise", s, b0) + 1
                 /\ ~(s < LastStep) => ForwardsDone("generated", s, 1)
                                           = ForwardsDone("denoise", s, b0) + 1
  <1>1. /\ CacheBlocks \in Nat /\ CacheBlocks > 0 /\ s \in Nat /\ b0 \in Nat
        /\ b0 - 1 \in 0..(CacheBlocks - 1) /\ Timesteps \in Nat
        /\ ~(s < LastStep) => s + 1 = Timesteps
        /\ ~(b0 < CacheBlocks) => b0 = CacheBlocks
    BY CacheAssumption DEF LastStep, BlockIds
  <1>2. \A x, y \in Nat : \A z \in 0..(y - 1) : y > 0 => (x * y + z) \div y = x
    OBVIOUS
  <1>3. /\ s * CacheBlocks \in Nat
        /\ (s + 1) * CacheBlocks = s * CacheBlocks + CacheBlocks
    BY <1>1
  <1>4. ForwardsDone("denoise", s, b0) = s * CacheBlocks + (b0 - 1)
    BY <1>1, <1>3 DEF ForwardsDone
  <1>5. ForwardsDone("denoise", s, b0) \div CacheBlocks = s
    BY <1>1, <1>2, <1>4
  <1>6. ForwardsDone("denoise", s, b0) \in Nat
    BY <1>1, <1>3, <1>4
  <1>7. ForwardsDone("denoise", s, b0 + 1) = ForwardsDone("denoise", s, b0) + 1
    BY <1>1, <1>3 DEF ForwardsDone
  <1>8. ASSUME ~(b0 < CacheBlocks)
        PROVE  /\ ForwardsDone("denoise", s + 1, 1) = ForwardsDone("denoise", s, b0) + 1
               /\ ~(s < LastStep) => ForwardsDone("generated", s, 1)
                                         = ForwardsDone("denoise", s, b0) + 1
    BY <1>1, <1>3, <1>8 DEF ForwardsDone
  <1> QED BY <1>5, <1>6, <1>7, <1>8

\* A chunk that has just begun has had no forward.
LEMMA NoForwardYet == ForwardsDone("idle", 0, 1) = 0 /\ ForwardsDone("denoise", 0, 1) = 0
  BY CacheAssumption DEF ForwardsDone

\* Appending one more element to a list of known elements.
LEMMA Appended ==
    ASSUME NEW f, NEW N \in Nat, DOMAIN f = Nat
    PROVE  Append([k \in 1..N |-> f[k]], f[N + 1]) = [k \in 1..(N + 1) |-> f[k]]
  <1> DEFINE S == {f[k] : k \in Nat}
             r == [k \in 1..N |-> f[k]]
             q == [k \in 1..(N + 1) |-> f[k]]
  <1>1. r \in Seq(S) /\ q \in Seq(S) /\ f[N + 1] \in S /\ Len(r) = N /\ Len(q) = N + 1
    OBVIOUS
  <1>2. \A k \in 1..N : r[k] = f[k]
    OBVIOUS
  <1>3. \A k \in 1..(N + 1) : q[k] = f[k]
    OBVIOUS
  <1> HIDE DEF S, r, q
  <1>4. /\ Append(r, f[N + 1]) \in Seq(S)
        /\ Len(Append(r, f[N + 1])) = N + 1
        /\ Append(r, f[N + 1])[N + 1] = f[N + 1]
        /\ \A k \in 1..N : Append(r, f[N + 1])[k] = r[k]
    BY <1>1, AppendFacts
  <1>5. \A k \in 1..(N + 1) : Append(r, f[N + 1])[k] = q[k]
    BY <1>2, <1>3, <1>4
  <1> QED BY <1>1, <1>4, <1>5 DEF r, q

-----------------------------------------------------------------------------
(* The steps of generate_chunk and of commit_clean_kv, as KVCache's         *)
(* BeginChunk, DenoiseBlock, BeginCommit and CleanBlock                     *)

GenerateStep(cursor, cache, n, phase, s, b0, att, flag,
             cacheN, nN, phaseN, sN, bN, attN, flagN) ==
    /\ nN = n
    /\ \/ /\ phase = "idle" /\ phaseN = "denoise"
          /\ sN = 0 /\ bN = 1 /\ cacheN = cache /\ attN = att /\ flagN = flag
       \/ /\ phase = "denoise"
          /\ FullForward(cursor, cache, cacheN, attN, b0, n, s, flag)
          /\ IF b0 < CacheBlocks
             THEN bN = b0 + 1 /\ flagN = flag /\ sN = s /\ phaseN = phase
             ELSE /\ bN = 1
                  /\ flagN = TRUE
                  /\ IF s < LastStep THEN sN = s + 1 /\ phaseN = phase
                     ELSE phaseN = "generated" /\ sN = s

CommitStep(cursor, cache, n, phase, s, b0, att, flag,
           cacheN, nN, phaseN, sN, bN, attN, flagN) ==
    /\ flagN = flag /\ sN = s
    /\ \/ /\ phase = "generated" /\ phaseN = "clean"
          /\ cacheN = cache /\ nN = n /\ bN = b0 /\ attN = att
       \/ /\ phase = "clean"
          /\ IF b0 < CacheBlocks
             THEN /\ FullForward(cursor, cache, cacheN, attN, b0, n, CleanPass, flag)
                  /\ bN = b0 + 1 /\ nN = n /\ phaseN = phase
             ELSE /\ StoringForward(cursor, cache, cacheN, b0, n, CleanPass)
                  /\ attN = att
                  /\ bN = 1 /\ nN = n + 1 /\ phaseN = "idle"

\* What a step of generate_chunk does to a session.
LEMMA Generates ==
    ASSUME NEW cursor, NEW cache, NEW n, NEW phase, NEW s, NEW b0,
           NEW att, NEW flag \in BOOLEAN,
           NEW cacheN, NEW nN, NEW phaseN, NEW sN, NEW bN, NEW attN, NEW flagN,
           Session(cursor, cache, n, phase, s, b0), flag => Filled(cache),
           GenerateStep(cursor, cache, n, phase, s, b0, att, flag,
                        cacheN, nN, phaseN, sN, bN, attN, flagN)
    PROVE  /\ Session(cursor, cacheN, nN, phaseN, sN, bN)
           /\ flagN \in BOOLEAN /\ (flagN => Filled(cacheN))
           /\ Filled(cache) => Filled(cacheN)
           /\ nN = n /\ phaseN \in {"denoise", "generated"}
           /\ phase = "idle" => /\ phaseN = "denoise"
                                /\ cacheN = cache /\ attN = att
                                /\ sN = 0 /\ bN = 1 /\ b0 = 1
           /\ phase # "idle" =>
                 /\ phase = "denoise"
                 /\ <<attN, cacheN[b0].cross>>
                        = ForwardRead(n, ForwardsDone(phase, s, b0))
                 /\ ForwardsDone(phase, s, b0) \in Nat
                 /\ ForwardsDone(phaseN, sN, bN) = ForwardsDone(phase, s, b0) + 1
                 /\ sN = s \/ sN = s + 1
           /\ phaseN = "generated" => /\ attN = EntriesOf(n + 1, LastStep)
                                      /\ Filled(cacheN)
  <1>1. CASE phase = "idle"
    <2>1. /\ phaseN = "denoise" /\ sN = 0 /\ bN = 1 /\ cacheN = cache
          /\ attN = att /\ flagN = flag /\ nN = n
      BY <1>1 DEF GenerateStep
    <2>2. Session(cursor, cache, n, "denoise", 0, 1)
      BY <1>1, SessionBegins
    <2>3. b0 = 1
      BY <1>1 DEF Session
    <2> QED BY <1>1, <2>1, <2>2, <2>3
  <1>2. CASE phase = "denoise"
    <2>0. /\ s \in 0..LastStep /\ b0 \in BlockIds /\ n \in Nat /\ nN = n
          /\ DOMAIN cache = BlockIds
      BY <1>2 DEF Session, GenerateStep
    <2>1. /\ FullForward(cursor, cache, cacheN, attN, b0, n, s, flag)
          /\ b0 < CacheBlocks =>
                bN = b0 + 1 /\ flagN = flag /\ sN = s /\ phaseN = "denoise"
          /\ ~(b0 < CacheBlocks) =>
                /\ bN = 1 /\ flagN = TRUE
                /\ s < LastStep => sN = s + 1 /\ phaseN = "denoise"
                /\ ~(s < LastStep) => sN = s /\ phaseN = "generated"
      BY <1>2 DEF GenerateStep
    <2>2. /\ attN = EntriesOf(n + 1, s)
          /\ cacheN[b0].cross
          /\ Filled(cache) => Filled(cacheN)
          /\ b0 < CacheBlocks => Session(cursor, cacheN, n, "denoise", s, b0 + 1)
          /\ ~(b0 < CacheBlocks) =>
                /\ Filled(cacheN)
                /\ s < LastStep => Session(cursor, cacheN, n, "denoise", s + 1, 1)
                /\ ~(s < LastStep) => Session(cursor, cacheN, n, "generated", s, 1)
      BY <1>2, <2>1, SessionDenoises
    <2>3. Session(cursor, cacheN, n, phaseN, sN, bN)
      BY <2>1, <2>2
    <2>4. cacheN[b0].cross = TRUE
      <3>1. cacheN[b0].cross \in BOOLEAN
        BY <2>0, <2>3 DEF Session, Holds
      <3> QED BY <2>2, <3>1
    <2>5. /\ ForwardsDone("denoise", s, b0) \in Nat
          /\ ForwardsDone("denoise", s, b0) \div CacheBlocks = s
          /\ ForwardsDone(phaseN, sN, bN) = ForwardsDone("denoise", s, b0) + 1
      BY <2>0, <2>1, ForwardIndex
    <2>6. <<attN, cacheN[b0].cross>> = ForwardRead(n, ForwardsDone(phase, s, b0))
      BY <1>2, <2>2, <2>4, <2>5 DEF ForwardRead
    <2>7. phaseN = "generated" => /\ attN = EntriesOf(n + 1, LastStep)
                                  /\ Filled(cacheN)
      <3>1. phaseN = "generated" => ~(b0 < CacheBlocks) /\ ~(s < LastStep)
        BY <2>1
      <3>2. ~(s < LastStep) => s = LastStep
        BY <2>0, CacheAssumption DEF LastStep
      <3> QED BY <3>1, <3>2, <2>2
    <2>8. flagN \in BOOLEAN /\ (flagN => Filled(cacheN))
      <3>1. CASE b0 < CacheBlocks
        <4>1. flagN = flag
          BY <2>1, <3>1
        <4> QED BY <2>2, <4>1, Zenon
      <3>2. CASE ~(b0 < CacheBlocks)
        <4>1. flagN = TRUE /\ Filled(cacheN)
          BY <2>1, <2>2, <3>2
        <4> QED BY <4>1, Zenon
      <3> QED BY <3>1, <3>2
    <2> QED BY <1>2, <2>0, <2>1, <2>2, <2>3, <2>5, <2>6, <2>7, <2>8
  <1> QED BY <1>1, <1>2 DEF GenerateStep

\* What a step of commit_clean_kv does to it.
LEMMA Commits ==
    ASSUME NEW cursor, NEW cache, NEW n, NEW phase, NEW s, NEW b0,
           NEW att, NEW flag \in BOOLEAN,
           NEW cacheN, NEW nN, NEW phaseN, NEW sN, NEW bN, NEW attN, NEW flagN,
           Session(cursor, cache, n, phase, s, b0), flag => Filled(cache),
           CommitStep(cursor, cache, n, phase, s, b0, att, flag,
                      cacheN, nN, phaseN, sN, bN, attN, flagN)
    PROVE  /\ Session(cursor, cacheN, nN, phaseN, sN, bN)
           /\ flagN = flag /\ sN = s /\ s = LastStep /\ Filled(cacheN)
           /\ phase \in {"generated", "clean"} /\ phaseN \in {"clean", "idle"}
           /\ nN = IF phaseN = "idle" THEN n + 1 ELSE n
           /\ phase = "generated" => attN = att /\ phaseN = "clean" /\ b0 = 1 /\ bN = 1
           /\ phase = "clean" =>
                 IF b0 < CacheBlocks
                 THEN attN = EntriesOf(n + 1, CleanPass) /\ bN = b0 + 1
                      /\ phaseN = "clean"
                 ELSE attN = att /\ phaseN = "idle"
  <1>1. CASE phase = "generated"
    <2>1. /\ phaseN = "clean" /\ cacheN = cache /\ nN = n /\ bN = b0
          /\ attN = att /\ flagN = flag /\ sN = s
      BY <1>1 DEF CommitStep
    <2>2. Session(cursor, cache, n, "clean", s, b0) /\ b0 = 1
      BY <1>1, SessionCommits
    <2>3. Filled(cache) /\ s = LastStep
      BY <1>1 DEF Session, CrossAt, Filled
    <2> QED BY <1>1, <2>1, <2>2, <2>3
  <1>2. CASE phase = "clean"
    <2>0. s = LastStep /\ flagN = flag /\ sN = s
      BY <1>2 DEF Session, CommitStep
    <2>1. CASE b0 < CacheBlocks
      <3>1. /\ FullForward(cursor, cache, cacheN, attN, b0, n, CleanPass, flag)
            /\ bN = b0 + 1 /\ nN = n /\ phaseN = "clean"
        BY <1>2, <2>1 DEF CommitStep
      <3>2. /\ Session(cursor, cacheN, n, "clean", s, b0 + 1)
            /\ attN = EntriesOf(n + 1, CleanPass)
            /\ Filled(cacheN)
        BY <1>2, <2>1, <3>1, SessionCleans
      <3> QED BY <1>2, <2>0, <2>1, <3>1, <3>2
    <2>2. CASE ~(b0 < CacheBlocks)
      <3>1. /\ StoringForward(cursor, cache, cacheN, b0, n, CleanPass)
            /\ bN = 1 /\ nN = n + 1 /\ phaseN = "idle" /\ attN = att
        BY <1>2, <2>2 DEF CommitStep
      <3>2. Session(cursor, cacheN, n + 1, "idle", s, 1) /\ Filled(cacheN)
        BY <1>2, <2>2, <3>1, SessionCleans
      <3> QED BY <1>2, <2>0, <2>2, <3>1, <3>2
    <2> QED BY <2>1, <2>2
  <1> QED BY <1>1, <1>2 DEF CommitStep

-----------------------------------------------------------------------------
(* The actions of the instances of KVCache are these steps                  *)

\* The helpers of the three instances are those above.
LEMMA ControlOperators ==
    /\ \A c, e, x :
          /\ Equivalence!Control!LocalEnd(c, e) = LocalEnd("tensor", c, e)
          /\ Equivalence!Control!Stored(c, e, x) = Stored("tensor", c, e, x)
          /\ Equivalence!Control!Advanced(c, e, x) = Advanced("tensor", c, e, x)
          /\ Equivalence!Control!Read(c, e) = Attended(c, e)
    /\ Equivalence!Control!BlockIds = BlockIds /\ Equivalence!Control!CleanPass = CleanPass
  <1>1. \A c : /\ Equivalence!Control!Global(c) = Global("tensor", c)
               /\ Equivalence!Control!Local(c) = Local("tensor", c)
    BY DEF Equivalence!Control!Global, Equivalence!Control!Local, Global, Local
  <1>2. Equivalence!Control!Positions = Positions
    BY DEF Equivalence!Control!Positions, Positions
  <1>3. \A c, e : Equivalence!Control!Overflows(c, e) = Overflows("tensor", c, e)
    BY <1>1 DEF Equivalence!Control!Overflows, Overflows
  <1>4. \A c, e : Equivalence!Control!Evicted(c, e) = Evicted("tensor", c, e)
    BY <1>1, <1>3 DEF Equivalence!Control!Evicted, Evicted
  <1>5. \A c, e : Equivalence!Control!Rolled(c, e) = Rolled("tensor", c, e)
    BY <1>1, <1>2, <1>3, <1>4 DEF Equivalence!Control!Rolled, Rolled
  <1>6. \A c, e : Equivalence!Control!LocalEnd(c, e) = LocalEnd("tensor", c, e)
    BY <1>1, <1>4 DEF Equivalence!Control!LocalEnd, LocalEnd
  <1>7. \A c, e, x : Equivalence!Control!Stored(c, e, x) = Stored("tensor", c, e, x)
    BY <1>5, <1>6 DEF Equivalence!Control!Stored, Stored
  <1>8. \A c, e, x : Equivalence!Control!Advanced(c, e, x) = Advanced("tensor", c, e, x)
    BY <1>6 DEF Equivalence!Control!Advanced, Advanced
  <1>9. \A c, e : Equivalence!Control!Read(c, e) = Attended(c, e)
    BY <1>2 DEF Equivalence!Control!Read, Attended
  <1> QED BY <1>6, <1>7, <1>8, <1>9
      DEF Equivalence!Control!BlockIds, Equivalence!Control!CleanPass, BlockIds,
          CleanPass

\* Their forwards are those above.
LEMMA ControlForward ==
    ASSUME NEW pass
    PROVE  /\ Equivalence!Control!FullBlock(blockC, pass)
                => FullForward("tensor", cacheC, cacheC', attendedC',
                               blockC, chunkC, pass, pipeInitE)
           /\ Equivalence!Control!StoreOnly(blockC, pass)
                => /\ StoringForward("tensor", cacheC, cacheC', blockC, chunkC, pass)
                   /\ attendedC' = attendedC
  BY ControlOperators
  DEF Equivalence!Control!FullBlock, Equivalence!Control!StoreOnly,
      Equivalence!Control!CurrentEnd, FullForward, StoringForward, EntryOf

\* Their steps of generate_chunk are those above.
LEMMA ControlGenerates ==
    ASSUME Equivalence!Control!BeginChunk \/ Equivalence!Control!DenoiseBlock
    PROVE  /\ GenerateStep("tensor", cacheC, chunkC, phaseC, stepC, blockC, attendedC, pipeInitE,
                           cacheC', chunkC', phaseC', stepC', blockC', attendedC', pipeInitE')
           /\ phaseC = "idle" => beforeC' = Equivalence!Control!CachePositions
           /\ phaseC # "idle" => beforeC' = beforeC
  <1>1. CASE Equivalence!Control!BeginChunk
    BY <1>1 DEF Equivalence!Control!BeginChunk, GenerateStep
  <1>2. CASE Equivalence!Control!DenoiseBlock
    <2>1. /\ phaseC = "denoise" /\ chunkC' = chunkC /\ beforeC' = beforeC
          /\ FullForward("tensor", cacheC, cacheC', attendedC',
                         blockC, chunkC, stepC, pipeInitE)
      BY <1>2, ControlForward DEF Equivalence!Control!DenoiseBlock
    <2>2. IF blockC < CacheBlocks
          THEN blockC' = blockC + 1 /\ pipeInitE' = pipeInitE /\ stepC' = stepC /\ phaseC' = phaseC
          ELSE /\ blockC' = 1
               /\ pipeInitE' = TRUE
               /\ IF stepC < LastStep THEN stepC' = stepC + 1 /\ phaseC' = phaseC
                  ELSE phaseC' = "generated" /\ stepC' = stepC
      BY <1>2 DEF Equivalence!Control!DenoiseBlock, LastStep
    <2> QED BY <2>1, <2>2 DEF GenerateStep
  <1> QED BY <1>1, <1>2

\* Their steps of commit_clean_kv are those above.
LEMMA ControlCommits ==
    ASSUME Equivalence!Control!BeginCommit \/ Equivalence!Control!CleanBlock
    PROVE  /\ CommitStep("tensor", cacheC, chunkC, phaseC, stepC, blockC, attendedC, pipeInitE,
                         cacheC', chunkC', phaseC', stepC', blockC', attendedC', pipeInitE')
           /\ beforeC' = beforeC
  <1>1. CASE Equivalence!Control!BeginCommit
    BY <1>1 DEF Equivalence!Control!BeginCommit, CommitStep
  <1>2. CASE Equivalence!Control!CleanBlock
    <2>1. /\ phaseC = "clean" /\ pipeInitE' = pipeInitE /\ stepC' = stepC /\ beforeC' = beforeC
      BY <1>2 DEF Equivalence!Control!CleanBlock
    <2>2. CASE blockC < CacheBlocks
      <3>1. /\ FullForward("tensor", cacheC, cacheC', attendedC',
                           blockC, chunkC, CleanPass, pipeInitE)
            /\ blockC' = blockC + 1 /\ chunkC' = chunkC /\ phaseC' = phaseC
        BY <1>2, <2>2, ControlForward, ControlOperators DEF Equivalence!Control!CleanBlock
      <3> QED BY <2>1, <2>2, <3>1 DEF CommitStep
    <2>3. CASE ~(blockC < CacheBlocks)
      <3>1. /\ StoringForward("tensor", cacheC, cacheC', blockC, chunkC, CleanPass)
            /\ attendedC' = attendedC
            /\ blockC' = 1 /\ chunkC' = chunkC + 1 /\ phaseC' = "idle"
        BY <1>2, <2>3, ControlForward, ControlOperators DEF Equivalence!Control!CleanBlock
      <3> QED BY <2>1, <2>3, <3>1 DEF CommitStep
    <2> QED BY <2>2, <2>3
  <1> QED BY <1>1, <1>2

\* The same of the lane with the host cursors.
LEMMA CandidateOperators ==
    /\ \A c, e, x :
          /\ Equivalence!Candidate!LocalEnd(c, e) = LocalEnd("host", c, e)
          /\ Equivalence!Candidate!Stored(c, e, x) = Stored("host", c, e, x)
          /\ Equivalence!Candidate!Advanced(c, e, x) = Advanced("host", c, e, x)
          /\ Equivalence!Candidate!Read(c, e) = Attended(c, e)
    /\ Equivalence!Candidate!BlockIds = BlockIds /\ Equivalence!Candidate!CleanPass = CleanPass
  <1>1. \A c : /\ Equivalence!Candidate!Global(c) = Global("host", c)
               /\ Equivalence!Candidate!Local(c) = Local("host", c)
    BY DEF Equivalence!Candidate!Global, Equivalence!Candidate!Local, Global, Local
  <1>2. Equivalence!Candidate!Positions = Positions
    BY DEF Equivalence!Candidate!Positions, Positions
  <1>3. \A c, e : Equivalence!Candidate!Overflows(c, e) = Overflows("host", c, e)
    BY <1>1 DEF Equivalence!Candidate!Overflows, Overflows
  <1>4. \A c, e : Equivalence!Candidate!Evicted(c, e) = Evicted("host", c, e)
    BY <1>1, <1>3 DEF Equivalence!Candidate!Evicted, Evicted
  <1>5. \A c, e : Equivalence!Candidate!Rolled(c, e) = Rolled("host", c, e)
    BY <1>1, <1>2, <1>3, <1>4 DEF Equivalence!Candidate!Rolled, Rolled
  <1>6. \A c, e : Equivalence!Candidate!LocalEnd(c, e) = LocalEnd("host", c, e)
    BY <1>1, <1>4 DEF Equivalence!Candidate!LocalEnd, LocalEnd
  <1>7. \A c, e, x : Equivalence!Candidate!Stored(c, e, x) = Stored("host", c, e, x)
    BY <1>5, <1>6 DEF Equivalence!Candidate!Stored, Stored
  <1>8. \A c, e, x : Equivalence!Candidate!Advanced(c, e, x) = Advanced("host", c, e, x)
    BY <1>6 DEF Equivalence!Candidate!Advanced, Advanced
  <1>9. \A c, e : Equivalence!Candidate!Read(c, e) = Attended(c, e)
    BY <1>2 DEF Equivalence!Candidate!Read, Attended
  <1> QED BY <1>6, <1>7, <1>8, <1>9
      DEF Equivalence!Candidate!BlockIds, Equivalence!Candidate!CleanPass, BlockIds,
          CleanPass

\* Its forwards.
LEMMA CandidateForward ==
    ASSUME NEW pass
    PROVE  /\ Equivalence!Candidate!FullBlock(blockH, pass)
                => FullForward("host", cacheH, cacheH', attendedH',
                               blockH, chunkH, pass, pipeInitE)
           /\ Equivalence!Candidate!StoreOnly(blockH, pass)
                => /\ StoringForward("host", cacheH, cacheH', blockH, chunkH, pass)
                   /\ attendedH' = attendedH
  BY CandidateOperators
  DEF Equivalence!Candidate!FullBlock, Equivalence!Candidate!StoreOnly,
      Equivalence!Candidate!CurrentEnd, FullForward, StoringForward, EntryOf

\* Its steps of generate_chunk.
LEMMA CandidateGenerates ==
    ASSUME Equivalence!Candidate!BeginChunk \/ Equivalence!Candidate!DenoiseBlock
    PROVE  /\ GenerateStep("host", cacheH, chunkH, phaseH, stepH, blockH, attendedH, pipeInitE,
                           cacheH', chunkH', phaseH', stepH', blockH', attendedH', pipeInitE')
           /\ phaseH = "idle" => beforeH' = Equivalence!Candidate!CachePositions
           /\ phaseH # "idle" => beforeH' = beforeH
  <1>1. CASE Equivalence!Candidate!BeginChunk
    BY <1>1 DEF Equivalence!Candidate!BeginChunk, GenerateStep
  <1>2. CASE Equivalence!Candidate!DenoiseBlock
    <2>1. /\ phaseH = "denoise" /\ chunkH' = chunkH /\ beforeH' = beforeH
          /\ FullForward("host", cacheH, cacheH', attendedH', blockH, chunkH, stepH, pipeInitE)
      BY <1>2, CandidateForward DEF Equivalence!Candidate!DenoiseBlock
    <2>2. IF blockH < CacheBlocks
          THEN blockH' = blockH + 1 /\ pipeInitE' = pipeInitE /\ stepH' = stepH /\ phaseH' = phaseH
          ELSE /\ blockH' = 1
               /\ pipeInitE' = TRUE
               /\ IF stepH < LastStep THEN stepH' = stepH + 1 /\ phaseH' = phaseH
                  ELSE phaseH' = "generated" /\ stepH' = stepH
      BY <1>2 DEF Equivalence!Candidate!DenoiseBlock, LastStep
    <2> QED BY <2>1, <2>2 DEF GenerateStep
  <1> QED BY <1>1, <1>2

\* Its steps of commit_clean_kv.
LEMMA CandidateCommits ==
    ASSUME Equivalence!Candidate!BeginCommit \/ Equivalence!Candidate!CleanBlock
    PROVE  /\ CommitStep("host", cacheH, chunkH, phaseH, stepH, blockH, attendedH, pipeInitE,
                         cacheH', chunkH', phaseH', stepH', blockH', attendedH', pipeInitE')
           /\ beforeH' = beforeH
  <1>1. CASE Equivalence!Candidate!BeginCommit
    BY <1>1 DEF Equivalence!Candidate!BeginCommit, CommitStep
  <1>2. CASE Equivalence!Candidate!CleanBlock
    <2>1. /\ phaseH = "clean" /\ pipeInitE' = pipeInitE /\ stepH' = stepH /\ beforeH' = beforeH
      BY <1>2 DEF Equivalence!Candidate!CleanBlock
    <2>2. CASE blockH < CacheBlocks
      <3>1. /\ FullForward("host", cacheH, cacheH', attendedH',
                           blockH, chunkH, CleanPass, pipeInitE)
            /\ blockH' = blockH + 1 /\ chunkH' = chunkH /\ phaseH' = phaseH
        BY <1>2, <2>2, CandidateForward, CandidateOperators
            DEF Equivalence!Candidate!CleanBlock
      <3> QED BY <2>1, <2>2, <3>1 DEF CommitStep
    <2>3. CASE ~(blockH < CacheBlocks)
      <3>1. /\ StoringForward("host", cacheH, cacheH', blockH, chunkH, CleanPass)
            /\ attendedH' = attendedH
            /\ blockH' = 1 /\ chunkH' = chunkH + 1 /\ phaseH' = "idle"
        BY <1>2, <2>3, CandidateForward, CandidateOperators
            DEF Equivalence!Candidate!CleanBlock
      <3> QED BY <2>1, <2>3, <3>1 DEF CommitStep
    <2> QED BY <2>2, <2>3
  <1> QED BY <1>1, <1>2

\* The same of the session of the branch probe.
LEMMA BranchOperators ==
    /\ \A c, e, x :
          /\ Probe!KV!LocalEnd(c, e) = LocalEnd("tensor", c, e)
          /\ Probe!KV!Stored(c, e, x) = Stored("tensor", c, e, x)
          /\ Probe!KV!Advanced(c, e, x) = Advanced("tensor", c, e, x)
          /\ Probe!KV!Read(c, e) = Attended(c, e)
    /\ Probe!KV!BlockIds = BlockIds /\ Probe!KV!CleanPass = CleanPass
  <1>1. \A c : /\ Probe!KV!Global(c) = Global("tensor", c)
               /\ Probe!KV!Local(c) = Local("tensor", c)
    BY DEF Probe!KV!Global, Probe!KV!Local, Global, Local
  <1>2. Probe!KV!Positions = Positions
    BY DEF Probe!KV!Positions, Positions
  <1>3. \A c, e : Probe!KV!Overflows(c, e) = Overflows("tensor", c, e)
    BY <1>1 DEF Probe!KV!Overflows, Overflows
  <1>4. \A c, e : Probe!KV!Evicted(c, e) = Evicted("tensor", c, e)
    BY <1>1, <1>3 DEF Probe!KV!Evicted, Evicted
  <1>5. \A c, e : Probe!KV!Rolled(c, e) = Rolled("tensor", c, e)
    BY <1>1, <1>2, <1>3, <1>4 DEF Probe!KV!Rolled, Rolled
  <1>6. \A c, e : Probe!KV!LocalEnd(c, e) = LocalEnd("tensor", c, e)
    BY <1>1, <1>4 DEF Probe!KV!LocalEnd, LocalEnd
  <1>7. \A c, e, x : Probe!KV!Stored(c, e, x) = Stored("tensor", c, e, x)
    BY <1>5, <1>6 DEF Probe!KV!Stored, Stored
  <1>8. \A c, e, x : Probe!KV!Advanced(c, e, x) = Advanced("tensor", c, e, x)
    BY <1>6 DEF Probe!KV!Advanced, Advanced
  <1>9. \A c, e : Probe!KV!Read(c, e) = Attended(c, e)
    BY <1>2 DEF Probe!KV!Read, Attended
  <1> QED BY <1>6, <1>7, <1>8, <1>9
      DEF Probe!KV!BlockIds, Probe!KV!CleanPass, BlockIds, CleanPass

\* Its forwards.
LEMMA BranchForward ==
    ASSUME NEW pass
    PROVE  /\ Probe!KV!FullBlock(blockS, pass)
                => FullForward("tensor", cacheS, cacheS', attendedS',
                               blockS, chunkS, pass, pipeInit)
           /\ Probe!KV!StoreOnly(blockS, pass)
                => /\ StoringForward("tensor", cacheS, cacheS', blockS, chunkS, pass)
                   /\ attendedS' = attendedS
  BY BranchOperators
  DEF Probe!KV!FullBlock, Probe!KV!StoreOnly, Probe!KV!CurrentEnd, FullForward,
      StoringForward, EntryOf

\* Its steps of generate_chunk.
LEMMA BranchGenerates ==
    ASSUME Probe!KV!BeginChunk \/ Probe!KV!DenoiseBlock
    PROVE  /\ GenerateStep("tensor", cacheS, chunkS, phaseS, stepS, blockS, attendedS, pipeInit,
                           cacheS', chunkS', phaseS', stepS', blockS', attendedS', pipeInit')
           /\ phaseS = "idle" => beforeS' = Probe!KV!CachePositions
           /\ phaseS # "idle" => beforeS' = beforeS
  <1>1. CASE Probe!KV!BeginChunk
    BY <1>1 DEF Probe!KV!BeginChunk, GenerateStep
  <1>2. CASE Probe!KV!DenoiseBlock
    <2>1. /\ phaseS = "denoise" /\ chunkS' = chunkS /\ beforeS' = beforeS
          /\ FullForward("tensor", cacheS, cacheS', attendedS', blockS, chunkS, stepS, pipeInit)
      BY <1>2, BranchForward DEF Probe!KV!DenoiseBlock
    <2>2. IF blockS < CacheBlocks
          THEN blockS' = blockS + 1 /\ pipeInit' = pipeInit /\ stepS' = stepS /\ phaseS' = phaseS
          ELSE /\ blockS' = 1
               /\ pipeInit' = TRUE
               /\ IF stepS < LastStep THEN stepS' = stepS + 1 /\ phaseS' = phaseS
                  ELSE phaseS' = "generated" /\ stepS' = stepS
      BY <1>2 DEF Probe!KV!DenoiseBlock, LastStep
    <2> QED BY <2>1, <2>2 DEF GenerateStep
  <1> QED BY <1>1, <1>2

\* Its steps of commit_clean_kv.
LEMMA BranchCommits ==
    ASSUME Probe!KV!BeginCommit \/ Probe!KV!CleanBlock
    PROVE  /\ CommitStep("tensor", cacheS, chunkS, phaseS, stepS, blockS, attendedS, pipeInit,
                         cacheS', chunkS', phaseS', stepS', blockS', attendedS', pipeInit')
           /\ beforeS' = beforeS
  <1>1. CASE Probe!KV!BeginCommit
    BY <1>1 DEF Probe!KV!BeginCommit, CommitStep
  <1>2. CASE Probe!KV!CleanBlock
    <2>1. /\ phaseS = "clean" /\ pipeInit' = pipeInit /\ stepS' = stepS /\ beforeS' = beforeS
      BY <1>2 DEF Probe!KV!CleanBlock
    <2>2. CASE blockS < CacheBlocks
      <3>1. /\ FullForward("tensor", cacheS, cacheS', attendedS',
                           blockS, chunkS, CleanPass, pipeInit)
            /\ blockS' = blockS + 1 /\ chunkS' = chunkS /\ phaseS' = phaseS
        BY <1>2, <2>2, BranchForward, BranchOperators DEF Probe!KV!CleanBlock
      <3> QED BY <2>1, <2>2, <3>1 DEF CommitStep
    <2>3. CASE ~(blockS < CacheBlocks)
      <3>1. /\ StoringForward("tensor", cacheS, cacheS', blockS, chunkS, CleanPass)
            /\ attendedS' = attendedS
            /\ blockS' = 1 /\ chunkS' = chunkS + 1 /\ phaseS' = "idle"
        BY <1>2, <2>3, BranchForward, BranchOperators DEF Probe!KV!CleanBlock
      <3> QED BY <2>1, <2>3, <3>1 DEF CommitStep
    <2> QED BY <2>2, <2>3
  <1> QED BY <1>1, <1>2

-----------------------------------------------------------------------------
(* CursorEquivalence                                                        *)

\* What the latest self-attention has read, when no denoising is under way.
AttendedAt(n, phase, b0) ==
    IF phase = "generated" \/ (phase = "clean" /\ b0 = 1)
    THEN EntriesOf(n + 1, LastStep)
    ELSE IF phase = "clean" THEN EntriesOf(n + 1, CleanPass)
    ELSE IF n = 0 THEN {}
    ELSE EntriesOf(n, IF CacheBlocks > 1 THEN CleanPass ELSE LastStep)

\* The list of a chunk's reads begins with what was there before it.
ReadAt(n, k) ==
    IF k > 1 THEN ForwardRead(n, k - 2)
    ELSE IF n > 0 THEN <<AttendedAt(n, "idle", 1), TRUE>> ELSE <<{}, FALSE>>

ReadsAt(n, phase, s, b0) ==
    [k \in 1..(IF phase = "idle" THEN 0 ELSE ForwardsDone(phase, s, b0) + 1) |->
        ReadAt(n, k)]

LaneInv(cursor, cache, n, phase, s, b0, att) ==
    /\ Session(cursor, cache, n, phase, s, b0)
    /\ phase # "denoise" => att = AttendedAt(n, phase, b0)

LaneC == LaneInv("tensor", cacheC, chunkC, phaseC, stepC, blockC, attendedC)
LaneH == LaneInv("host", cacheH, chunkH, phaseH, stepH, blockH, attendedH)

\* The flag of the model is the one of the lane that runs, and a lane's flag
\* is only set when its cross-attention caches are filled.
FlagInv ==
    /\ crossInit \in [Equivalence!Lanes -> BOOLEAN]
    /\ pipeInitE \in BOOLEAN
    /\ crossInit["control"] => Filled(cacheC)
    /\ crossInit["candidate"] => Filled(cacheH)
    /\ pcE \in {"generate control", "commit control"} /\ pipeInitE => Filled(cacheC)
    /\ pcE \in {"generate candidate", "commit candidate"} /\ pipeInitE => Filled(cacheH)

\* The lanes take turns; in the clean passes the control is a chunk ahead.
Standing(phasesC, phasesH) == phaseC \in phasesC /\ phaseH \in phasesH

TurnInv ==
    /\ pcE = "use control" => Standing({"idle"}, {"idle"})
    /\ pcE = "generate control" => Standing({"idle", "denoise"}, {"idle"})
    /\ pcE = "use candidate" => Standing({"generated"}, {"idle"})
    /\ pcE = "generate candidate" => Standing({"generated"}, {"idle", "denoise"})
    /\ pcE \in {"compare x0", "clean control"} => Standing({"generated"}, {"generated"})
    /\ pcE = "commit control" => Standing({"generated", "clean"}, {"generated"})
    /\ pcE = "clean candidate" => Standing({"idle"}, {"generated"})
    /\ pcE = "commit candidate" => Standing({"idle"}, {"generated", "clean"})
    /\ pcE \in {"compare caches", "done"} => Standing({"idle"}, {"idle"})

ChunkInv ==
    chunkC = IF pcE \in {"clean candidate", "commit candidate"} THEN chunkH + 1
             ELSE chunkH

Generating == {"use control", "generate control", "use candidate",
               "generate candidate", "compare x0"}

ReadsInv ==
    /\ DOMAIN readsE = Equivalence!Lanes
    /\ readsE["control"] =
          IF pcE \in Generating THEN ReadsAt(chunkC, phaseC, stepC, blockC) ELSE <<>>
    /\ readsE["candidate"] =
          IF pcE \in Generating THEN ReadsAt(chunkH, phaseH, stepH, blockH) ELSE <<>>

Agreed == [x0 |-> TRUE, tensors |-> TRUE, mirrors |-> TRUE, keys |-> TRUE]

EquivalenceInv ==
    /\ LaneC
    /\ LaneH
    /\ FlagInv
    /\ TurnInv
    /\ ChunkInv
    /\ ReadsInv
    /\ rows \in Seq({Agreed})

\* What a step of generate_chunk adds to the list of reads.
LEMMA ReadsGrow ==
    ASSUME NEW cursor, NEW cache, NEW n, NEW phase, NEW s, NEW b0,
           NEW att, NEW flag \in BOOLEAN,
           NEW cacheN, NEW nN, NEW phaseN, NEW sN, NEW bN, NEW attN, NEW flagN,
           LaneInv(cursor, cache, n, phase, s, b0, att), flag => Filled(cache),
           GenerateStep(cursor, cache, n, phase, s, b0, att, flag,
                        cacheN, nN, phaseN, sN, bN, attN, flagN)
    PROVE  /\ LaneInv(cursor, cacheN, nN, phaseN, sN, bN, attN)
           /\ Append(ReadsAt(n, phase, s, b0), <<attN, cacheN[b0].cross>>)
                  = ReadsAt(nN, phaseN, sN, bN)
  <1> DEFINE f == [k \in Nat |-> ReadAt(n, k)]
             N == IF phase = "idle" THEN 0 ELSE ForwardsDone(phase, s, b0) + 1
             M == ForwardsDone(phaseN, sN, bN) + 1
  <1>1. /\ Session(cursor, cache, n, phase, s, b0)
        /\ phase # "denoise" => att = AttendedAt(n, phase, b0)
    BY DEF LaneInv
  <1>2. /\ Session(cursor, cacheN, nN, phaseN, sN, bN)
        /\ nN = n /\ phaseN \in {"denoise", "generated"}
        /\ phase = "idle" => /\ phaseN = "denoise"
                             /\ cacheN = cache /\ attN = att
                             /\ sN = 0 /\ bN = 1 /\ b0 = 1
        /\ phase # "idle" =>
              /\ phase = "denoise"
              /\ <<attN, cacheN[b0].cross>> = ForwardRead(n, ForwardsDone(phase, s, b0))
              /\ ForwardsDone(phase, s, b0) \in Nat
              /\ ForwardsDone(phaseN, sN, bN) = ForwardsDone(phase, s, b0) + 1
        /\ phaseN = "generated" => attN = EntriesOf(n + 1, LastStep)
    BY <1>1, Generates
  <1>3. LaneInv(cursor, cacheN, nN, phaseN, sN, bN, attN)
    BY <1>2 DEF LaneInv, AttendedAt
  <1>4. N \in Nat /\ M = N + 1 /\ <<attN, cacheN[b0].cross>> = f[N + 1]
    <2>1. CASE phase = "idle"
      <3>1. N = 0 /\ M = 1
        BY <1>2, <2>1, NoForwardYet
      <3>2. f[1] = IF n > 0 THEN <<AttendedAt(n, "idle", 1), TRUE>> ELSE <<{}, FALSE>>
        BY DEF ReadAt
      <3>3. n \in Nat /\ 1 \in BlockIds
        BY <1>1, CacheAssumption DEF Session, BlockIds
      <3>4. (cache[1].cross <=> n > 0) /\ cache[1].cross \in BOOLEAN
        BY <1>1, <2>1, <3>3 DEF Session, CrossAt, Holds
      <3>5. attN = AttendedAt(n, "idle", 1) /\ cacheN[b0].cross = cache[1].cross
        BY <1>1, <1>2, <2>1
      <3>8. N \in Nat /\ M = N + 1 /\ f[N + 1] = f[1]
        <4> HIDE DEF f, N, M
        <4> QED BY <3>1
      <3>6. CASE n > 0
        <4>1. cacheN[b0].cross = TRUE
          BY <3>4, <3>5, <3>6
        <4>2. f[1] = <<attN, TRUE>>
          BY <3>2, <3>5, <3>6
        <4> HIDE DEF f
        <4> QED BY <3>8, <4>1, <4>2
      <3>7. CASE ~(n > 0)
        <4>1. cacheN[b0].cross = FALSE
          BY <3>4, <3>5, <3>7
        <4>2. attN = {}
          BY <3>3, <3>5, <3>7 DEF AttendedAt
        <4>3. f[1] = <<attN, FALSE>>
          BY <3>2, <3>7, <4>2
        <4> HIDE DEF f
        <4> QED BY <3>8, <4>1, <4>3
      <3> QED BY <3>6, <3>7
    <2>2. CASE phase # "idle"
      <3>1. /\ N = ForwardsDone(phase, s, b0) + 1 /\ N \in Nat /\ N > 0 /\ M = N + 1
            /\ <<attN, cacheN[b0].cross>> = ForwardRead(n, N - 1)
        BY <1>2, <2>2
      <3> HIDE DEF N
      <3>2. f[N + 1] = ForwardRead(n, N - 1)
        BY <3>1 DEF ReadAt
      <3> QED BY <3>1, <3>2
    <2> QED BY <2>1, <2>2
  <1>5. /\ ReadsAt(n, phase, s, b0) = [k \in 1..N |-> ReadAt(n, k)]
        /\ ReadsAt(nN, phaseN, sN, bN) = [k \in 1..M |-> ReadAt(n, k)]
    BY <1>2 DEF ReadsAt
  <1> HIDE DEF N, M
  <1>6. /\ [k \in 1..N |-> ReadAt(n, k)] = [k \in 1..N |-> f[k]]
        /\ [k \in 1..M |-> ReadAt(n, k)] = [k \in 1..M |-> f[k]]
    BY <1>4
  <1>7. DOMAIN f = Nat
    OBVIOUS
  <1> HIDE DEF f
  <1>8. Append([k \in 1..N |-> f[k]], f[N + 1]) = [k \in 1..(N + 1) |-> f[k]]
    BY <1>4, <1>7, Appended
  <1> QED BY <1>3, <1>4, <1>5, <1>6, <1>8

\* A step of commit_clean_kv keeps the invariant of its lane.
LEMMA LaneCommits ==
    ASSUME NEW cursor, NEW cache, NEW n, NEW phase, NEW s, NEW b0,
           NEW att, NEW flag \in BOOLEAN,
           NEW cacheN, NEW nN, NEW phaseN, NEW sN, NEW bN, NEW attN, NEW flagN,
           LaneInv(cursor, cache, n, phase, s, b0, att), flag => Filled(cache),
           CommitStep(cursor, cache, n, phase, s, b0, att, flag,
                      cacheN, nN, phaseN, sN, bN, attN, flagN)
    PROVE  LaneInv(cursor, cacheN, nN, phaseN, sN, bN, attN)
  <1>1. /\ Session(cursor, cache, n, phase, s, b0)
        /\ phase # "denoise" => att = AttendedAt(n, phase, b0)
    BY DEF LaneInv
  <1>2. /\ Session(cursor, cacheN, nN, phaseN, sN, bN)
        /\ phase \in {"generated", "clean"} /\ phaseN \in {"clean", "idle"}
        /\ nN = IF phaseN = "idle" THEN n + 1 ELSE n
        /\ phase = "generated" => attN = att /\ phaseN = "clean" /\ b0 = 1 /\ bN = 1
        /\ phase = "clean" =>
              IF b0 < CacheBlocks
              THEN attN = EntriesOf(n + 1, CleanPass) /\ bN = b0 + 1 /\ phaseN = "clean"
              ELSE attN = att /\ phaseN = "idle"
    BY <1>1, Commits
  <1>3. b0 \in BlockIds /\ n \in Nat /\ CacheBlocks \in Nat
    BY <1>1, CacheAssumption DEF Session
  <1>4. attN = AttendedAt(nN, phaseN, bN)
    <2>1. CASE phase = "generated"
      BY <1>1, <1>2, <2>1 DEF AttendedAt
    <2>2. CASE phase = "clean" /\ b0 < CacheBlocks
      BY <1>2, <1>3, <2>2 DEF AttendedAt, BlockIds
    <2>3. CASE phase = "clean" /\ ~(b0 < CacheBlocks)
      <3>1. b0 = CacheBlocks
        BY <1>3, <2>3 DEF BlockIds
      <3>2. nN = n + 1 /\ phaseN = "idle" /\ attN = att /\ nN - 1 = n /\ nN # 0
        BY <1>2, <1>3, <2>3
      <3>3. AttendedAt(nN, "idle", bN) =
                EntriesOf(n + 1, IF CacheBlocks > 1 THEN CleanPass ELSE LastStep)
        BY <3>2 DEF AttendedAt
      <3>4. att = IF b0 = 1 THEN EntriesOf(n + 1, LastStep) ELSE EntriesOf(n + 1, CleanPass)
        BY <1>1, <2>3 DEF AttendedAt
      <3>5. b0 = 1 <=> ~(CacheBlocks > 1)
        BY <1>3, <3>1, CacheAssumption
      <3> QED BY <3>2, <3>3, <3>4, <3>5
    <2> QED BY <1>2, <2>1, <2>2, <2>3
  <1> QED BY <1>2, <1>4 DEF LaneInv

\* Both lanes begin with a prepared session.
LEMMA EquivalenceInit == Init => EquivalenceInv
  <1> SUFFICES ASSUME Init PROVE EquivalenceInv
    OBVIOUS
  <1>1. /\ cacheC = Prepared /\ chunkC = 0 /\ phaseC = "idle" /\ stepC = 0
        /\ blockC = 1 /\ attendedC = {}
        /\ cacheH = Prepared /\ chunkH = 0 /\ phaseH = "idle" /\ stepH = 0
        /\ blockH = 1 /\ attendedH = {}
        /\ pipeInitE = FALSE
        /\ crossInit = [l \in Equivalence!Lanes |-> FALSE]
        /\ readsE = [l \in Equivalence!Lanes |-> <<>>]
        /\ pcE = "use control" /\ rows = <<>>
    BY DEF Init, Equivalence!Init, Equivalence!Control!Init, Equivalence!Candidate!Init,
           Prepared, BlockIds, Positions,
           Equivalence!Control!BlockIds, Equivalence!Control!Positions,
           Equivalence!Control!Unwritten,
           Equivalence!Candidate!BlockIds, Equivalence!Candidate!Positions,
           Equivalence!Candidate!Unwritten
  <1>2. AttendedAt(0, "idle", 1) = {}
    BY DEF AttendedAt
  <1>3. LaneInv("tensor", Prepared, 0, "idle", 0, 1, {})
        /\ LaneInv("host", Prepared, 0, "idle", 0, 1, {})
    BY <1>2, SessionPrepared DEF LaneInv
  <1>4. LaneC /\ LaneH
    BY <1>1, <1>3 DEF LaneC, LaneH
  <1>5. FlagInv
    BY <1>1 DEF FlagInv, Equivalence!Lanes
  <1>6. TurnInv /\ ChunkInv
    BY <1>1 DEF TurnInv, Standing, ChunkInv
  <1>7. ReadsInv
    <2>1. ReadsAt(0, "idle", 0, 1) = <<>>
      BY DEF ReadsAt
    <2> QED BY <1>1, <2>1 DEF ReadsInv, Equivalence!Lanes
  <1>8. rows \in Seq({Agreed})
    <2>1. << >> \in Seq({Agreed})
      OBVIOUS
    <2> QED BY <1>1, <2>1
  <1> QED BY <1>4, <1>5, <1>6, <1>7, <1>8 DEF EquivalenceInv

\* The invariant speaks of the harness only.
LEMMA EquivalenceQuiet == EquivalenceInv /\ UNCHANGED equivalence => EquivalenceInv'
  <1> SUFFICES ASSUME EquivalenceInv, UNCHANGED equivalence PROVE EquivalenceInv'
    OBVIOUS
  <1>1. /\ pcE' = pcE /\ rows' = rows /\ readsE' = readsE
        /\ crossInit' = crossInit /\ pipeInitE' = pipeInitE
        /\ cacheC' = cacheC /\ chunkC' = chunkC /\ phaseC' = phaseC /\ stepC' = stepC
        /\ blockC' = blockC /\ attendedC' = attendedC
        /\ cacheH' = cacheH /\ chunkH' = chunkH /\ phaseH' = phaseH /\ stepH' = stepH
        /\ blockH' = blockH /\ attendedH' = attendedH
    BY DEF equivalence
  <1>2. LaneC' /\ LaneH'
    BY <1>1 DEF EquivalenceInv, LaneC, LaneH
  <1>3. FlagInv'
    BY <1>1 DEF EquivalenceInv, FlagInv
  <1>4. TurnInv' /\ ChunkInv'
    BY <1>1 DEF EquivalenceInv, TurnInv, Standing, ChunkInv
  <1>5. ReadsInv'
    BY <1>1 DEF EquivalenceInv, ReadsInv
  <1> QED BY <1>1, <1>2, <1>3, <1>4, <1>5 DEF EquivalenceInv

\* The flag is set to what the lane that is called has last seen.
LEMMA UseFlagStep ==
    ASSUME EquivalenceInv, NEW l, NEW from, NEW to,
           Equivalence!UseFlag(l, from, to),
           <<l, from, to>> \in
               {<<"control", "use control", "generate control">>,
                <<"candidate", "use candidate", "generate candidate">>,
                <<"control", "clean control", "commit control">>,
                <<"candidate", "clean candidate", "commit candidate">>}
    PROVE  EquivalenceInv'
  <1>1. /\ pcE = from /\ pcE' = to /\ pipeInitE' = crossInit[l]
        /\ cacheC' = cacheC /\ chunkC' = chunkC /\ phaseC' = phaseC /\ stepC' = stepC
        /\ blockC' = blockC /\ attendedC' = attendedC
        /\ cacheH' = cacheH /\ chunkH' = chunkH /\ phaseH' = phaseH /\ stepH' = stepH
        /\ blockH' = blockH /\ attendedH' = attendedH
        /\ crossInit' = crossInit /\ readsE' = readsE /\ rows' = rows
    BY DEF Equivalence!UseFlag, Equivalence!laneC, Equivalence!laneH
  <1>2. \/ l = "control" /\ from = "use control" /\ to = "generate control"
        \/ l = "candidate" /\ from = "use candidate" /\ to = "generate candidate"
        \/ l = "control" /\ from = "clean control" /\ to = "commit control"
        \/ l = "candidate" /\ from = "clean candidate" /\ to = "commit candidate"
    OBVIOUS
  <1>3. LaneC' /\ LaneH'
    BY <1>1 DEF EquivalenceInv, LaneC, LaneH
  <1>4. FlagInv'
    <2>1. /\ crossInit \in [Equivalence!Lanes -> BOOLEAN]
          /\ crossInit["control"] => Filled(cacheC)
          /\ crossInit["candidate"] => Filled(cacheH)
      BY DEF EquivalenceInv, FlagInv
    <2>2. Filled(cacheC') = Filled(cacheC) /\ Filled(cacheH') = Filled(cacheH)
      BY <1>1
    <2>3. pipeInitE' \in BOOLEAN
      BY <1>1, <1>2, <2>1 DEF Equivalence!Lanes
    <2>4. /\ crossInit' \in [Equivalence!Lanes -> BOOLEAN]
          /\ crossInit'["control"] => Filled(cacheC')
          /\ crossInit'["candidate"] => Filled(cacheH')
      BY <1>1, <2>1, <2>2
    <2>5. CASE l = "control"
      <3>1. pcE' \notin {"generate candidate", "commit candidate"}
        BY <1>1, <1>2, <2>5
      <3>2. pipeInitE' => Filled(cacheC')
        BY <1>1, <2>1, <2>2, <2>5, Zenon
      <3> QED BY <2>3, <2>4, <3>1, <3>2 DEF FlagInv
    <2>6. CASE l = "candidate"
      <3>1. pcE' \notin {"generate control", "commit control"}
        BY <1>1, <1>2, <2>6
      <3>2. pipeInitE' => Filled(cacheH')
        BY <1>1, <2>1, <2>2, <2>6, Zenon
      <3> QED BY <2>3, <2>4, <3>1, <3>2 DEF FlagInv
    <2> QED BY <1>2, <2>5, <2>6
  <1>5. TurnInv' /\ ChunkInv'
    BY <1>1, <1>2 DEF EquivalenceInv, TurnInv, Standing, ChunkInv
  <1>6. ReadsInv'
    <2>1. pcE' \in Generating <=> pcE \in Generating
      BY <1>1, <1>2 DEF Generating
    <2> QED BY <1>1, <2>1 DEF EquivalenceInv, ReadsInv
  <1> QED BY <1>1, <1>3, <1>4, <1>5, <1>6 DEF EquivalenceInv

\* The lane that generates moves, the other one waits.
LEMMA GenerateControlStep == EquivalenceInv /\ Equivalence!GenerateControl => EquivalenceInv'
  <1> SUFFICES ASSUME EquivalenceInv, Equivalence!GenerateControl PROVE EquivalenceInv'
    OBVIOUS
  <1>1. /\ pcE = "generate control"
        /\ pcE' = IF phaseC' = "generated" THEN "use candidate" ELSE "generate control"
        /\ crossInit' = [crossInit EXCEPT !["control"] = @ \/ phaseC' = "generated"]
        /\ readsE' = [readsE EXCEPT !["control"] =
                        Append(@, <<attendedC', cacheC'[blockC].cross>>)]
        /\ cacheH' = cacheH /\ chunkH' = chunkH /\ phaseH' = phaseH
        /\ stepH' = stepH /\ blockH' = blockH /\ attendedH' = attendedH
        /\ rows' = rows
    BY DEF Equivalence!GenerateControl, Equivalence!Returns, Equivalence!Reads,
           Equivalence!laneH
  <1>2. GenerateStep("tensor", cacheC, chunkC, phaseC, stepC, blockC, attendedC, pipeInitE,
                     cacheC', chunkC', phaseC', stepC', blockC', attendedC', pipeInitE')
    BY ControlGenerates DEF Equivalence!GenerateControl
  <1>3. /\ LaneInv("tensor", cacheC, chunkC, phaseC, stepC, blockC, attendedC)
        /\ Session("tensor", cacheC, chunkC, phaseC, stepC, blockC)
        /\ pipeInitE \in BOOLEAN
        /\ pipeInitE => Filled(cacheC)
    BY <1>1 DEF EquivalenceInv, FlagInv, LaneC, LaneInv
  <1>4. /\ pipeInitE' \in BOOLEAN /\ (pipeInitE' => Filled(cacheC'))
        /\ Filled(cacheC) => Filled(cacheC')
        /\ chunkC' = chunkC /\ phaseC' \in {"denoise", "generated"}
        /\ phaseC' = "generated" => Filled(cacheC')
    BY <1>2, <1>3, Generates
  <1>5. /\ LaneInv("tensor", cacheC', chunkC', phaseC', stepC', blockC', attendedC')
        /\ Append(ReadsAt(chunkC, phaseC, stepC, blockC),
                  <<attendedC', cacheC'[blockC].cross>>)
               = ReadsAt(chunkC', phaseC', stepC', blockC')
    BY <1>2, <1>3, ReadsGrow
  <1>6. LaneC'
    BY <1>5 DEF LaneC
  <1>7. LaneH'
    BY <1>1 DEF EquivalenceInv, LaneH
  <1>8. FlagInv'
    <2>1. Filled(cacheH') = Filled(cacheH)
      BY <1>1
    <2>2. /\ crossInit \in [Equivalence!Lanes -> BOOLEAN]
          /\ "control" \in Equivalence!Lanes /\ "candidate" \in Equivalence!Lanes
      BY DEF EquivalenceInv, FlagInv, Equivalence!Lanes
    <2>3. /\ crossInit' \in [Equivalence!Lanes -> BOOLEAN]
          /\ crossInit'["control"] = (crossInit["control"] \/ phaseC' = "generated")
          /\ crossInit'["candidate"] = crossInit["candidate"]
      BY <1>1, <2>2
    <2>4. (crossInit["control"] => Filled(cacheC)) /\ (crossInit["candidate"] => Filled(cacheH))
      BY DEF EquivalenceInv, FlagInv
    <2>5. pcE' \in {"use candidate", "generate control"}
      BY <1>1
    <2> HIDE DEF EquivalenceInv
    <2>6. (crossInit'["control"] => Filled(cacheC')) /\ (crossInit'["candidate"] => Filled(cacheH'))
      BY <1>4, <2>1, <2>3, <2>4, Zenon
    <2>7. /\ pcE' \in {"generate control", "commit control"} /\ pipeInitE' => Filled(cacheC')
          /\ pcE' \notin {"generate candidate", "commit candidate"}
      BY <1>4, <2>5
    <2> QED BY <1>4, <2>3, <2>6, <2>7 DEF FlagInv
  <1>9. TurnInv' /\ ChunkInv'
    BY <1>1, <1>4 DEF EquivalenceInv, TurnInv, Standing, ChunkInv
  <1>10. ReadsInv'
    <2>1. /\ DOMAIN readsE = Equivalence!Lanes
          /\ readsE["control"] = ReadsAt(chunkC, phaseC, stepC, blockC)
          /\ readsE["candidate"] = ReadsAt(chunkH, phaseH, stepH, blockH)
      BY <1>1 DEF EquivalenceInv, ReadsInv, Generating
    <2>2. /\ DOMAIN readsE' = Equivalence!Lanes
          /\ readsE'["control"] = ReadsAt(chunkC', phaseC', stepC', blockC')
          /\ readsE'["candidate"] = ReadsAt(chunkH, phaseH, stepH, blockH)
      BY <1>1, <1>5, <2>1 DEF Equivalence!Lanes
    <2>3. pcE' \in Generating
      BY <1>1 DEF Generating
    <2> QED BY <1>1, <2>2, <2>3 DEF ReadsInv
  <1> QED BY <1>1, <1>6, <1>7, <1>8, <1>9, <1>10 DEF EquivalenceInv

\* The same with the lanes swapped.
LEMMA GenerateCandidateStep == EquivalenceInv /\ Equivalence!GenerateCandidate => EquivalenceInv'
  <1> SUFFICES ASSUME EquivalenceInv, Equivalence!GenerateCandidate PROVE EquivalenceInv'
    OBVIOUS
  <1>1. /\ pcE = "generate candidate"
        /\ pcE' = IF phaseH' = "generated" THEN "compare x0" ELSE "generate candidate"
        /\ crossInit' = [crossInit EXCEPT !["candidate"] = @ \/ phaseH' = "generated"]
        /\ readsE' = [readsE EXCEPT !["candidate"] =
                        Append(@, <<attendedH', cacheH'[blockH].cross>>)]
        /\ cacheC' = cacheC /\ chunkC' = chunkC /\ phaseC' = phaseC
        /\ stepC' = stepC /\ blockC' = blockC /\ attendedC' = attendedC
        /\ rows' = rows
    BY DEF Equivalence!GenerateCandidate, Equivalence!Returns, Equivalence!Reads,
           Equivalence!laneC
  <1>2. GenerateStep("host", cacheH, chunkH, phaseH, stepH, blockH, attendedH, pipeInitE,
                     cacheH', chunkH', phaseH', stepH', blockH', attendedH', pipeInitE')
    BY CandidateGenerates DEF Equivalence!GenerateCandidate
  <1>3. /\ LaneInv("host", cacheH, chunkH, phaseH, stepH, blockH, attendedH)
        /\ Session("host", cacheH, chunkH, phaseH, stepH, blockH)
        /\ pipeInitE \in BOOLEAN
        /\ pipeInitE => Filled(cacheH)
    BY <1>1 DEF EquivalenceInv, FlagInv, LaneH, LaneInv
  <1>4. /\ pipeInitE' \in BOOLEAN /\ (pipeInitE' => Filled(cacheH'))
        /\ Filled(cacheH) => Filled(cacheH')
        /\ chunkH' = chunkH /\ phaseH' \in {"denoise", "generated"}
        /\ phaseH' = "generated" => Filled(cacheH')
    BY <1>2, <1>3, Generates
  <1>5. /\ LaneInv("host", cacheH', chunkH', phaseH', stepH', blockH', attendedH')
        /\ Append(ReadsAt(chunkH, phaseH, stepH, blockH),
                  <<attendedH', cacheH'[blockH].cross>>)
               = ReadsAt(chunkH', phaseH', stepH', blockH')
    BY <1>2, <1>3, ReadsGrow
  <1>6. LaneH'
    BY <1>5 DEF LaneH
  <1>7. LaneC'
    BY <1>1 DEF EquivalenceInv, LaneC
  <1>8. FlagInv'
    <2>1. Filled(cacheC') = Filled(cacheC)
      BY <1>1
    <2>2. /\ crossInit \in [Equivalence!Lanes -> BOOLEAN]
          /\ "candidate" \in Equivalence!Lanes /\ "control" \in Equivalence!Lanes
      BY DEF EquivalenceInv, FlagInv, Equivalence!Lanes
    <2>3. /\ crossInit' \in [Equivalence!Lanes -> BOOLEAN]
          /\ crossInit'["candidate"] = (crossInit["candidate"] \/ phaseH' = "generated")
          /\ crossInit'["control"] = crossInit["control"]
      BY <1>1, <2>2
    <2>4. (crossInit["candidate"] => Filled(cacheH)) /\ (crossInit["control"] => Filled(cacheC))
      BY DEF EquivalenceInv, FlagInv
    <2>5. pcE' \in {"compare x0", "generate candidate"}
      BY <1>1
    <2> HIDE DEF EquivalenceInv
    <2>6. (crossInit'["candidate"] => Filled(cacheH')) /\ (crossInit'["control"] => Filled(cacheC'))
      BY <1>4, <2>1, <2>3, <2>4, Zenon
    <2>7. /\ pcE' \in {"generate candidate", "commit candidate"} /\ pipeInitE' => Filled(cacheH')
          /\ pcE' \notin {"generate control", "commit control"}
      BY <1>4, <2>5
    <2> QED BY <1>4, <2>3, <2>6, <2>7 DEF FlagInv
  <1>9. TurnInv' /\ ChunkInv'
    BY <1>1, <1>4 DEF EquivalenceInv, TurnInv, Standing, ChunkInv
  <1>10. ReadsInv'
    <2>1. /\ DOMAIN readsE = Equivalence!Lanes
          /\ readsE["candidate"] = ReadsAt(chunkH, phaseH, stepH, blockH)
          /\ readsE["control"] = ReadsAt(chunkC, phaseC, stepC, blockC)
      BY <1>1 DEF EquivalenceInv, ReadsInv, Generating
    <2>2. /\ DOMAIN readsE' = Equivalence!Lanes
          /\ readsE'["candidate"] = ReadsAt(chunkH', phaseH', stepH', blockH')
          /\ readsE'["control"] = ReadsAt(chunkC, phaseC, stepC, blockC)
      BY <1>1, <1>5, <2>1 DEF Equivalence!Lanes
    <2>3. pcE' \in Generating
      BY <1>1 DEF Generating
    <2> QED BY <1>1, <2>2, <2>3 DEF ReadsInv
  <1> QED BY <1>1, <1>6, <1>7, <1>8, <1>9, <1>10 DEF EquivalenceInv

\* The control commits, and is a chunk ahead of the candidate for that long.
LEMMA CommitControlStep == EquivalenceInv /\ Equivalence!CommitControl => EquivalenceInv'
  <1> SUFFICES ASSUME EquivalenceInv, Equivalence!CommitControl PROVE EquivalenceInv'
    OBVIOUS
  <1>1. /\ pcE = "commit control"
        /\ pcE' = IF phaseC' = "idle" THEN "clean candidate" ELSE "commit control"
        /\ crossInit' = [crossInit EXCEPT !["control"] = @ \/ phaseC' = "idle"]
        /\ cacheH' = cacheH /\ chunkH' = chunkH /\ phaseH' = phaseH
        /\ stepH' = stepH /\ blockH' = blockH /\ attendedH' = attendedH
        /\ rows' = rows /\ readsE' = readsE
    BY DEF Equivalence!CommitControl, Equivalence!Returns, Equivalence!laneH
  <1>2. CommitStep("tensor", cacheC, chunkC, phaseC, stepC, blockC, attendedC, pipeInitE,
                   cacheC', chunkC', phaseC', stepC', blockC', attendedC', pipeInitE')
    BY ControlCommits DEF Equivalence!CommitControl
  <1>3. /\ LaneInv("tensor", cacheC, chunkC, phaseC, stepC, blockC, attendedC)
        /\ Session("tensor", cacheC, chunkC, phaseC, stepC, blockC)
        /\ pipeInitE \in BOOLEAN
        /\ pipeInitE => Filled(cacheC)
        /\ chunkC \in Nat
    BY <1>1 DEF EquivalenceInv, FlagInv, LaneC, LaneInv, Session
  <1>4. /\ pipeInitE' = pipeInitE /\ Filled(cacheC')
        /\ phaseC' \in {"clean", "idle"}
        /\ chunkC' = IF phaseC' = "idle" THEN chunkC + 1 ELSE chunkC
    BY <1>2, <1>3, Commits
  <1>6. LaneC'
    BY <1>2, <1>3, LaneCommits DEF LaneC
  <1>7. LaneH'
    BY <1>1 DEF EquivalenceInv, LaneH
  <1>8. FlagInv'
    <2>1. Filled(cacheH') = Filled(cacheH)
      BY <1>1
    <2>2. /\ crossInit \in [Equivalence!Lanes -> BOOLEAN]
          /\ "control" \in Equivalence!Lanes /\ "candidate" \in Equivalence!Lanes
      BY DEF EquivalenceInv, FlagInv, Equivalence!Lanes
    <2>3. /\ crossInit' \in [Equivalence!Lanes -> BOOLEAN]
          /\ crossInit'["candidate"] = crossInit["candidate"]
      BY <1>1, <2>2
    <2>4. crossInit["candidate"] => Filled(cacheH)
      BY DEF EquivalenceInv, FlagInv
    <2>5. pcE' \notin {"generate candidate", "commit candidate"}
      BY <1>1
    <2>6. pipeInitE' \in BOOLEAN
      BY <1>3, <1>4
    <2>7. crossInit'["candidate"] => Filled(cacheH')
      BY <2>1, <2>3, <2>4, Zenon
    <2> QED BY <1>4, <2>3, <2>5, <2>6, <2>7 DEF FlagInv
  <1>9. TurnInv' /\ ChunkInv'
    <2>1. chunkH \in Nat
      BY DEF EquivalenceInv, LaneH, LaneInv, Session
    <2>2. TurnInv'
      BY <1>1, <1>4 DEF EquivalenceInv, TurnInv, Standing
    <2>3. ChunkInv'
      BY <1>1, <1>3, <1>4, <2>1 DEF EquivalenceInv, ChunkInv
    <2> QED BY <2>2, <2>3
  <1>10. ReadsInv'
    <2>1. /\ DOMAIN readsE = Equivalence!Lanes
          /\ readsE["control"] = <<>> /\ readsE["candidate"] = <<>>
      BY <1>1 DEF EquivalenceInv, ReadsInv, Generating
    <2>2. "clean candidate" \notin Generating /\ "commit control" \notin Generating
      BY DEF Generating
    <2> QED BY <1>1, <2>1, <2>2 DEF ReadsInv
  <1> QED BY <1>1, <1>6, <1>7, <1>8, <1>9, <1>10 DEF EquivalenceInv

\* The candidate commits, which puts the lanes level.
LEMMA CommitCandidateStep == EquivalenceInv /\ Equivalence!CommitCandidate => EquivalenceInv'
  <1> SUFFICES ASSUME EquivalenceInv, Equivalence!CommitCandidate PROVE EquivalenceInv'
    OBVIOUS
  <1>1. /\ pcE = "commit candidate"
        /\ pcE' = IF phaseH' = "idle" THEN "compare caches" ELSE "commit candidate"
        /\ crossInit' = [crossInit EXCEPT !["candidate"] = @ \/ phaseH' = "idle"]
        /\ cacheC' = cacheC /\ chunkC' = chunkC /\ phaseC' = phaseC
        /\ stepC' = stepC /\ blockC' = blockC /\ attendedC' = attendedC
        /\ rows' = rows /\ readsE' = readsE
    BY DEF Equivalence!CommitCandidate, Equivalence!Returns, Equivalence!laneC
  <1>2. CommitStep("host", cacheH, chunkH, phaseH, stepH, blockH, attendedH, pipeInitE,
                   cacheH', chunkH', phaseH', stepH', blockH', attendedH', pipeInitE')
    BY CandidateCommits DEF Equivalence!CommitCandidate
  <1>3. /\ LaneInv("host", cacheH, chunkH, phaseH, stepH, blockH, attendedH)
        /\ Session("host", cacheH, chunkH, phaseH, stepH, blockH)
        /\ pipeInitE \in BOOLEAN
        /\ pipeInitE => Filled(cacheH)
        /\ chunkH \in Nat
    BY <1>1 DEF EquivalenceInv, FlagInv, LaneH, LaneInv, Session
  <1>4. /\ pipeInitE' = pipeInitE /\ Filled(cacheH')
        /\ phaseH' \in {"clean", "idle"}
        /\ chunkH' = IF phaseH' = "idle" THEN chunkH + 1 ELSE chunkH
    BY <1>2, <1>3, Commits
  <1>6. LaneH'
    BY <1>2, <1>3, LaneCommits DEF LaneH
  <1>7. LaneC'
    BY <1>1 DEF EquivalenceInv, LaneC
  <1>8. FlagInv'
    <2>1. Filled(cacheC') = Filled(cacheC)
      BY <1>1
    <2>2. /\ crossInit \in [Equivalence!Lanes -> BOOLEAN]
          /\ "candidate" \in Equivalence!Lanes /\ "control" \in Equivalence!Lanes
      BY DEF EquivalenceInv, FlagInv, Equivalence!Lanes
    <2>3. /\ crossInit' \in [Equivalence!Lanes -> BOOLEAN]
          /\ crossInit'["control"] = crossInit["control"]
      BY <1>1, <2>2
    <2>4. crossInit["control"] => Filled(cacheC)
      BY DEF EquivalenceInv, FlagInv
    <2>5. pcE' \notin {"generate control", "commit control"}
      BY <1>1
    <2>6. pipeInitE' \in BOOLEAN
      BY <1>3, <1>4
    <2>7. crossInit'["control"] => Filled(cacheC')
      BY <2>1, <2>3, <2>4, Zenon
    <2> QED BY <1>4, <2>3, <2>5, <2>6, <2>7 DEF FlagInv
  <1>9. TurnInv' /\ ChunkInv'
    <2>1. chunkC \in Nat
      BY DEF EquivalenceInv, LaneC, LaneInv, Session
    <2>2. TurnInv'
      BY <1>1, <1>4 DEF EquivalenceInv, TurnInv, Standing
    <2>3. ChunkInv'
      BY <1>1, <1>3, <1>4, <2>1 DEF EquivalenceInv, ChunkInv
    <2> QED BY <2>2, <2>3
  <1>10. ReadsInv'
    <2>1. /\ DOMAIN readsE = Equivalence!Lanes
          /\ readsE["candidate"] = <<>> /\ readsE["control"] = <<>>
      BY <1>1 DEF EquivalenceInv, ReadsInv, Generating
    <2>2. "compare caches" \notin Generating /\ "commit candidate" \notin Generating
      BY DEF Generating
    <2> QED BY <1>1, <2>1, <2>2 DEF ReadsInv
  <1> QED BY <1>1, <1>6, <1>7, <1>8, <1>9, <1>10 DEF EquivalenceInv

\* Two sessions that rest at the same place have the same caches.
LEMMA SameAtRest ==
    ASSUME EquivalenceInv, phaseC = phaseH, phaseC \in {"idle", "generated"},
           chunkC = chunkH
    PROVE  Equivalence!Comparison(TRUE) = Agreed
  <1>1. ASSUME NEW b \in BlockIds
        PROVE  /\ cacheC[b].global = cacheH[b].global /\ cacheC[b].local = cacheH[b].local
               /\ cacheH[b].globalPy = cacheC[b].global
               /\ cacheH[b].localPy = cacheC[b].local
               /\ cacheC[b].k = cacheH[b].k
    <2>1. /\ Session("tensor", cacheC, chunkC, phaseC, stepC, blockC)
          /\ Session("host", cacheH, chunkH, phaseH, stepH, blockH)
      BY DEF EquivalenceInv, LaneC, LaneH, LaneInv
    <2> DEFINE m == IF phaseC = "idle" THEN chunkC ELSE chunkC + 1
               p == IF phaseC = "idle" THEN CleanPass ELSE LastStep
    <2>2. /\ cacheC[b].k = KeysOf(m, p)
          /\ cacheC[b].global = m /\ cacheC[b].local = Lesser(m, Size)
      BY <2>1, SessionRests
    <2>3. /\ cacheH[b].k = KeysOf(m, p)
          /\ cacheH[b].global = m /\ cacheH[b].local = Lesser(m, Size)
          /\ cacheH[b].globalPy = m /\ cacheH[b].localPy = Lesser(m, Size)
      BY <2>1, SessionRests
    <2> QED BY <2>2, <2>3
  <1> QED BY <1>1 DEF Equivalence!Comparison, Agreed, BlockIds

\* Both lanes have read the same: the row begins with TRUE.
LEMMA CompareX0Step == EquivalenceInv /\ Equivalence!CompareX0 => EquivalenceInv'
  <1> SUFFICES ASSUME EquivalenceInv, Equivalence!CompareX0 PROVE EquivalenceInv'
    OBVIOUS
  <1>1. /\ pcE = "compare x0" /\ pcE' = "clean control"
        /\ rows' = Append(rows,
               Equivalence!Comparison(readsE["control"] = readsE["candidate"]))
        /\ readsE' = [l \in Equivalence!Lanes |-> <<>>]
        /\ cacheC' = cacheC /\ chunkC' = chunkC /\ phaseC' = phaseC /\ stepC' = stepC
        /\ blockC' = blockC /\ attendedC' = attendedC
        /\ cacheH' = cacheH /\ chunkH' = chunkH /\ phaseH' = phaseH /\ stepH' = stepH
        /\ blockH' = blockH /\ attendedH' = attendedH
        /\ crossInit' = crossInit /\ pipeInitE' = pipeInitE
    BY DEF Equivalence!CompareX0, Equivalence!laneC, Equivalence!laneH
  <1>2. LaneC' /\ LaneH'
    BY <1>1 DEF EquivalenceInv, LaneC, LaneH
  <1>3. FlagInv'
    BY <1>1 DEF EquivalenceInv, FlagInv
  <1>4. TurnInv' /\ ChunkInv'
    BY <1>1 DEF EquivalenceInv, TurnInv, ChunkInv, Standing
  <1>5. ReadsInv'
    BY <1>1 DEF ReadsInv, Generating, Equivalence!Lanes
  <1>6. phaseC = "generated" /\ phaseH = "generated" /\ chunkC = chunkH
    BY <1>1 DEF EquivalenceInv, TurnInv, ChunkInv, Standing
  <1>7. readsE["control"] = readsE["candidate"]
    <2>1. /\ readsE["control"] = ReadsAt(chunkC, phaseC, stepC, blockC)
          /\ readsE["candidate"] = ReadsAt(chunkH, phaseH, stepH, blockH)
      BY <1>1 DEF EquivalenceInv, ReadsInv, Generating
    <2>2. stepC = LastStep /\ stepH = LastStep /\ blockC = 1 /\ blockH = 1
      BY <1>6 DEF EquivalenceInv, LaneC, LaneH, LaneInv, Session
    <2> QED BY <1>6, <2>1, <2>2
  <1>8. rows' = Append(rows, Agreed)
    <2>1. (readsE["control"] = readsE["candidate"]) = TRUE
      BY <1>7
    <2> QED BY <1>1, <1>6, <2>1, SameAtRest
  <1>9. rows' \in Seq({Agreed})
    BY <1>8 DEF EquivalenceInv
  <1> QED BY <1>2, <1>3, <1>4, <1>5, <1>9 DEF EquivalenceInv

\* Both lanes hold the same: the row is an agreement.
LEMMA CompareCleanStep == EquivalenceInv /\ Equivalence!CompareClean => EquivalenceInv'
  <1> SUFFICES ASSUME EquivalenceInv, Equivalence!CompareClean PROVE EquivalenceInv'
    OBVIOUS
  <1>1. /\ pcE = "compare caches" /\ pcE' \in {"use control", "done"}
        /\ rows' = Append(rows, Equivalence!Comparison(TRUE))
        /\ readsE' = readsE
        /\ cacheC' = cacheC /\ chunkC' = chunkC /\ phaseC' = phaseC /\ stepC' = stepC
        /\ blockC' = blockC /\ attendedC' = attendedC
        /\ cacheH' = cacheH /\ chunkH' = chunkH /\ phaseH' = phaseH /\ stepH' = stepH
        /\ blockH' = blockH /\ attendedH' = attendedH
        /\ crossInit' = crossInit /\ pipeInitE' = pipeInitE
    BY DEF Equivalence!CompareClean, Equivalence!laneC, Equivalence!laneH
  <1>2. LaneC' /\ LaneH'
    BY <1>1 DEF EquivalenceInv, LaneC, LaneH
  <1>3. FlagInv'
    BY <1>1 DEF EquivalenceInv, FlagInv
  <1>4. TurnInv' /\ ChunkInv'
    BY <1>1 DEF EquivalenceInv, TurnInv, ChunkInv, Standing
  <1>5. phaseC = "idle" /\ phaseH = "idle" /\ chunkC = chunkH
    BY <1>1 DEF EquivalenceInv, TurnInv, ChunkInv, Standing
  <1>6. ReadsInv'
    <2>1. ReadsAt(chunkC, phaseC, stepC, blockC) = <<>>
          /\ ReadsAt(chunkH, phaseH, stepH, blockH) = <<>>
      BY <1>5 DEF ReadsAt
    <2>2. /\ DOMAIN readsE = Equivalence!Lanes
          /\ readsE["control"] = <<>> /\ readsE["candidate"] = <<>>
      BY <1>1 DEF EquivalenceInv, ReadsInv, Generating
    <2> QED BY <1>1, <2>1, <2>2 DEF ReadsInv
  <1>7. rows' \in Seq({Agreed})
    <2>1. rows' = Append(rows, Agreed)
      BY <1>1, <1>5, SameAtRest
    <2> QED BY <2>1 DEF EquivalenceInv
  <1> QED BY <1>2, <1>3, <1>4, <1>6, <1>7 DEF EquivalenceInv

\* Every step of the harness keeps the invariant.
LEMMA EquivalenceStep == EquivalenceInv /\ Equivalence!Next => EquivalenceInv'
  <1> SUFFICES ASSUME EquivalenceInv, Equivalence!Next PROVE EquivalenceInv'
    OBVIOUS
  <1>1. CASE Equivalence!UseFlag("control", "use control", "generate control")
    BY <1>1, UseFlagStep
  <1>2. CASE Equivalence!GenerateControl
    BY <1>2, GenerateControlStep
  <1>3. CASE Equivalence!UseFlag("candidate", "use candidate", "generate candidate")
    BY <1>3, UseFlagStep
  <1>4. CASE Equivalence!GenerateCandidate
    BY <1>4, GenerateCandidateStep
  <1>5. CASE Equivalence!CompareX0
    BY <1>5, CompareX0Step
  <1>6. CASE Equivalence!UseFlag("control", "clean control", "commit control")
    BY <1>6, UseFlagStep
  <1>7. CASE Equivalence!CommitControl
    BY <1>7, CommitControlStep
  <1>8. CASE Equivalence!UseFlag("candidate", "clean candidate", "commit candidate")
    BY <1>8, UseFlagStep
  <1>9. CASE Equivalence!CommitCandidate
    BY <1>9, CommitCandidateStep
  <1>10. CASE Equivalence!CompareClean
    BY <1>10, CompareCleanStep
  <1>11. CASE Equivalence!Finished
    BY <1>11, EquivalenceQuiet
    DEF Equivalence!Finished, Equivalence!vars, Equivalence!laneC, Equivalence!laneH,
        equivalence
  <1> QED BY <1>1, <1>2, <1>3, <1>4, <1>5, <1>6, <1>7, <1>8, <1>9, <1>10, <1>11
          DEF Equivalence!Next

\* The two sessions are where their chunk, phase, step and block say.
LEMMA EquivalenceHolds == Spec => []EquivalenceInv
  <1>1. EquivalenceInv /\ [Next]_vars => EquivalenceInv'
    BY OneProgram, EquivalenceQuiet, EquivalenceStep
  <1> QED BY EquivalenceInit, <1>1, PTL DEF Spec

\* Over any number of chunks, for any window, sinks, timesteps and blocks, the
\* session with the host cursors reads, stores and counts what the session with
\* the tensor cursors does, as kv_cursor_equivalence.py requires row by row.
THEOREM LanesAlwaysAgree == Spec => []LanesAgree
  <1>1. EquivalenceInv => LanesAgree
    <2> SUFFICES ASSUME EquivalenceInv, NEW i \in 1..Len(rows) PROVE rows[i] = Agreed
      BY DEF LanesAgree, Equivalence!LanesAgree, Agreed
    <2>1. rows \in Seq({Agreed})
      BY DEF EquivalenceInv
    <2> HIDE DEF Agreed
    <2> QED BY <2>1
  <1> QED BY EquivalenceHolds, <1>1, PTL

-----------------------------------------------------------------------------
(* BranchProbe                                                              *)

\* What the forwards of a chunk have read, and the latent of chunk n.
ChunkReads(n, phase, s, b0) ==
    [k \in 1..ForwardsDone(phase, s, b0) |-> ForwardRead(n, k - 1)]

LatentOf(n) ==
    [chunk |-> n, reads |-> ChunkReads(n, "generated", LastStep, 1),
     drawn |-> (n + 1) * LastStep]

Latents == {LatentOf(n) : n \in Nat}
CursorsOf(n) == [global |-> n, local |-> Lesser(n, Size)]

\* The chunk of the branches is the one behind the prefix.
FirstChunk == Len(prefix)

\* A branch rests behind its chunk.
AfterCommit == {"clean_end", "join", "rest"}

BranchSession ==
    /\ Session("tensor", cacheS, chunkS, phaseS, stepS, blockS)
    /\ pipeInit \in BOOLEAN
    /\ pipeInit => Filled(cacheS)
    /\ drawn = chunkS * LastStep + IF phaseS = "idle" THEN 0 ELSE stepS

BranchReads ==
    /\ phaseS # "idle" => reads = ChunkReads(chunkS, phaseS, stepS, blockS)
    /\ pcP \in AfterCommit => reads = ChunkReads(FirstChunk, "generated", LastStep, 1)

Stands(phases, chunk) == phaseS \in phases /\ chunkS = chunk

Progress ==
    /\ pcP \in {"generate", "collect", "commit", "clone", "branch", "history", "rgb0"}
               \cup AfterCommit
    /\ pcP \in {"branch", "history", "rgb0"} \cup AfterCommit => ~Probe!InPrefix
    /\ pcP \in {"collect", "clone"} => Probe!InPrefix
    /\ pcP = "generate" => Stands({"idle", "denoise"}, FirstChunk)
    /\ pcP \in {"collect", "rgb0"} => Stands({"generated"}, FirstChunk)
    /\ pcP = "commit" => Stands({"generated", "clean"},
                                IF Probe!InPrefix THEN FirstChunk - 1 ELSE FirstChunk)
    /\ pcP \in {"clone", "history"} => Stands({"idle"}, FirstChunk)
    /\ pcP = "clone" => FirstChunk > 0
    /\ pcP = "branch" => phaseS = "idle"
    /\ pcP \in AfterCommit => Stands({"idle"}, FirstChunk + 1)

BranchBefore ==
    ~Probe!InPrefix /\ (phaseS # "idle" \/ pcP \in AfterCommit)
        => beforeS = CursorsOf(FirstChunk)

\* The decoder of a branch: the prefix, then the chunk of the branch.
BranchDecoder ==
    /\ DOMAIN decoder = {"fed", "inside"}
    /\ decoder.fed \in Seq(Latents) /\ decoder.inside \in Nat
    /\ pcP = "history" => /\ Len(decoder.fed) <= Len(prefix)
                          /\ \A k \in 1..Len(decoder.fed) : decoder.fed[k] = prefix[k]
                          /\ decoder.inside = 0
    /\ pcP \in {"generate", "rgb0"} /\ ~Probe!InPrefix
           => decoder.fed = prefix /\ decoder.inside = 0
    /\ pcP \in {"commit"} \cup AfterCommit /\ ~Probe!InPrefix
           => /\ decoder.fed = Append(prefix, LatentOf(FirstChunk))
              /\ rgb \in Nat /\ rgb + decoder.inside = 4

\* What every branch starts from.
CommonInv ==
    Probe!InPrefix \/
        /\ Session("tensor", common.cache, FirstChunk, "idle", 0, 1)
        /\ common.drawn = FirstChunk * LastStep
        /\ common.flag \in BOOLEAN
        /\ common.flag => Filled(common.cache)
        /\ FirstChunk > 0

\* What has been recorded.
Record(action) ==
    [action |-> action, x0 |-> LatentOf(FirstChunk),
     history |-> Append(prefix, LatentOf(FirstChunk)), frames |-> 4,
     before |-> CursorsOf(FirstChunk)]

Records == {Record(Probe!Branches[i]) : i \in Nat}

RecordInv ==
    /\ results # Probe!None => results = CursorsOf(FirstChunk) /\ ~Probe!InPrefix
    /\ measured \in Seq(Records)
    /\ measured # <<>> => ~Probe!InPrefix

BranchRuns ==
    BranchSession /\ BranchReads /\ Progress /\ BranchBefore /\ BranchDecoder

BranchInv ==
    /\ prefix \in Seq(Latents)
    /\ CommonInv
    /\ RecordInv
    /\ pcP = "done" \/ BranchRuns

\* The prefix begins with a prepared session and an empty decoder.
LEMMA BranchInit == Init => BranchInv
  <1> SUFFICES ASSUME Init PROVE BranchInv
    OBVIOUS
  <1>1. /\ cacheS = Prepared /\ chunkS = 0 /\ phaseS = "idle" /\ stepS = 0 /\ blockS = 1
        /\ pipeInit = FALSE
    BY DEF Init, Probe!Init, Probe!KV!Init, Prepared, BlockIds, Positions,
           Probe!KV!BlockIds, Probe!KV!Positions, Probe!KV!Unwritten
  <1>2. /\ drawn = 0 /\ common = Probe!None /\ prefix = <<>>
        /\ decoder = [fed |-> <<>>, inside |-> 0]
        /\ pcP = "generate" /\ measured = <<>> /\ results = Probe!None
    BY DEF Init, Probe!Init
  <1>3. Probe!InPrefix /\ FirstChunk = 0 /\ prefix \in Seq(Latents)
    BY <1>2 DEF Probe!InPrefix, FirstChunk
  <1>4. BranchSession
    <2>1. drawn = 0 * LastStep + 0
      BY <1>2, CacheAssumption DEF LastStep
    <2>2. Session("tensor", cacheS, chunkS, phaseS, stepS, blockS)
      BY <1>1, SessionPrepared
    <2> QED BY <1>1, <2>1, <2>2 DEF BranchSession
  <1>5. BranchReads /\ Progress /\ BranchBefore
    BY <1>1, <1>2, <1>3 DEF BranchReads, Progress, BranchBefore, Stands, AfterCommit
  <1>6. BranchDecoder
    <2>1. << >> \in Seq(Latents) /\ decoder.fed = << >> /\ decoder.inside = 0
      BY <1>2
    <2> QED BY <1>2, <1>3, <2>1 DEF BranchDecoder, AfterCommit
  <1>7. CommonInv /\ RecordInv
    <2>1. measured = <<>> /\ <<>> \in Seq(Records)
      BY <1>2
    <2> QED BY <1>2, <1>3, <2>1 DEF CommonInv, RecordInv
  <1> QED BY <1>3, <1>4, <1>5, <1>6, <1>7 DEF BranchInv, BranchRuns

\* What branches leave behind does not change unless it is written.
LEMMA KeptStays ==
    ASSUME BranchInv, UNCHANGED <<common, prefix, measured, results>>
    PROVE  /\ (prefix \in Seq(Latents))' /\ CommonInv' /\ RecordInv'
           /\ (Probe!InPrefix <=> Probe!InPrefix') /\ FirstChunk' = FirstChunk
  <1>1. common' = common /\ prefix' = prefix /\ measured' = measured /\ results' = results
    OBVIOUS
  <1>2. (Probe!InPrefix <=> Probe!InPrefix') /\ FirstChunk' = FirstChunk
    BY <1>1 DEF Probe!InPrefix, FirstChunk
  <1>3. (prefix \in Seq(Latents))'
    BY <1>1 DEF BranchInv
  <1>4. CommonInv'
    BY <1>1, <1>2 DEF BranchInv, CommonInv
  <1>5. RecordInv'
    <2>1. Records' = Records
      BY <1>1 DEF Records, Record, FirstChunk
    <2>2. RecordInv
      BY DEF BranchInv
    <2> QED BY <1>1, <1>2, <2>1, <2>2 DEF RecordInv
  <1> QED BY <1>2, <1>3, <1>4, <1>5

\* A step that leaves the session and the model alone.
LEMMA SessionStays ==
    ASSUME BranchSession, UNCHANGED <<Probe!session, Probe!model>>
    PROVE  /\ BranchSession'
           /\ cacheS' = cacheS /\ chunkS' = chunkS /\ phaseS' = phaseS /\ stepS' = stepS
           /\ blockS' = blockS /\ beforeS' = beforeS /\ reads' = reads /\ drawn' = drawn
  <1>1. /\ cacheS' = cacheS /\ chunkS' = chunkS /\ phaseS' = phaseS /\ stepS' = stepS
        /\ blockS' = blockS /\ beforeS' = beforeS /\ reads' = reads /\ drawn' = drawn
        /\ pipeInit' = pipeInit
    BY DEF Probe!session, Probe!model
  <1>2. BranchSession'
    BY <1>1 DEF BranchSession
  <1> QED BY <1>1, <1>2

\* A step that moves nothing but the input probe.
LEMMA BranchUntouched ==
    ASSUME BranchInv, UNCHANGED <<Probe!session, Probe!model>>,
           UNCHANGED <<common, prefix, measured, results>>,
           UNCHANGED <<pcP, decoder, rgb>>
    PROVE  BranchInv'
  <1>1. /\ pcP' = pcP /\ decoder' = decoder /\ rgb' = rgb
        /\ UNCHANGED <<common, prefix, measured, results>>
        /\ UNCHANGED <<Probe!session, Probe!model>>
    OBVIOUS
  <1>2. /\ (prefix \in Seq(Latents))' /\ CommonInv' /\ RecordInv'
        /\ (Probe!InPrefix <=> Probe!InPrefix') /\ FirstChunk' = FirstChunk
        /\ prefix' = prefix
    BY <1>1, KeptStays
  <1>3. ASSUME BranchRuns PROVE BranchRuns'
    <2>1. /\ BranchSession'
          /\ cacheS' = cacheS /\ chunkS' = chunkS /\ phaseS' = phaseS /\ stepS' = stepS
          /\ blockS' = blockS /\ beforeS' = beforeS /\ reads' = reads /\ drawn' = drawn
      BY <1>1, <1>3, SessionStays DEF BranchRuns
    <2>2. BranchReads' /\ BranchBefore'
      BY <1>1, <1>2, <1>3, <2>1 DEF BranchRuns, BranchReads, BranchBefore
    <2>3. Progress'
      BY <1>1, <1>2, <1>3, <2>1 DEF BranchRuns, Progress, Stands
    <2>4. BranchDecoder'
      BY <1>1, <1>2, <1>3, <2>1 DEF BranchRuns, BranchDecoder
    <2> QED BY <2>1, <2>2, <2>3, <2>4 DEF BranchRuns
  <1> QED BY <1>1, <1>2, <1>3 DEF BranchInv

\* The invariant speaks of the branch probe only.
LEMMA BranchQuiet == BranchInv /\ UNCHANGED branches => BranchInv'
  <1> SUFFICES ASSUME BranchInv, UNCHANGED branches PROVE BranchInv'
    OBVIOUS
  <1>1. /\ UNCHANGED <<Probe!session, Probe!model>>
        /\ UNCHANGED <<common, prefix, measured, results>>
        /\ UNCHANGED <<pcP, decoder, rgb>>
    BY DEF branches, Probe!session, Probe!model
  <1> QED BY <1>1, BranchUntouched

\* What a forward adds to the reads of a branch.
LEMMA BranchReadsGrow ==
    ASSUME NEW n, NEW N \in Nat
    PROVE  Append([k \in 1..N |-> ForwardRead(n, k - 1)], ForwardRead(n, N))
               = [k \in 1..(N + 1) |-> ForwardRead(n, k - 1)]
  <1> DEFINE f == [k \in Nat |-> ForwardRead(n, k - 1)]
  <1>1. f[N + 1] = ForwardRead(n, N)
    OBVIOUS
  <1>2. /\ [k \in 1..N |-> ForwardRead(n, k - 1)] = [k \in 1..N |-> f[k]]
        /\ [k \in 1..(N + 1) |-> ForwardRead(n, k - 1)] = [k \in 1..(N + 1) |-> f[k]]
    OBVIOUS
  <1>3. DOMAIN f = Nat
    OBVIOUS
  <1> HIDE DEF f
  <1>4. Append([k \in 1..N |-> f[k]], f[N + 1]) = [k \in 1..(N + 1) |-> f[k]]
    BY <1>3, Appended
  <1> QED BY <1>1, <1>2, <1>4

\* A step of generate_chunk, in the prefix or in a branch.
LEMMA BranchGenerateStep == BranchInv /\ Probe!GenerateChunk => BranchInv'
  <1> SUFFICES ASSUME BranchInv, Probe!GenerateChunk PROVE BranchInv'
    OBVIOUS
  <1>1. /\ pcP = "generate"
        /\ pcP' = IF phaseS' # "generated" THEN "generate"
                  ELSE IF Probe!InPrefix THEN "collect" ELSE "rgb0"
        /\ reads' = IF phaseS = "idle" THEN <<>>
                    ELSE Append(reads, <<attendedS', cacheS'[blockS].cross>>)
        /\ drawn' = IF stepS' > stepS THEN drawn + 1 ELSE drawn
        /\ decoder' = decoder /\ rgb' = rgb
        /\ UNCHANGED <<common, prefix, measured, results>>
    BY DEF Probe!GenerateChunk, Probe!Goes, Probe!presented, Probe!kept
  <1>2. /\ GenerateStep("tensor", cacheS, chunkS, phaseS, stepS, blockS, attendedS,
                        pipeInit,
                        cacheS', chunkS', phaseS', stepS', blockS', attendedS',
                        pipeInit')
        /\ phaseS = "idle" => beforeS' = Probe!KV!CachePositions
        /\ phaseS # "idle" => beforeS' = beforeS
    BY BranchGenerates DEF Probe!GenerateChunk
  <1>3. /\ Session("tensor", cacheS, chunkS, phaseS, stepS, blockS)
        /\ pipeInit \in BOOLEAN /\ (pipeInit => Filled(cacheS))
        /\ drawn = chunkS * LastStep + IF phaseS = "idle" THEN 0 ELSE stepS
        /\ BranchReads /\ Progress /\ BranchBefore /\ BranchDecoder
        /\ phaseS \in {"idle", "denoise"} /\ chunkS = FirstChunk
        /\ chunkS \in Nat /\ stepS \in Nat
    <2>1. BranchRuns
      BY <1>1 DEF BranchInv
    <2>2. /\ BranchSession /\ BranchReads /\ Progress /\ BranchBefore /\ BranchDecoder
      BY <2>1 DEF BranchRuns
    <2>3. Session("tensor", cacheS, chunkS, phaseS, stepS, blockS)
      BY <2>2 DEF BranchSession
    <2>4. phaseS \in {"idle", "denoise"} /\ chunkS = FirstChunk
      BY <1>1, <2>2 DEF Progress, Stands
    <2>5. chunkS \in Nat /\ stepS \in Nat
      BY <2>3 DEF Session
    <2> QED BY <2>2, <2>3, <2>4, <2>5 DEF BranchSession
  <1>4. /\ Session("tensor", cacheS', chunkS', phaseS', stepS', blockS')
        /\ pipeInit' \in BOOLEAN /\ (pipeInit' => Filled(cacheS'))
        /\ chunkS' = chunkS /\ phaseS' \in {"denoise", "generated"}
        /\ phaseS = "idle" => phaseS' = "denoise" /\ stepS' = 0 /\ blockS' = 1
        /\ phaseS # "idle" =>
              /\ phaseS = "denoise"
              /\ <<attendedS', cacheS'[blockS].cross>>
                     = ForwardRead(chunkS, ForwardsDone(phaseS, stepS, blockS))
              /\ ForwardsDone(phaseS, stepS, blockS) \in Nat
              /\ ForwardsDone(phaseS', stepS', blockS')
                     = ForwardsDone(phaseS, stepS, blockS) + 1
              /\ stepS' = stepS \/ stepS' = stepS + 1
    BY <1>2, <1>3, Generates
  <1>5. /\ (prefix \in Seq(Latents))' /\ CommonInv' /\ RecordInv'
        /\ (Probe!InPrefix <=> Probe!InPrefix') /\ FirstChunk' = FirstChunk
        /\ prefix' = prefix
    BY <1>1, KeptStays
  <1>6. BranchSession'
    <2>1. chunkS * LastStep \in Int
      BY <1>3, CacheAssumption DEF LastStep
    <2>2. drawn' = chunkS * LastStep + stepS'
      BY <1>1, <1>3, <1>4, <2>1
    <2> QED BY <1>4, <2>2 DEF BranchSession
  <1>7. BranchReads'
    <2>1. reads' = ChunkReads(chunkS, phaseS', stepS', blockS')
      <3>1. CASE phaseS = "idle"
        <4>1. ForwardsDone(phaseS', stepS', blockS') = 0
          BY <1>4, <3>1, NoForwardYet
        <4>2. ChunkReads(chunkS, phaseS', stepS', blockS') = <<>>
          BY <4>1 DEF ChunkReads
        <4> QED BY <1>1, <3>1, <4>2
      <3>2. CASE phaseS # "idle"
        <4> DEFINE N == ForwardsDone(phaseS, stepS, blockS)
        <4>1. N \in Nat /\ ForwardsDone(phaseS', stepS', blockS') = N + 1
          BY <1>4, <3>2
        <4>2. reads = ChunkReads(chunkS, phaseS, stepS, blockS)
          BY <1>3, <3>2 DEF BranchReads
        <4>3. reads = [k \in 1..N |-> ForwardRead(chunkS, k - 1)]
          BY <4>2 DEF ChunkReads
        <4>4. reads' = Append(reads, ForwardRead(chunkS, N))
          BY <1>1, <1>4, <3>2
        <4>5. ChunkReads(chunkS, phaseS', stepS', blockS')
                  = [k \in 1..(N + 1) |-> ForwardRead(chunkS, k - 1)]
          BY <4>1 DEF ChunkReads
        <4> HIDE DEF N
        <4> QED BY <4>1, <4>3, <4>4, <4>5, BranchReadsGrow
      <3> QED BY <3>1, <3>2
    <2>2. pcP' \notin AfterCommit
      BY <1>1 DEF AfterCommit
    <2> QED BY <1>4, <2>1, <2>2 DEF BranchReads
  <1>8. Progress'
    BY <1>1, <1>3, <1>4, <1>5 DEF Progress, Stands, AfterCommit
  <1>9. BranchBefore'
    <2>1. CASE Probe!InPrefix
      BY <1>5, <2>1 DEF BranchBefore
    <2>2. CASE ~Probe!InPrefix
      <3>1. CASE phaseS = "idle"
        <4>1. 1 \in BlockIds
          BY CacheAssumption DEF BlockIds
        <4>2. cacheS[1].global = chunkS /\ cacheS[1].local = Lesser(chunkS, Size)
          BY <1>3, <3>1, <4>1, SessionRests
        <4>3. beforeS' = CursorsOf(chunkS)
          BY <1>2, <3>1, <4>2 DEF Probe!KV!CachePositions, CursorsOf
        <4> QED BY <1>3, <1>5, <4>3 DEF BranchBefore
      <3>2. CASE phaseS # "idle"
        <4>1. beforeS' = CursorsOf(FirstChunk)
          BY <1>2, <1>3, <2>2, <3>2 DEF BranchBefore
        <4> QED BY <1>5, <4>1 DEF BranchBefore
      <3> QED BY <3>1, <3>2
    <2> QED BY <2>1, <2>2
  <1>10. BranchDecoder'
    <2>1. pcP' \in {"generate", "collect", "rgb0"}
      BY <1>1
    <2> QED BY <1>1, <1>3, <1>5, <2>1 DEF BranchDecoder, AfterCommit
  <1> QED BY <1>5, <1>6, <1>7, <1>8, <1>9, <1>10 DEF BranchInv, BranchRuns

\* A step of commit_clean_kv, in the prefix or in a branch.
LEMMA BranchCommitStep == BranchInv /\ Probe!CommitCleanKV => BranchInv'
  <1> SUFFICES ASSUME BranchInv, Probe!CommitCleanKV PROVE BranchInv'
    OBVIOUS
  <1>1. /\ pcP = "commit"
        /\ pcP' = IF phaseS' # "idle" THEN "commit"
                  ELSE IF ~Probe!InPrefix THEN "clean_end"
                  ELSE IF Len(prefix) <= PrefixActions THEN "generate" ELSE "clone"
        /\ reads' = reads /\ drawn' = drawn /\ decoder' = decoder /\ rgb' = rgb
        /\ UNCHANGED <<common, prefix, measured, results>>
    BY DEF Probe!CommitCleanKV, Probe!Goes, Probe!presented, Probe!kept
  <1>2. /\ CommitStep("tensor", cacheS, chunkS, phaseS, stepS, blockS, attendedS,
                      pipeInit,
                      cacheS', chunkS', phaseS', stepS', blockS', attendedS',
                      pipeInit')
        /\ beforeS' = beforeS
    BY BranchCommits DEF Probe!CommitCleanKV
  <1>3. /\ Session("tensor", cacheS, chunkS, phaseS, stepS, blockS)
        /\ pipeInit \in BOOLEAN /\ (pipeInit => Filled(cacheS))
        /\ drawn = chunkS * LastStep + IF phaseS = "idle" THEN 0 ELSE stepS
        /\ BranchReads /\ Progress /\ BranchBefore /\ BranchDecoder
        /\ phaseS \in {"generated", "clean"}
        /\ chunkS = IF Probe!InPrefix THEN FirstChunk - 1 ELSE FirstChunk
        /\ chunkS \in Nat
    <2>1. BranchRuns
      BY <1>1 DEF BranchInv
    <2>2. /\ BranchSession /\ BranchReads /\ Progress /\ BranchBefore /\ BranchDecoder
      BY <2>1 DEF BranchRuns
    <2>3. Session("tensor", cacheS, chunkS, phaseS, stepS, blockS)
      BY <2>2 DEF BranchSession
    <2>4. /\ phaseS \in {"generated", "clean"}
          /\ chunkS = IF Probe!InPrefix THEN FirstChunk - 1 ELSE FirstChunk
      BY <1>1, <2>2 DEF Progress, Stands
    <2>5. chunkS \in Nat
      BY <2>3 DEF Session
    <2> QED BY <2>2, <2>3, <2>4, <2>5 DEF BranchSession
  <1>4. /\ Session("tensor", cacheS', chunkS', phaseS', stepS', blockS')
        /\ pipeInit' = pipeInit /\ stepS' = stepS /\ stepS = LastStep /\ Filled(cacheS')
        /\ phaseS' \in {"clean", "idle"}
        /\ chunkS' = IF phaseS' = "idle" THEN chunkS + 1 ELSE chunkS
    BY <1>2, <1>3, Commits
  <1>5. /\ (prefix \in Seq(Latents))' /\ CommonInv' /\ RecordInv'
        /\ (Probe!InPrefix <=> Probe!InPrefix') /\ FirstChunk' = FirstChunk
        /\ prefix' = prefix /\ FirstChunk \in Nat
    <2>1. FirstChunk \in Nat
      BY DEF BranchInv, FirstChunk
    <2> QED BY <1>1, <2>1, KeptStays
  <1>6. BranchSession'
    <2>1. /\ chunkS * LastStep \in Int /\ LastStep \in Int
          /\ (chunkS + 1) * LastStep = chunkS * LastStep + LastStep
      BY <1>3, CacheAssumption DEF LastStep
    <2>2. drawn' = chunkS' * LastStep + IF phaseS' = "idle" THEN 0 ELSE stepS'
      <3>1. drawn' = chunkS * LastStep + LastStep
        BY <1>1, <1>3, <1>4
      <3> QED BY <1>4, <2>1, <3>1
    <2>3. pipeInit' \in BOOLEAN
      BY <1>3, <1>4
    <2> QED BY <1>4, <2>2, <2>3 DEF BranchSession
  <1>7. BranchReads'
    <2>1. ForwardsDone(phaseS, stepS, blockS) = ForwardsDone("generated", LastStep, 1)
      BY <1>3 DEF ForwardsDone
    <2>2. phaseS' # "idle" => ForwardsDone(phaseS', stepS', blockS')
                                  = ForwardsDone("generated", LastStep, 1)
      BY <1>4 DEF ForwardsDone
    <2>3. reads' = ChunkReads(chunkS, "generated", LastStep, 1)
      BY <1>1, <1>3, <2>1 DEF BranchReads, ChunkReads
    <2>4. phaseS' # "idle" => reads' = ChunkReads(chunkS', phaseS', stepS', blockS')
      BY <1>4, <2>2, <2>3 DEF ChunkReads
    <2>5. pcP' \in AfterCommit => chunkS = FirstChunk
      BY <1>1, <1>3 DEF AfterCommit
    <2> QED BY <1>5, <2>3, <2>4, <2>5 DEF BranchReads
  <1>8. Progress'
    BY <1>1, <1>3, <1>4, <1>5 DEF Progress, Stands, AfterCommit
  <1>9. BranchBefore'
    <2>1. ~Probe!InPrefix => beforeS' = CursorsOf(FirstChunk)
      BY <1>2, <1>3 DEF BranchBefore
    <2> QED BY <1>5, <2>1 DEF BranchBefore
  <1>10. BranchDecoder'
    <2>1. /\ pcP' \in {"commit", "clean_end", "generate", "clone"}
          /\ ~Probe!InPrefix => pcP' \in {"commit", "clean_end"}
      BY <1>1
    <2> QED BY <1>1, <1>3, <1>5, <2>1 DEF BranchDecoder, AfterCommit
  <1> QED BY <1>5, <1>6, <1>7, <1>8, <1>9, <1>10 DEF BranchInv, BranchRuns

\* A latent that is passed to the decoder.
LEMMA BegunFacts ==
    ASSUME DOMAIN decoder = {"fed", "inside"}, decoder.fed \in Seq(Latents),
           decoder.inside \in Nat, NEW x \in Latents
    PROVE  /\ DOMAIN Probe!Begun(x) = {"fed", "inside"}
           /\ Probe!Begun(x).fed = Append(decoder.fed, x)
           /\ Probe!Begun(x).fed \in Seq(Latents)
           /\ Probe!Begun(x).inside = decoder.inside + IF decoder.fed = <<>> THEN 0 ELSE 3
           /\ Probe!Begun(x).inside \in Nat
  <1>1. Append(decoder.fed, x) \in Seq(Latents)
    OBVIOUS
  <1> QED BY <1>1 DEF Probe!Begun

\* A latent of the prefix is the one that its place says.
LEMMA BranchCollectStep == BranchInv /\ Probe!Collect => BranchInv'
  <1> SUFFICES ASSUME BranchInv, Probe!Collect PROVE BranchInv'
    OBVIOUS
  <1>1. /\ pcP = "collect" /\ pcP' = "commit"
        /\ prefix' = Append(prefix, Probe!X0)
        /\ decoder' = [Probe!Begun(Probe!X0) EXCEPT !.inside = 0]
        /\ UNCHANGED <<Probe!session, Probe!model>>
        /\ common' = common /\ measured' = measured /\ results' = results
    BY DEF Probe!Collect, Probe!Goes
  <1>2. /\ BranchSession /\ BranchReads /\ Progress /\ BranchDecoder
        /\ Probe!InPrefix /\ phaseS = "generated" /\ chunkS = FirstChunk
        /\ prefix \in Seq(Latents) /\ FirstChunk \in Nat
    <2>1. BranchRuns /\ prefix \in Seq(Latents)
      BY <1>1 DEF BranchInv
    <2> QED BY <1>1, <2>1 DEF BranchRuns, Progress, Stands, FirstChunk
  <1>3. /\ BranchSession'
        /\ chunkS' = chunkS /\ phaseS' = phaseS /\ stepS' = stepS
        /\ blockS' = blockS /\ reads' = reads
    BY <1>1, <1>2, SessionStays
  <1>4. Probe!X0 = LatentOf(FirstChunk) /\ Probe!X0 \in Latents
    <2>1. /\ Session("tensor", cacheS, chunkS, phaseS, stepS, blockS)
          /\ drawn = chunkS * LastStep + stepS
      BY <1>2 DEF BranchSession
    <2>2. stepS = LastStep /\ blockS = 1
      BY <1>2, <2>1 DEF Session
    <2>3. drawn = (FirstChunk + 1) * LastStep
      BY <1>2, <2>1, <2>2, CacheAssumption DEF LastStep
    <2>4. reads = ChunkReads(FirstChunk, "generated", LastStep, 1)
      BY <1>2, <2>2 DEF BranchReads
    <2>5. Probe!X0 = LatentOf(FirstChunk)
      BY <1>2, <2>3, <2>4 DEF Probe!X0, LatentOf
    <2> QED BY <1>2, <2>5 DEF Latents
  <1>5. /\ (prefix \in Seq(Latents))' /\ FirstChunk' = FirstChunk + 1
        /\ Probe!InPrefix'
    <2> HIDE DEF Latents
    <2> QED BY <1>1, <1>2, <1>4 DEF FirstChunk, Probe!InPrefix
  <1>6. CommonInv' /\ RecordInv'
    <2>1. results = Probe!None /\ measured = <<>>
      BY <1>2 DEF BranchInv, RecordInv
    <2>2. measured' \in Seq(Records')
      BY <1>1, <2>1
    <2>3. Probe!None' = Probe!None
      BY DEF Probe!None
    <2> QED BY <1>1, <1>5, <2>1, <2>2, <2>3 DEF CommonInv, RecordInv
  <1>7. BranchReads' /\ BranchBefore'
    BY <1>1, <1>2, <1>3, <1>5 DEF BranchReads, BranchBefore, AfterCommit
  <1>8. Progress'
    <2>1. FirstChunk' - 1 = FirstChunk
      BY <1>2, <1>5
    <2> QED BY <1>1, <1>2, <1>3, <1>5, <2>1 DEF Progress, Stands, AfterCommit
  <1>9. BranchDecoder'
    <2>1. /\ DOMAIN Probe!Begun(Probe!X0) = {"fed", "inside"}
          /\ Probe!Begun(Probe!X0).fed \in Seq(Latents)
      BY <1>2, <1>4, BegunFacts DEF BranchDecoder
    <2>2. /\ DOMAIN decoder' = {"fed", "inside"} /\ decoder'.fed \in Seq(Latents)
          /\ decoder'.inside = 0
      BY <1>1, <2>1
    <2> QED BY <1>1, <1>5, <2>2 DEF BranchDecoder, AfterCommit
  <1> QED BY <1>3, <1>5, <1>6, <1>7, <1>8, <1>9 DEF BranchInv, BranchRuns

\* The state behind the prefix becomes what every branch starts from.
LEMMA BranchCloneStep == BranchInv /\ Probe!CloneCommon => BranchInv'
  <1> SUFFICES ASSUME BranchInv, Probe!CloneCommon PROVE BranchInv'
    OBVIOUS
  <1>1. /\ pcP = "clone" /\ pcP' = "branch"
        /\ common' = [cache |-> cacheS, drawn |-> drawn, flag |-> pipeInit]
        /\ decoder' = [fed |-> <<>>, inside |-> 0]
        /\ UNCHANGED <<Probe!session, Probe!model>>
        /\ prefix' = prefix /\ measured' = measured /\ results' = results
    BY DEF Probe!CloneCommon, Probe!Goes
  <1>2. /\ BranchSession /\ Progress
        /\ Probe!InPrefix /\ phaseS = "idle" /\ chunkS = FirstChunk /\ FirstChunk > 0
        /\ prefix \in Seq(Latents)
    <2>1. BranchRuns /\ prefix \in Seq(Latents)
      BY <1>1 DEF BranchInv
    <2> QED BY <1>1, <2>1 DEF BranchRuns, Progress, Stands, AfterCommit
  <1>3. /\ BranchSession' /\ phaseS' = phaseS
    BY <1>1, <1>2, SessionStays
  <1>4. /\ common'.cache = cacheS /\ common'.drawn = drawn /\ common'.flag = pipeInit
        /\ ~Probe!InPrefix' /\ FirstChunk' = FirstChunk
    <2>1. DOMAIN common' = {"cache", "drawn", "flag"}
      BY <1>1
    <2>2. DOMAIN Probe!None = {"none"}
      BY DEF Probe!None
    <2>3. common' # Probe!None
      BY <2>1, <2>2
    <2> QED BY <1>1, <2>3 DEF Probe!InPrefix, FirstChunk, Probe!None
  <1>5. CommonInv'
    <2>1. /\ Session("tensor", cacheS, FirstChunk, "idle", stepS, blockS)
          /\ pipeInit \in BOOLEAN /\ (pipeInit => Filled(cacheS))
          /\ drawn = chunkS * LastStep + 0
      BY <1>2 DEF BranchSession
    <2>2. Session("tensor", cacheS, FirstChunk, "idle", 0, 1)
      <3>1. 0 \in 0..LastStep
        BY CacheAssumption DEF LastStep
      <3> QED BY <2>1, <3>1, SessionElsewhere
    <2>3. drawn = FirstChunk * LastStep
      <3>1. chunkS \in Nat /\ LastStep \in Int
        BY <1>2, <2>1, CacheAssumption DEF Session, LastStep
      <3> QED BY <1>2, <2>1, <3>1
    <2>4. common'.flag \in BOOLEAN /\ (common'.flag => Filled(common'.cache))
      BY <1>4, <2>1
    <2> QED BY <1>2, <1>4, <2>2, <2>3, <2>4 DEF CommonInv
  <1>6. RecordInv'
    <2>1. results = Probe!None /\ measured = <<>>
      BY <1>2 DEF BranchInv, RecordInv
    <2>2. Probe!None' = Probe!None
      BY DEF Probe!None
    <2>3. measured' \in Seq(Records')
      BY <1>1, <2>1
    <2> QED BY <1>1, <2>1, <2>2, <2>3 DEF RecordInv
  <1>7. BranchReads' /\ BranchBefore'
    BY <1>1, <1>2, <1>3 DEF BranchReads, BranchBefore, AfterCommit
  <1>8. Progress'
    BY <1>1, <1>2, <1>3, <1>4 DEF Progress, Stands, AfterCommit
  <1>9. BranchDecoder'
    <2>1. << >> \in Seq(Latents) /\ decoder'.fed = << >> /\ decoder'.inside = 0
          /\ DOMAIN decoder' = {"fed", "inside"}
      BY <1>1
    <2> QED BY <1>1, <2>1 DEF BranchDecoder, AfterCommit
  <1>10. (prefix \in Seq(Latents))'
    BY <1>1, <1>2
  <1> QED BY <1>3, <1>5, <1>6, <1>7, <1>8, <1>9, <1>10 DEF BranchInv, BranchRuns

\* What holds of a branch at a position where it neither generates nor commits.
LEMMA BranchKept ==
    ASSUME BranchInv, pcP # "done", UNCHANGED <<Probe!session, Probe!model>>,
           UNCHANGED <<common, prefix, measured, results>>
    PROVE  /\ (prefix \in Seq(Latents))' /\ CommonInv' /\ RecordInv' /\ BranchSession'
           /\ (Probe!InPrefix <=> Probe!InPrefix') /\ FirstChunk' = FirstChunk
           /\ prefix' = prefix
           /\ chunkS' = chunkS /\ phaseS' = phaseS /\ stepS' = stepS
           /\ blockS' = blockS /\ beforeS' = beforeS /\ reads' = reads
           /\ BranchSession /\ BranchReads /\ Progress /\ BranchBefore /\ BranchDecoder
           /\ CommonInv /\ RecordInv /\ prefix \in Seq(Latents) /\ FirstChunk \in Nat
  <1>1. /\ BranchSession /\ BranchReads /\ Progress /\ BranchBefore /\ BranchDecoder
        /\ CommonInv /\ RecordInv /\ prefix \in Seq(Latents)
    BY DEF BranchInv, BranchRuns
  <1>2. FirstChunk \in Nat
    BY <1>1 DEF FirstChunk
  <1>3. /\ (prefix \in Seq(Latents))' /\ CommonInv' /\ RecordInv'
        /\ (Probe!InPrefix <=> Probe!InPrefix') /\ FirstChunk' = FirstChunk
    BY KeptStays
  <1>4. /\ BranchSession'
        /\ chunkS' = chunkS /\ phaseS' = phaseS /\ stepS' = stepS
        /\ blockS' = blockS /\ beforeS' = beforeS /\ reads' = reads
    BY <1>1, SessionStays
  <1> QED BY <1>1, <1>2, <1>3, <1>4

\* What x0 is made of behind the last denoising forward.
LEMMA BranchX0 ==
    ASSUME BranchSession, BranchReads, Stands({"generated"}, FirstChunk)
    PROVE  Probe!X0 = LatentOf(FirstChunk)
  <1>1. /\ Session("tensor", cacheS, chunkS, phaseS, stepS, blockS)
        /\ drawn = chunkS * LastStep + stepS
        /\ phaseS = "generated" /\ chunkS = FirstChunk
    BY DEF BranchSession, Stands
  <1>2. stepS = LastStep /\ blockS = 1 /\ chunkS \in Nat
    BY <1>1 DEF Session
  <1>3. drawn = (FirstChunk + 1) * LastStep
    BY <1>1, <1>2, CacheAssumption DEF LastStep
  <1>4. reads = ChunkReads(FirstChunk, "generated", LastStep, 1)
    BY <1>1, <1>2 DEF BranchReads
  <1> QED BY <1>1, <1>3, <1>4 DEF Probe!X0, LatentOf

\* A branch starts where the prefix has ended, whatever ran before it.
LEMMA BranchBeginStep == BranchInv /\ Probe!BeginBranch => BranchInv'
  <1> SUFFICES ASSUME BranchInv, Probe!BeginBranch PROVE BranchInv'
    OBVIOUS
  <1>1. /\ pcP = "branch" /\ pcP' = "history"
        /\ cacheS' = common.cache /\ drawn' = common.drawn /\ pipeInit' = common.flag
        /\ chunkS' = FirstChunk /\ phaseS' = phaseS /\ stepS' = stepS /\ blockS' = blockS
        /\ decoder' = [fed |-> <<>>, inside |-> 0]
        /\ UNCHANGED <<common, prefix, measured, results>>
    BY DEF Probe!BeginBranch, Probe!Goes, Probe!kept, FirstChunk
  <1>2. /\ Session("tensor", cacheS, chunkS, phaseS, stepS, blockS)
        /\ phaseS = "idle" /\ ~Probe!InPrefix /\ CommonInv
        /\ FirstChunk \in Nat
    <2>1. BranchRuns /\ CommonInv /\ FirstChunk \in Nat
      BY <1>1 DEF BranchInv, FirstChunk
    <2>2. BranchSession /\ Progress
      BY <2>1 DEF BranchRuns
    <2> QED BY <1>1, <2>1, <2>2 DEF Progress, BranchSession
  <1>3. /\ (prefix \in Seq(Latents))' /\ CommonInv' /\ RecordInv'
        /\ (Probe!InPrefix <=> Probe!InPrefix') /\ FirstChunk' = FirstChunk
    BY <1>1, KeptStays
  <1>4. /\ Session("tensor", common.cache, FirstChunk, "idle", 0, 1)
        /\ common.drawn = FirstChunk * LastStep
        /\ common.flag \in BOOLEAN
        /\ common.flag => Filled(common.cache)
    BY <1>2 DEF CommonInv
  <1>5. BranchSession'
    <2>1. stepS \in 0..LastStep /\ blockS = 1
      BY <1>2 DEF Session
    <2>2. Session("tensor", common.cache, FirstChunk, "idle", stepS, 1)
      BY <1>4, <2>1, SessionElsewhere
    <2>3. Session("tensor", cacheS', chunkS', phaseS', stepS', blockS')
      BY <1>1, <1>2, <2>1, <2>2
    <2>4. FirstChunk * LastStep \in Int
      BY <1>2, CacheAssumption DEF LastStep
    <2>5. drawn' = chunkS' * LastStep + IF phaseS' = "idle" THEN 0 ELSE stepS'
      BY <1>1, <1>2, <1>4, <2>4
    <2>6. pipeInit' \in BOOLEAN
      BY <1>1, <1>4
    <2>7. pipeInit' => Filled(cacheS')
      BY <1>1, <1>4
    <2> QED BY <2>3, <2>5, <2>6, <2>7 DEF BranchSession
  <1>6. BranchReads' /\ BranchBefore'
    BY <1>1, <1>2 DEF BranchReads, BranchBefore, AfterCommit
  <1>7. Progress'
    BY <1>1, <1>2, <1>3 DEF Progress, Stands, AfterCommit
  <1>8. BranchDecoder'
    <2>1. << >> \in Seq(Latents) /\ decoder'.fed = << >> /\ decoder'.inside = 0
          /\ DOMAIN decoder' = {"fed", "inside"} /\ Len(<< >>) = 0
      BY <1>1
    <2>2. Len(decoder'.fed) <= Len(prefix')
      BY <1>1, <1>2, <2>1 DEF FirstChunk
    <2> QED BY <1>1, <2>1, <2>2 DEF BranchDecoder, AfterCommit
  <1> QED BY <1>3, <1>5, <1>6, <1>7, <1>8 DEF BranchInv, BranchRuns

\* The new decoder is fed the prefix, latent by latent.
LEMMA BranchHistoryStep == BranchInv /\ Probe!FeedPrefix => BranchInv'
  <1> SUFFICES ASSUME BranchInv, Probe!FeedPrefix PROVE BranchInv'
    OBVIOUS
  <1> DEFINE fed == Len(decoder.fed)
  <1>1. /\ pcP = "history"
        /\ UNCHANGED <<Probe!session, Probe!model>>
        /\ UNCHANGED <<common, prefix, measured, results>>
    BY DEF Probe!FeedPrefix, Probe!Goes, Probe!kept
  <1>2. \/ /\ fed + 1 <= Len(prefix) /\ pcP' = "history"
           /\ decoder' = [Probe!Begun(prefix[fed + 1]) EXCEPT !.inside = 0]
        \/ /\ ~(fed + 1 <= Len(prefix)) /\ pcP' = "generate" /\ decoder' = decoder
    BY DEF Probe!FeedPrefix, Probe!Goes, Probe!presented
  <1>3. /\ (prefix \in Seq(Latents))' /\ CommonInv' /\ RecordInv' /\ BranchSession'
        /\ (Probe!InPrefix <=> Probe!InPrefix') /\ FirstChunk' = FirstChunk
        /\ prefix' = prefix
        /\ chunkS' = chunkS /\ phaseS' = phaseS /\ beforeS' = beforeS
        /\ Progress /\ BranchDecoder /\ prefix \in Seq(Latents)
    BY <1>1, BranchKept
  <1>4. /\ phaseS = "idle" /\ chunkS = FirstChunk /\ ~Probe!InPrefix
        /\ DOMAIN decoder = {"fed", "inside"}
        /\ decoder.fed \in Seq(Latents) /\ decoder.inside = 0 /\ decoder.inside \in Nat
        /\ fed <= Len(prefix) /\ fed \in Nat /\ Len(prefix) \in Nat
        /\ \A k \in 1..fed : decoder.fed[k] = prefix[k]
    <2>1. phaseS = "idle" /\ chunkS = FirstChunk /\ ~Probe!InPrefix
      BY <1>1, <1>3 DEF Progress, Stands
    <2>2. /\ DOMAIN decoder = {"fed", "inside"}
          /\ decoder.fed \in Seq(Latents) /\ decoder.inside = 0 /\ decoder.inside \in Nat
          /\ fed <= Len(prefix)
          /\ \A k \in 1..fed : decoder.fed[k] = prefix[k]
      BY <1>1, <1>3 DEF BranchDecoder
    <2>3. fed \in Nat /\ Len(prefix) \in Nat
      <3> HIDE DEF Latents
      <3> QED BY <1>3, <2>2
    <2> QED BY <2>1, <2>2, <2>3
  <1>5. BranchReads' /\ BranchBefore'
    BY <1>2, <1>3, <1>4 DEF BranchReads, BranchBefore, AfterCommit
  <1>6. Progress'
    BY <1>2, <1>3, <1>4 DEF Progress, Stands, AfterCommit
  <1>7. BranchDecoder'
    <2>1. CASE /\ fed + 1 <= Len(prefix) /\ pcP' = "history"
               /\ decoder' = [Probe!Begun(prefix[fed + 1]) EXCEPT !.inside = 0]
      <3> DEFINE x == prefix[fed + 1]
      <3>1. x \in Latents
        <4> HIDE DEF Latents
        <4> QED BY <1>3, <1>4, <2>1
      <3>2. /\ DOMAIN Probe!Begun(x) = {"fed", "inside"}
            /\ Probe!Begun(x).fed = Append(decoder.fed, x)
            /\ Probe!Begun(x).fed \in Seq(Latents)
        BY <1>4, <3>1, BegunFacts
      <3>3. /\ DOMAIN decoder' = {"fed", "inside"} /\ decoder'.inside = 0
            /\ decoder'.fed = Append(decoder.fed, x) /\ decoder'.fed \in Seq(Latents)
        BY <2>1, <3>2
      <3>4. /\ Len(decoder'.fed) = fed + 1 /\ decoder'.fed[fed + 1] = x
            /\ \A k \in 1..fed : decoder'.fed[k] = decoder.fed[k]
        <4> HIDE DEF Latents, x
        <4> QED BY <1>4, <3>1, <3>3, AppendFacts
      <3>5. /\ Len(decoder'.fed) <= Len(prefix')
            /\ \A k \in 1..Len(decoder'.fed) : decoder'.fed[k] = prefix'[k]
        <4> DEFINE more == decoder'.fed
        <4>1. /\ Len(more) = fed + 1 /\ more[fed + 1] = prefix[fed + 1]
              /\ \A k \in 1..fed : more[k] = prefix[k]
          BY <1>4, <3>4
        <4>2. fed \in Nat /\ fed + 1 <= Len(prefix) /\ prefix' = prefix
          BY <1>3, <1>4, <2>1
        <4> HIDE DEF more, fed
        <4>3. Len(more) <= Len(prefix) /\ \A k \in 1..Len(more) : more[k] = prefix[k]
          BY <4>1, <4>2
        <4> QED BY <4>2, <4>3 DEF more
      <3> QED BY <2>1, <3>3, <3>5 DEF BranchDecoder, AfterCommit
    <2>2. CASE ~(fed + 1 <= Len(prefix)) /\ pcP' = "generate" /\ decoder' = decoder
      <3>1. fed = Len(prefix)
        BY <1>4, <2>2
      <3>2. decoder.fed = prefix
        <4> HIDE DEF Latents
        <4> QED BY <1>3, <1>4, <3>1
      <3> QED BY <1>3, <1>4, <2>2, <3>2 DEF BranchDecoder, AfterCommit
    <2> QED BY <1>2, <2>1, <2>2
  <1> QED BY <1>3, <1>5, <1>6, <1>7 DEF BranchInv, BranchRuns

\* Then the latent of the branch; three of its frames stay inside.
LEMMA BranchFirstFrameStep == BranchInv /\ Probe!FirstFrame => BranchInv'
  <1> SUFFICES ASSUME BranchInv, Probe!FirstFrame PROVE BranchInv'
    OBVIOUS
  <1>1. /\ pcP = "rgb0" /\ pcP' = "commit" /\ rgb' = 1
        /\ decoder' = Probe!Begun(Probe!X0)
        /\ UNCHANGED <<Probe!session, Probe!model>>
        /\ UNCHANGED <<common, prefix, measured, results>>
    BY DEF Probe!FirstFrame, Probe!Goes, Probe!kept
  <1>2. /\ (prefix \in Seq(Latents))' /\ CommonInv' /\ RecordInv' /\ BranchSession'
        /\ (Probe!InPrefix <=> Probe!InPrefix') /\ FirstChunk' = FirstChunk
        /\ prefix' = prefix
        /\ chunkS' = chunkS /\ phaseS' = phaseS /\ stepS' = stepS /\ blockS' = blockS
        /\ beforeS' = beforeS /\ reads' = reads
        /\ BranchSession /\ BranchReads /\ Progress /\ BranchBefore /\ BranchDecoder
        /\ CommonInv /\ prefix \in Seq(Latents) /\ FirstChunk \in Nat
    BY <1>1, BranchKept
  <1>3. /\ Stands({"generated"}, FirstChunk) /\ ~Probe!InPrefix
        /\ phaseS = "generated" /\ chunkS = FirstChunk
    BY <1>1, <1>2 DEF Progress, Stands
  <1>4. Probe!X0 = LatentOf(FirstChunk) /\ LatentOf(FirstChunk) \in Latents
    <2>1. Probe!X0 = LatentOf(FirstChunk)
      BY <1>2, <1>3, BranchX0
    <2> QED BY <1>2, <2>1 DEF Latents
  <1>5. BranchReads' /\ BranchBefore'
    BY <1>1, <1>2, <1>3 DEF BranchReads, BranchBefore, AfterCommit
  <1>6. Progress'
    BY <1>1, <1>2, <1>3 DEF Progress, Stands, AfterCommit
  <1>7. BranchDecoder'
    <2>1. /\ DOMAIN decoder = {"fed", "inside"}
          /\ decoder.fed \in Seq(Latents) /\ decoder.inside \in Nat
          /\ decoder.fed = prefix /\ decoder.inside = 0
      BY <1>1, <1>2, <1>3 DEF BranchDecoder
    <2>2. prefix # <<>>
      BY <1>2, <1>3 DEF CommonInv, FirstChunk
    <2>3. /\ DOMAIN decoder' = {"fed", "inside"}
          /\ decoder'.fed = Append(prefix, LatentOf(FirstChunk))
          /\ decoder'.fed \in Seq(Latents)
          /\ decoder'.inside = 3
      BY <1>1, <1>4, <2>1, <2>2, BegunFacts
    <2>4. LatentOf(FirstChunk)' = LatentOf(FirstChunk)
      BY <1>2 DEF LatentOf, ChunkReads, ForwardRead
    <2>5. rgb' \in Nat /\ rgb' + decoder'.inside = 4 /\ decoder'.inside \in Nat
      BY <1>1, <2>3
    <2> QED BY <1>1, <1>2, <1>3, <2>3, <2>4, <2>5 DEF BranchDecoder, AfterCommit
  <1> QED BY <1>2, <1>5, <1>6, <1>7 DEF BranchInv, BranchRuns

\* A branch that rests behind its chunk: only its decoder may change.
LEMMA BranchRests ==
    ASSUME BranchInv, pcP \in AfterCommit, pcP' \in AfterCommit,
           UNCHANGED <<Probe!session, Probe!model>>,
           UNCHANGED <<common, prefix, measured, results>>,
           DOMAIN decoder' = {"fed", "inside"}, decoder'.fed = decoder.fed,
           decoder'.inside \in Nat, rgb' \in Nat,
           rgb' + decoder'.inside = rgb + decoder.inside
    PROVE  BranchInv'
  <1>1. pcP # "done"
    BY DEF AfterCommit
  <1>2. /\ (prefix \in Seq(Latents))' /\ CommonInv' /\ RecordInv' /\ BranchSession'
        /\ (Probe!InPrefix <=> Probe!InPrefix') /\ FirstChunk' = FirstChunk
        /\ prefix' = prefix
        /\ chunkS' = chunkS /\ phaseS' = phaseS /\ beforeS' = beforeS /\ reads' = reads
        /\ BranchReads /\ Progress /\ BranchBefore /\ BranchDecoder
    BY <1>1, BranchKept
  <1>3. phaseS = "idle" /\ chunkS = FirstChunk + 1 /\ ~Probe!InPrefix
    BY <1>2 DEF Progress, Stands
  <1>4. BranchReads' /\ BranchBefore'
    BY <1>2, <1>3 DEF BranchReads, BranchBefore
  <1>5. Progress'
    BY <1>2, <1>3 DEF Progress, Stands, AfterCommit
  <1>6. BranchDecoder'
    <2>1. /\ decoder.fed \in Seq(Latents)
          /\ decoder.fed = Append(prefix, LatentOf(FirstChunk))
          /\ rgb + decoder.inside = 4
      BY <1>3, <1>2 DEF BranchDecoder
    <2>2. LatentOf(FirstChunk)' = LatentOf(FirstChunk)
      BY <1>2 DEF LatentOf, ChunkReads, ForwardRead
    <2> QED BY <1>2, <2>1, <2>2 DEF BranchDecoder, AfterCommit
  <1> QED BY <1>2, <1>4, <1>5, <1>6 DEF BranchInv, BranchRuns

\* Behind the commit only the decoder and the input probe move.
LEMMA BranchRestStep ==
    BranchInv /\ (Probe!CleanEnd \/ Probe!JoinWorker \/ Probe!RemainingFrame) => BranchInv'
  <1> SUFFICES ASSUME BranchInv,
                      Probe!CleanEnd \/ Probe!JoinWorker \/ Probe!RemainingFrame
               PROVE  BranchInv'
    OBVIOUS
  <1>1. /\ pcP \in AfterCommit /\ pcP' \in AfterCommit /\ pcP # "done"
        /\ UNCHANGED <<Probe!session, Probe!model>>
        /\ UNCHANGED <<common, prefix, measured, results>>
        /\ \/ decoder' = decoder /\ rgb' = rgb
           \/ /\ decoder.inside > 0 /\ decoder' = [decoder EXCEPT !.inside = @ - 1]
              /\ rgb' = rgb + 1
    BY DEF Probe!CleanEnd, Probe!JoinWorker, Probe!RemainingFrame, Probe!Goes,
           Probe!presented, Probe!kept, AfterCommit
  <1>2. /\ DOMAIN decoder = {"fed", "inside"} /\ decoder.inside \in Nat
        /\ rgb \in Nat
    <2>1. BranchDecoder /\ Progress
      BY <1>1 DEF BranchInv, BranchRuns
    <2>2. ~Probe!InPrefix
      BY <1>1, <2>1 DEF Progress
    <2> QED BY <1>1, <2>1, <2>2 DEF BranchDecoder
  <1>3. /\ DOMAIN decoder' = {"fed", "inside"} /\ decoder'.fed = decoder.fed
        /\ decoder'.inside \in Nat /\ rgb' \in Nat
        /\ rgb' + decoder'.inside = rgb + decoder.inside
    BY <1>1, <1>2
  <1> QED BY <1>1, <1>3, BranchRests

\* What is recorded is the same record for every action.
LEMMA BranchFinishStep == BranchInv /\ Probe!FinishBranch => BranchInv'
  <1> SUFFICES ASSUME BranchInv, Probe!FinishBranch PROVE BranchInv'
    OBVIOUS
  <1> DEFINE new == [action |-> Probe!Branches[Probe!Current],
                     x0 |-> [Probe!X0 EXCEPT !.chunk = chunkS - 1],
                     history |-> decoder.fed, frames |-> rgb, before |-> beforeS]
  <1>1. /\ pcP = "rest" /\ pcP' = "branch" /\ decoder.inside = 0
        /\ measured' = Append(measured, new)
        /\ decoder' = [fed |-> <<>>, inside |-> 0]
        /\ UNCHANGED <<Probe!session, Probe!model>>
        /\ common' = common /\ prefix' = prefix /\ results' = results
    BY DEF Probe!FinishBranch, Probe!Goes
  <1>2. /\ BranchSession /\ BranchReads /\ Progress /\ BranchBefore /\ BranchDecoder
        /\ CommonInv /\ RecordInv /\ prefix \in Seq(Latents) /\ FirstChunk \in Nat
    <2>1. BranchRuns /\ CommonInv /\ RecordInv /\ prefix \in Seq(Latents)
      BY <1>1 DEF BranchInv
    <2> QED BY <2>1 DEF BranchRuns, FirstChunk
  <1>3. phaseS = "idle" /\ chunkS = FirstChunk + 1 /\ ~Probe!InPrefix
    BY <1>1, <1>2 DEF Progress, Stands, AfterCommit
  <1>4. BranchSession' /\ phaseS' = phaseS
    BY <1>1, <1>2, SessionStays
  <1>5. (Probe!InPrefix <=> Probe!InPrefix') /\ FirstChunk' = FirstChunk
        /\ Probe!None' = Probe!None
    BY <1>1 DEF Probe!InPrefix, FirstChunk, Probe!None
  <1>6. new = Record(Probe!Branches[Probe!Current])
    <2>1. /\ decoder.fed = Append(prefix, LatentOf(FirstChunk)) /\ rgb = 4
      BY <1>1, <1>2, <1>3 DEF BranchDecoder, AfterCommit
    <2>2. beforeS = CursorsOf(FirstChunk)
      BY <1>1, <1>2, <1>3 DEF BranchBefore, AfterCommit
    <2>3. reads = ChunkReads(FirstChunk, "generated", LastStep, 1)
      BY <1>1, <1>2 DEF BranchReads, AfterCommit
    <2>4. drawn = (FirstChunk + 1) * LastStep
      <3>1. drawn = chunkS * LastStep + 0
        BY <1>2, <1>3 DEF BranchSession
      <3>2. (FirstChunk + 1) * LastStep \in Int
        BY <1>2, CacheAssumption DEF LastStep
      <3> QED BY <1>3, <3>1, <3>2
    <2>5. [Probe!X0 EXCEPT !.chunk = chunkS - 1] = LatentOf(FirstChunk)
      <3>1. chunkS - 1 = FirstChunk
        BY <1>2, <1>3
      <3> QED BY <2>3, <2>4, <3>1 DEF Probe!X0, LatentOf
    <2> QED BY <2>1, <2>2, <2>5 DEF Record
  <1>7. RecordInv'
    <2>1. Records' = Records
      BY <1>1 DEF Records, Record, FirstChunk
    <2>2. Probe!Current \in Nat
      <3> HIDE DEF Records
      <3> QED BY <1>2 DEF RecordInv, Probe!Current
    <2>3. new \in Records
      BY <1>6, <2>2 DEF Records
    <2>4. measured' \in Seq(Records')
      <3> HIDE DEF Records, new
      <3> QED BY <1>1, <1>2, <2>1, <2>3, AppendFacts DEF RecordInv
    <2>5. results' # Probe!None' => results' = CursorsOf(FirstChunk)' /\ ~Probe!InPrefix'
      BY <1>1, <1>2, <1>5 DEF RecordInv, CursorsOf
    <2> QED BY <1>3, <1>5, <2>4, <2>5 DEF RecordInv
  <1>8. CommonInv' /\ (prefix \in Seq(Latents))'
    BY <1>1, <1>2, <1>5 DEF CommonInv
  <1>9. BranchReads' /\ BranchBefore'
    BY <1>1, <1>3, <1>4 DEF BranchReads, BranchBefore, AfterCommit
  <1>10. Progress'
    BY <1>1, <1>3, <1>4, <1>5 DEF Progress, AfterCommit
  <1>11. BranchDecoder'
    <2>1. << >> \in Seq(Latents) /\ decoder'.fed = << >> /\ decoder'.inside = 0
          /\ DOMAIN decoder' = {"fed", "inside"}
      BY <1>1
    <2> QED BY <1>1, <2>1 DEF BranchDecoder, AfterCommit
  <1> QED BY <1>4, <1>7, <1>8, <1>9, <1>10, <1>11 DEF BranchInv, BranchRuns

\* The clone that all branches started from is still the one that was taken.
LEMMA BranchWriteStep == BranchInv /\ Probe!WriteResults => BranchInv'
  <1> SUFFICES ASSUME BranchInv, Probe!WriteResults PROVE BranchInv'
    OBVIOUS
  <1>1. /\ pcP = "branch" /\ pcP' = "done"
        /\ results' = [global |-> common.cache[1].global,
                       local |-> common.cache[1].local]
        /\ common' = common /\ prefix' = prefix /\ measured' = measured
    BY DEF Probe!WriteResults, Probe!Goes
  <1>2. /\ CommonInv /\ RecordInv /\ prefix \in Seq(Latents) /\ ~Probe!InPrefix
    <2>1. BranchRuns /\ CommonInv /\ RecordInv /\ prefix \in Seq(Latents)
      BY <1>1 DEF BranchInv
    <2> QED BY <1>1, <2>1 DEF BranchRuns, Progress
  <1>3. (Probe!InPrefix <=> Probe!InPrefix') /\ FirstChunk' = FirstChunk
        /\ Probe!None' = Probe!None /\ Records' = Records
    BY <1>1 DEF Probe!InPrefix, FirstChunk, Probe!None, Records, Record
  <1>4. results' = CursorsOf(FirstChunk)
    <2>1. Session("tensor", common.cache, FirstChunk, "idle", 0, 1)
      BY <1>2 DEF CommonInv
    <2>2. 1 \in BlockIds
      BY CacheAssumption DEF BlockIds
    <2>3. /\ common.cache[1].global = FirstChunk
          /\ common.cache[1].local = Lesser(FirstChunk, Size)
      BY <2>1, <2>2, SessionRests
    <2> QED BY <1>1, <2>3 DEF CursorsOf
  <1>5. RecordInv'
    BY <1>1, <1>2, <1>3, <1>4 DEF RecordInv, CursorsOf
  <1>6. CommonInv' /\ (prefix \in Seq(Latents))'
    BY <1>1, <1>2, <1>3 DEF CommonInv
  <1> QED BY <1>1, <1>5, <1>6 DEF BranchInv

\* A failure leaves what is recorded as it is.
LEMMA BranchRaiseStep == BranchInv /\ Probe!Raise => BranchInv'
  <1> SUFFICES ASSUME BranchInv, Probe!Raise PROVE BranchInv'
    OBVIOUS
  <1>1. pcP' = "done" /\ UNCHANGED <<common, prefix, measured, results>>
    BY DEF Probe!Raise, Probe!kept
  <1>2. (prefix \in Seq(Latents))' /\ CommonInv' /\ RecordInv'
    BY <1>1, KeptStays
  <1> QED BY <1>1, <1>2 DEF BranchInv

\* Every step of the branch probe keeps the invariant.
LEMMA BranchStep == BranchInv /\ Probe!Next => BranchInv'
  <1> SUFFICES ASSUME BranchInv, Probe!Next PROVE BranchInv'
    OBVIOUS
  <1>1. CASE Probe!GenerateChunk
    BY <1>1, BranchGenerateStep
  <1>2. CASE Probe!CommitCleanKV
    BY <1>2, BranchCommitStep
  <1>3. CASE Probe!Collect
    BY <1>3, BranchCollectStep
  <1>4. CASE Probe!CloneCommon
    BY <1>4, BranchCloneStep
  <1>5. CASE Probe!BeginBranch
    BY <1>5, BranchBeginStep
  <1>6. CASE Probe!FeedPrefix
    BY <1>6, BranchHistoryStep
  <1>7. CASE Probe!FirstFrame
    BY <1>7, BranchFirstFrameStep
  <1>8. CASE Probe!Arrive
    <2>1. /\ UNCHANGED <<Probe!session, Probe!model>>
          /\ UNCHANGED <<common, prefix, measured, results>>
          /\ UNCHANGED <<pcP, decoder, rgb>>
      BY <1>8 DEF Probe!Arrive, Probe!kept, Probe!presented
    <2> QED BY <2>1, BranchUntouched
  <1>9. CASE Probe!CleanEnd \/ Probe!JoinWorker \/ Probe!RemainingFrame
    BY <1>9, BranchRestStep
  <1>10. CASE Probe!FinishBranch
    BY <1>10, BranchFinishStep
  <1>11. CASE Probe!WriteResults
    BY <1>11, BranchWriteStep
  <1>12. CASE Probe!Raise
    BY <1>12, BranchRaiseStep
  <1>13. CASE Probe!Finished
    <2>1. /\ UNCHANGED <<Probe!session, Probe!model>>
          /\ UNCHANGED <<common, prefix, measured, results>>
          /\ UNCHANGED <<pcP, decoder, rgb>>
      BY <1>13 DEF Probe!Finished, Probe!vars, Probe!kept, Probe!presented
    <2> QED BY <2>1, BranchUntouched
  <1> QED BY <1>1, <1>2, <1>3, <1>4, <1>5, <1>6, <1>7, <1>8, <1>9, <1>10, <1>11, <1>12,
             <1>13
          DEF Probe!Next

\* The session of the probe is where its chunk, phase, step and block say.
LEMMA BranchHolds == Spec => []BranchInv
  <1>1. BranchInv /\ [Next]_vars => BranchInv'
    BY OneProgram, BranchQuiet, BranchStep
  <1> QED BY BranchInit, <1>1, PTL DEF Spec

\* Over any length of the prefix, for any window, sinks, timesteps and blocks,
\* the branches of action_response_probe.py differ in their action only: same
\* reads, noise, cursors, decoder history and frames, and the state they were
\* cloned from is reported as it was.
THEOREM BranchesAlwaysMatch == Spec => []BranchesMatch
  <1>1. BranchInv => BranchesMatch
    <2> SUFFICES ASSUME BranchInv, NEW i \in 1..Len(measured)
                 PROVE  /\ measured[i].x0 = measured[1].x0
                        /\ measured[i].x0.drawn = (Len(prefix) + 1) * (Timesteps - 1)
                        /\ measured[i].history = Append(prefix, measured[i].x0)
                        /\ measured[i].frames = 4
                        /\ measured[i].before = measured[1].before
                        /\ results # Probe!None => results = measured[i].before
      BY DEF BranchesMatch, Probe!BranchesMatch
    <2>1. measured[i] \in Records /\ measured[1] \in Records
      <3>1. measured \in Seq(Records)
        BY DEF BranchInv, RecordInv
      <3> HIDE DEF Records
      <3> QED BY <3>1
    <2>2. \A m \in Records : /\ m.x0 = LatentOf(FirstChunk)
                             /\ m.history = Append(prefix, LatentOf(FirstChunk))
                             /\ m.frames = 4
                             /\ m.before = CursorsOf(FirstChunk)
      BY DEF Records, Record
    <2>3. LatentOf(FirstChunk).drawn = (Len(prefix) + 1) * (Timesteps - 1)
      BY DEF LatentOf, FirstChunk, LastStep
    <2>4. results # Probe!None => results = CursorsOf(FirstChunk)
      BY DEF BranchInv, RecordInv
    <2> QED BY <2>1, <2>2, <2>3, <2>4
  <1> QED BY BranchHolds, <1>1, PTL
=============================================================================
