--------------------------- MODULE BoundaryRuntime ---------------------------
(***************************************************************************)
(* The 14B experiment: scripts/run_q4_baseline.py with the patches         *)
(* 14b-phase-memory-hooks.patch (WanI2V.generate) and                      *)
(* 14b-phase-memory-sampler.patch (LBWorldSampler.sample) of               *)
(* experiments/lingbot-world-v2-14b.  With the cleanup the first run gives *)
(* the transformer away before the VAE decodes, and a second has none; the *)
(* phases go to disk one by one, metrics.json is written at the end.       *)
(*                                                                         *)
(* Abstracted: what else is released, tensors, bytes, times, video.  The   *)
(* node pack itself is external; it is modelled from the patches' context. *)
(***************************************************************************)
EXTENDS Integers, FiniteSets, Sequences

CONSTANT MaxRepeat  \* bound of --repeat

\* --phase-memory, --cleanup-before-vae and --repeat; `patched`: the node pack
\* is the one setup_boundary_runtime.sh has patched.
Options == [phases : BOOLEAN, cleanup : BOOLEAN, patched : BOOLEAN,
            repeat : 0..MaxRepeat]

VARIABLES
    opts,
    pc,       \* position in main, sample and generate
    holders,  \* who refers to the transformer
    events,   \* phase_events
    file,     \* phase-events.json
    runs,     \* report["runs"]
    report    \* metrics.json has been written

vars == <<opts, pc, holders, events, file, runs, report>>

Torn == <<"torn">>

\* The pipe, the loader's dict lb_pipe, and the local variable of sample.
Owners == {"pipe", "lbworld", "sampler"}

Init ==
    /\ opts \in Options
    /\ pc = "encode"
    /\ holders = {}
    /\ events = <<>>
    /\ file = <<>>
    /\ runs = <<>>
    /\ report = FALSE

\* Writing phase-events.json: it is truncated, then it has all events.
Writing == file = Torn

Goes(from, to) == pc = from /\ ~Writing /\ pc' = to /\ UNCHANGED opts

\* Mutant of Record: the event stays in memory, for metrics.json.
RecordInMemory(phase) ==
    /\ events' = Append(events, phase)
    /\ UNCHANGED file

Record(phase) ==
    /\ events' = Append(events, phase)
    /\ file' = Torn

\* An event that is only taken with --phase-memory.
RecordIf(condition, phase) ==
    IF condition THEN Record(phase) ELSE UNCHANGED <<events, file>>

WriteEvents ==
    /\ pc # "done"
    /\ Writing
    /\ file' = events
    /\ UNCHANGED <<opts, pc, holders, events, runs, report>>

-----------------------------------------------------------------------------
(* main, up to the runs *)

\* CLIPTextEncode of the two prompts.
EncodePrompts ==
    /\ Goes("encode", "load")
    /\ RecordIf(opts.phases, "after_t5")
    /\ UNCHANGED <<holders, runs, report>>

\* LBWorldLoader.load; then the check of the options, the hooks of
\* --phase-memory and the marker that asks for the cleanup.
LoadModel ==
    /\ ~(opts.cleanup /\ ~opts.phases)
    /\ Goes("load", "runs")
    /\ holders' = Owners \ {"sampler"}
    /\ UNCHANGED <<events, file, runs, report>>

-----------------------------------------------------------------------------
(* sampler.sample and WanI2V.generate *)

\* model.to(device): there has to be a model.
BeginSample ==
    /\ Len(runs) < opts.repeat
    /\ "lbworld" \in holders
    /\ Goes("runs", "denoise")
    /\ holders' = holders \cup {"sampler"}
    /\ UNCHANGED <<events, file, runs, report>>

\* The marker --cleanup-before-vae leaves on the pipe is wrapped by the patched
\* sampler and called by the patched generate; the other one does not know it.
CleanupLane == opts.patched /\ opts.cleanup

\* All chunks; then model.cpu, and the hook of the boundary.
Denoise ==
    /\ Goes("denoise", IF CleanupLane THEN "cleanup" ELSE "vae")
    /\ RecordIf(opts.patched /\ opts.phases, "before_vae")
    /\ UNCHANGED <<holders, runs, report>>

\* _release_before_vae: what refers to the transformer lets it go.  (What is
\* released along with it, and the prompts main keeps, are left out.)
ReleaseBeforeVae ==
    /\ Goes("cleanup", "vae")
    /\ holders' = {}
    /\ RecordIf(opts.phases, "after_cleanup")
    /\ UNCHANGED <<runs, report>>

\* timed_vae_decode, around the decode.
BeginDecode ==
    /\ Goes("vae", "decode")
    /\ RecordIf(opts.phases, "vae_start")
    /\ UNCHANGED <<holders, runs, report>>

EndDecode ==
    /\ Goes("decode", "video")
    /\ RecordIf(opts.phases, "vae_complete")
    /\ UNCHANGED <<holders, runs, report>>

\* sample returns, its finally with it; save_video and the row of the run.
FinishRun ==
    /\ Goes("video", "runs")
    /\ holders' = holders \ {"sampler"}
    /\ runs' = Append(runs, Len(runs) + 1)
    /\ UNCHANGED <<events, file, report>>

\* Mutant of WriteReport: the report is written as soon as there is a run.
WriteReportEarly ==
    /\ runs # <<>> \/ opts.repeat = 0
    /\ Goes("runs", "done")
    /\ report' = TRUE
    /\ UNCHANGED <<holders, events, file, runs>>

\* status "success" and metrics.json.
WriteReport ==
    /\ Len(runs) = opts.repeat
    /\ Goes("runs", "done")
    /\ report' = TRUE
    /\ UNCHANGED <<holders, events, file, runs>>

\* The process is killed, or an exception ends it: main catches none.  The
\* refused options and a second run without a model end here, too.
Ends ==
    /\ pc # "done"
    /\ pc' = "done"
    /\ UNCHANGED <<opts, holders, events, file, runs, report>>

Ended == pc = "done" /\ UNCHANGED vars

Next ==
    \/ EncodePrompts
    \/ LoadModel
    \/ BeginSample
    \/ Denoise
    \/ ReleaseBeforeVae
    \/ BeginDecode
    \/ EndDecode
    \/ FinishRun
    \/ WriteReport
    \/ WriteEvents
    \/ Ends
    \/ Ended

Spec == Init /\ [][Next]_vars

-----------------------------------------------------------------------------
(* Properties *)

\* metrics.json is only there when all the runs asked for are in it, and it
\* tells the same phases as phase-events.json, which FINDINGS.md F4 reads when
\* a run was terminated inside the VAE and there is no metrics.json.  In the
\* cleanup lane there can be one run at most: the first one gives the
\* transformer away, and the second finds none (--repeat is 2 by default,
\* run_phase_memory.sh asks for 1).
ReportIsWhole ==
    report => /\ Len(runs) = opts.repeat
              /\ CleanupLane => opts.repeat <= 1
              /\ file = events
              /\ opts.phases =>
                  Cardinality({i \in DOMAIN events : events[i] = "vae_complete"})
                      = opts.repeat
=============================================================================
