--------------------------- MODULE CompiledHelpers ---------------------------
(***************************************************************************)
(* The launchers that replace parts of the model before a session and take *)
(* them back after it: scripts/run_pure_compile_live.py ("pure"),          *)
(* scripts/run_compile_live.py ("region") and the model owner of           *)
(* scripts/run_browser.py ("browser"), with scripts/pure_compile_helpers.py*)
(*                                                                         *)
(* They patch the constructor of WanI2VCausal, so that the model comes out *)
(* of it with its leading blocks replaced.  A compiled helper is turned    *)
(* into a graph at its first call with tensors of a given type, which      *)
(* takes seconds; the prewarm makes those first calls before READY.        *)
(*                                                                         *)
(* Abstracted: the tensors except their number of tokens and the type of   *)
(* the running activation, the numbers and files of the experiment report. *)
(* Left out: a Ctrl-C between two statements of install_on_blocks or of a  *)
(* finally; everywhere else one is an exception like the others.           *)
(***************************************************************************)
EXTENDS Integers, FiniteSets

CONSTANTS BlockCount,    \* len(model.blocks)
          MaxRequested   \* bound of --pure-compile-block-count

Blocks == 1..BlockCount

Lanes == {"pure", "region", "browser"}

\* Tokens of a latent frame: what the prewarm is written for (384x672), or what
\* another --max-area-pixels or another aspect ratio of the image makes of it.
Sizes == {"1008", "other"}

\* PureTensorIslands.compile: seven helpers, the scaled residual compiled once
\* per type of the activation.  Each has a graph per number of tokens.
Helpers == {"modulation", "affine", "residual bf16", "residual float32", "add",
            "silu", "gelu_tanh", "camera_update"}

NoForward == [kind |-> "none", block |-> 0, x |-> "bf16"]

VARIABLES
    lane, prewarm, requested, tokens,  \* the launcher and its arguments
    pc,            \* position in the launcher, the constructor, the session
    ctor,          \* WanI2VCausal.__init__
    blocks,        \* block -> its forward
    installation,  \* blocks whose original forward the launcher has kept
    graphs,        \* graphs of the installed helpers that exist
    cold,          \* history: graphs that a forward had to wait for
    forward        \* the forward of the session that is running

arguments == <<lane, prewarm, requested, tokens>>
vars == <<arguments, pc, ctor, blocks, installation, graphs, cold,
          forward>>

-----------------------------------------------------------------------------
Init ==
    /\ lane \in Lanes
    /\ prewarm \in BOOLEAN
    /\ lane = "region" => ~prewarm
    /\ requested \in 1..MaxRequested
    /\ tokens \in Sizes
    /\ pc = "start"
    /\ ctor = "original"
    /\ blocks = [b \in Blocks |-> "eager"]
    /\ installation = {}
    /\ graphs = {}
    /\ cold = {}
    /\ forward = NoForward

Step(from, to) == pc = from /\ pc' = to /\ UNCHANGED arguments

\* The leading blocks: min(block_count, len(blocks)).
Leading == {b \in Blocks : b <= requested}

\* The TunableOp results.  A file that is missing or refused ends the
\* launchers, which have patched nothing yet; the owner goes through its finally.
LoadTunings ==
    /\ \/ Step("start", "patch")
       \/ Step("start", IF lane = "browser" THEN "leaving" ELSE "returned")
    /\ UNCHANGED <<ctor, blocks, installation, graphs, cold, forward>>

PatchConstructor ==
    /\ Step("patch", IF lane = "browser" THEN "construct" ELSE "import")
    /\ ctor' = "patched"
    /\ UNCHANGED <<blocks, installation, graphs, cold, forward>>

\* Both launchers import run_live after patching and before their try: an
\* import that raises leaves the class patched.
ImportLive ==
    /\ \/ Step("import", "live")
       \/ Step("import", "import failed")
    /\ UNCHANGED <<ctor, blocks, installation, graphs, cold, forward>>

\* From here on every exception, SystemExit and Ctrl-C goes through the finally
\* of the launcher.
Aborts ==
    /\ pc \in {"live", "construct", "install", "prewarm", "prepare", "session"}
    /\ pc' = "leaving"
    /\ forward' = NoForward
    /\ UNCHANGED <<arguments, ctor, blocks, installation, graphs, cold>>

\* live_main reads its arguments and opens the window.
StartLive ==
    /\ Step("live", "construct")
    /\ UNCHANGED <<ctor, blocks, installation, graphs, cold, forward>>

\* patched_init calls the original constructor.
Construct ==
    /\ Step("construct", "install")
    /\ UNCHANGED <<ctor, blocks, installation, graphs, cold, forward>>

\* Mutant of Install: what was replaced is forgotten.
InstallUnrecorded ==
    /\ lane # "region"
    /\ Step("install", IF prewarm THEN "prewarm" ELSE "prepare")
    /\ blocks' = [b \in Blocks |-> IF b \in Leading THEN "pure" ELSE blocks[b]]
    /\ UNCHANGED <<ctor, installation, graphs, cold, forward>>

\* install_on_blocks: all helpers are made before the first block is touched,
\* and the originals are kept before anything else can fail.
Install ==
    /\ lane # "region"
    /\ Step("install", IF prewarm THEN "prewarm" ELSE "prepare")
    /\ blocks' = [b \in Blocks |-> IF b \in Leading THEN "pure" ELSE blocks[b]]
    /\ installation' = Leading
    /\ UNCHANGED <<ctor, graphs, cold, forward>>

\* patched_init of run_compile_live.py: a new list of blocks, the leading ones
\* wrapped by torch.compile.
Wrap ==
    /\ lane = "region"
    /\ Step("install", "prepare")
    /\ blocks' = [b \in Blocks |->
                    IF b \in Leading THEN "wrapped" ELSE blocks[b]]
    /\ UNCHANGED <<ctor, installation, graphs, cold, forward>>

\* prewarm_pure_tensor_islands: the scaled residual is called with both types,
\* everything with 1008 tokens whatever the session will use.
Residual(x) == IF x = "bf16" THEN "residual bf16" ELSE "residual float32"

\* Mutant of Prewarm: the second residual call is left out.
PrewarmOneResidual ==
    /\ Step("prewarm", "prepare")
    /\ graphs' = graphs \cup (Helpers \ {Residual("float32")}) \X {"1008"}
    /\ UNCHANGED <<ctor, blocks, installation, cold, forward>>

Prewarm ==
    /\ Step("prewarm", "prepare")
    /\ graphs' = graphs \cup
           {"modulation", "affine", Residual("bf16"), Residual("float32"),
            "add", "silu", "gelu_tanh", "camera_update"} \X {"1008"}
    /\ UNCHANGED <<ctor, blocks, installation, cold, forward>>

\* prepare_session and the decoder; then the runtime is ready.
PrepareSession ==
    /\ Step("prepare", "session")
    /\ UNCHANGED <<ctor, blocks, installation, graphs, cold, forward>>

-----------------------------------------------------------------------------
(* Forwards of the session *)

\* The patch embedding hands a bf16 activation to the first block.
BeginForward(kind) ==
    /\ pc = "session"
    /\ forward = NoForward
    /\ forward' = [kind |-> kind, block |-> 1, x |-> "bf16"]
    /\ UNCHANGED <<arguments, pc, ctor, blocks, installation, graphs,
                   cold>>

\* kv_write_only reaches only the last block of a clean pass.
WriteOnly == forward.kind = "clean" /\ forward.block = BlockCount

\* The helpers that the forward made by make_pure_block_forward calls: the
\* first residual has the type of the activation, what follows is float32.
Called ==
    {"modulation", "affine"}
    \cup IF WriteOnly THEN {}
         ELSE {Residual(forward.x), "silu", "camera_update", "add",
               "gelu_tanh", Residual("float32")}

\* One block.  Eager or compiled, a block that runs to its end returns float32.
RunBlock ==
    /\ pc = "session"
    /\ forward # NoForward
    /\ forward' = IF forward.block = BlockCount THEN NoForward
                  ELSE [forward EXCEPT !.block = @ + 1, !.x = "float32"]
    /\ IF blocks[forward.block] = "pure"
       THEN LET called == Called \X {tokens}
            IN graphs' = graphs \cup called /\ cold' = cold \cup (called \ graphs)
       ELSE UNCHANGED <<graphs, cold>>
    /\ UNCHANGED <<arguments, pc, ctor, blocks, installation>>

\* The session ends by itself; live_main returns, or the owner leaves its loop.
EndSession ==
    /\ forward = NoForward
    /\ Step("session", "leaving")
    /\ UNCHANGED <<ctor, blocks, installation, graphs, cold, forward>>

\* The finally: restore_blocks in the "pure" lane, and the constructor.  The
\* blocks of the other lanes go with their model.
TakeBack ==
    /\ Step("leaving", "returned")
    /\ ctor' = "original"
    /\ blocks' = IF lane = "pure"
                 THEN [b \in Blocks |->
                        IF b \in installation THEN "eager" ELSE blocks[b]]
                 ELSE blocks
    /\ UNCHANGED <<installation, graphs, cold, forward>>

\* The owner clears its decoder and stops the JPEG thread first; when one of
\* them raises, the constructor is not restored.
CleanupFails ==
    /\ lane = "browser"
    /\ Step("leaving", "not restored")
    /\ UNCHANGED <<ctor, blocks, installation, graphs, cold, forward>>

\* The ends: behind the finally, before the try, and out of the finally.
Ended == pc \in {"returned", "import failed", "not restored"}

Returned == Ended /\ UNCHANGED vars

Next ==
    \/ LoadTunings
    \/ PatchConstructor
    \/ ImportLive
    \/ Aborts
    \/ StartLive
    \/ Construct
    \/ Install
    \/ Wrap
    \/ Prewarm
    \/ PrepareSession
    \/ \E kind \in {"denoise", "clean"} : BeginForward(kind)
    \/ RunBlock
    \/ EndSession
    \/ TakeBack
    \/ CleanupFails
    \/ Returned

Spec == Init /\ [][Next]_vars

-----------------------------------------------------------------------------
(* Properties *)

\* With the prewarm, and at the size it is written for, no forward after READY
\* waits for a graph: whatever number of blocks is replaced, the synthetic
\* calls meet every type of activation that a denoising or a clean forward
\* brings to a replaced block.
NoColdGraph == prewarm /\ tokens = "1008" => cold = {}

\* At every end of run_pure_compile_live.py, the import that fails before its
\* try included, every block has its own forward.  At every end of it and of
\* run_compile_live.py a class that is still patched has made no model: no block
\* has been replaced.  (The blocks that run_compile_live.py has wrapped stay so,
\* and nothing is said of the model owner of run_browser.py.)
OriginalsRestored ==
    Ended /\ (lane = "pure" \/ (lane = "region" /\ ctor = "patched")) =>
        \A b \in Blocks : blocks[b] = "eager"
=============================================================================
