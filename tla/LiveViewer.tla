----------------------------- MODULE LiveViewer -----------------------------
(***************************************************************************)
(* The Tk live viewer (scripts/run_live.py): PendingInputState, LiveViewer *)
(* and the session loop of main.  One thread does everything: Tk delivers  *)
(* the keys that have been pressed since its last update only when the     *)
(* session calls update, which happens while a frame is shown or a key is  *)
(* awaited.  Ctrl-C and exceptions come at any point.                      *)
(*                                                                         *)
(* Presses of valid keys are numbered in the order Tk delivers them, so    *)
(* the newest has the largest number; an invalid key changes nothing.      *)
(* A scripted session executes its script instead, the items of which are  *)
(* numbered behind the presses; Tk still delivers the keys, and quit ends  *)
(* it.  Abstracted: what a key means, clocks, images, metrics other than   *)
(* which actions are reported.                                             *)
(***************************************************************************)
EXTENDS Integers, Sequences, FiniteSets

CONSTANTS MaxPress,   \* bound: presses of valid keys
          Available,  \* min(max_actions, len(noise_chunks) - 1)
          Upscale,    \* --upscale-x2
          NoKey,      \* None
          NoScript    \* --scripted-actions is not given

ASSUME ConstantsAssumption ==
    /\ MaxPress \in Nat
    /\ Available \in Nat
    /\ Upscale \in BOOLEAN
    /\ NoKey \notin 0..(MaxPress + Available)
    /\ NoScript \notin Nat

Bootstrap == 0
Presses == 1..MaxPress
Scripted == (MaxPress + 1)..(MaxPress + Available)
Labels == Presses \cup Scripted \cup {Bootstrap}
Chunks == 0..Available

VARIABLES
    script,     \* the movement keys of the script, up to its end or its q
    busy, current, pending, waiting, quit,  \* PendingInputState
    pc, label, chunk,                       \* main: position, run_one's args
    cache,                                  \* chunk -> its keys and values
    reported, status,                       \* report["actions"], ["status"]
    interrupted,                            \* Ctrl-C has been pressed
    pressed                                 \* history: presses accepted

input == <<busy, current, pending, waiting, quit>>
run == <<label, chunk, cache, reported>>
vars == <<script, busy, current, pending, waiting, quit, pc, label, chunk, cache,
          reported, status, interrupted, pressed>>

Init ==
    /\ script \in {NoScript} \cup 0..(Available + 1)
    /\ busy = FALSE /\ current = NoKey
    /\ pending = NoKey /\ waiting = NoKey /\ quit = FALSE
    /\ pc = "window" /\ label = Bootstrap /\ chunk = 0
    /\ cache = [c \in Chunks |-> "empty"]
    /\ reported = <<>> /\ status = "running"
    /\ interrupted = FALSE /\ pressed = 0

-----------------------------------------------------------------------------
(* Tk delivers events: on_key and close, inside root.update *)

Updating == pc \in {"window", "show_first", "show_refined", "wait", "show_last"}

\* Mutant of Observe: keys are stored as pending only.
ObserveAlwaysPending ==
    /\ Updating
    /\ ~quit
    /\ pressed < MaxPress
    /\ pressed' = pressed + 1
    /\ pending' = pressed'
    /\ UNCHANGED <<busy, current, waiting, quit, pc, run, status, interrupted,
                   script>>

\* A movement key: the newest one replaces what waits in its place.
Observe ==
    /\ Updating
    /\ ~quit
    /\ pressed < MaxPress
    /\ pressed' = pressed + 1
    /\ IF busy THEN pending' = pressed' /\ UNCHANGED waiting
               ELSE waiting' = pressed' /\ UNCHANGED pending
    /\ UNCHANGED <<busy, current, quit, pc, run, status, interrupted,
                   script>>

\* Q, Escape or the window's close button.  After close nothing is delivered
\* any more; after Q nothing that is delivered has an effect.
RequestQuit ==
    /\ Updating
    /\ quit' = TRUE
    /\ UNCHANGED <<busy, current, pending, waiting, pc, run, status,
                   interrupted, pressed, script>>

-----------------------------------------------------------------------------
(* main *)

Goto(l) == pc' = l /\ UNCHANGED <<status, interrupted, pressed, script>>

\* The end of main.  Its finally closes an action that is still in flight.
End(s) ==
    /\ pc' = "ended"
    /\ status' = s
    /\ busy' = FALSE
    /\ current' = NoKey
    /\ UNCHANGED <<pending, waiting, quit, run, pressed, script>>

LeaveWindow ==
    /\ pc = "window"
    /\ Goto("load")
    /\ UNCHANGED <<input, run>>

LoadModel ==
    /\ pc = "load"
    /\ Goto("begin")
    /\ UNCHANGED <<input, run>>

\* Mutant of BeginAction: a key that waits is discarded.
BeginActionAfresh ==
    /\ pc = "begin"
    /\ busy' = TRUE
    /\ current' = label
    /\ waiting' = NoKey
    /\ Goto("denoise")
    /\ UNCHANGED <<pending, quit, run>>

\* begin_action: a key that came in while nothing was in flight becomes the
\* pending key of this action.
BeginAction ==
    /\ pc = "begin"
    /\ busy' = TRUE
    /\ current' = label
    /\ IF waiting = NoKey THEN UNCHANGED pending ELSE pending' = waiting
    /\ waiting' = NoKey
    /\ Goto("denoise")
    /\ UNCHANGED <<quit, run>>

\* generate_chunk with the clean commit deferred, then begin_latent.
GenerateChunk ==
    /\ pc = "denoise"
    /\ cache' = [cache EXCEPT ![chunk] = "noisy"]
    /\ Goto("show_first")
    /\ UNCHANGED <<input, label, chunk, reported>>

\* Each frame that is shown ends in "if key in (q, escape): raise
\* KeyboardInterrupt"; otherwise the session goes on.
Shown(at, next) ==
    /\ pc = at
    /\ ~quit
    /\ Goto(next)
    /\ UNCHANGED <<input, run>>

ShowFirst == Shown("show_first", IF Upscale THEN "show_refined" ELSE "commit")
ShowRefined == Shown("show_refined", "commit")

\* Mutant of Escape: it ends the session like a quit between two actions.
EscapeStopped ==
    /\ pc \in {"show_first", "show_refined", "show_last"}
    /\ quit
    /\ End("stopped")
    /\ UNCHANGED interrupted

Escape ==
    /\ pc \in {"show_first", "show_refined", "show_last"}
    /\ quit
    /\ End("interrupted")
    /\ UNCHANGED interrupted

\* commit_clean_kv and drain_latent.
CommitClean ==
    /\ pc = "commit"
    /\ cache' = [cache EXCEPT ![chunk] = "clean"]
    /\ Goto("show_last")
    /\ UNCHANGED <<input, label, chunk, reported>>

\* Mutants of FinishAction: the quit flag is not looked at; the row takes its
\* action from the input state after finish_action has cleared it.
FinishActionAnyway ==
    /\ pc = "show_last"
    /\ busy' = FALSE
    /\ current' = NoKey
    /\ reported' = Append(reported, [chunk |-> chunk, action |-> label])
    /\ Goto("choose")
    /\ UNCHANGED <<pending, waiting, quit, label, chunk, cache>>

\* The last frame, finish_action and the row of the report.
FinishAction ==
    /\ pc = "show_last"
    /\ ~quit
    /\ busy' = FALSE
    /\ current' = NoKey
    /\ reported' = Append(reported, [chunk |-> chunk, action |-> label])
    /\ Goto("choose")
    /\ UNCHANGED <<pending, waiting, quit, label, chunk, cache>>

\* The range of the loop is exhausted.
AllDone ==
    /\ pc = "choose"
    /\ chunk = Available
    /\ End("success")
    /\ UNCHANGED interrupted

\* --max-seconds is looked at before each action.
TimeUp ==
    /\ pc = "choose"
    /\ chunk < Available
    /\ End("stopped")
    /\ UNCHANGED interrupted

Start(action) ==
    /\ label' = action
    /\ chunk' = chunk + 1
    /\ Goto("begin")
    /\ UNCHANGED <<busy, current, quit, cache, reported>>

TakePending ==
    /\ pc = "choose"
    /\ chunk < Available
    /\ script = NoScript
    /\ pending # NoKey
    /\ Start(pending)
    /\ pending' = NoKey
    /\ UNCHANGED waiting

\* wait_for_key forgets what was waiting before it was called.
WaitForKey ==
    /\ pc = "choose"
    /\ chunk < Available
    /\ script = NoScript
    /\ pending = NoKey
    /\ waiting' = NoKey
    /\ Goto("wait")
    /\ UNCHANGED <<busy, current, pending, quit, run>>

TakeWaiting ==
    /\ pc = "wait"
    /\ ~quit
    /\ waiting # NoKey
    /\ Start(waiting)
    /\ waiting' = NoKey
    /\ UNCHANGED pending

StopWaiting ==
    /\ pc = "wait"
    /\ quit
    /\ End("stopped")
    /\ UNCHANGED interrupted

\* The next item of the script, whatever has been pressed.
TakeScripted ==
    /\ pc = "choose"
    /\ chunk < Available
    /\ script # NoScript
    /\ chunk < script
    /\ Start(MaxPress + chunk + 1)
    /\ UNCHANGED <<pending, waiting>>

\* Its end, or a q in it.
ScriptEnds ==
    /\ pc = "choose"
    /\ chunk < Available
    /\ script # NoScript
    /\ chunk >= script
    /\ End("stopped")
    /\ UNCHANGED interrupted

\* Ctrl-C in the terminal, and any other exception: a forward that is cut
\* short leaves the chunk's entries noisy, whichever pass it belongs to.
Aborted(s) ==
    /\ pc # "ended"
    /\ pc' = "ended"
    /\ status' = s
    /\ busy' = FALSE
    /\ current' = NoKey
    /\ cache' = IF pc \in {"denoise", "commit"}
                THEN [cache EXCEPT ![chunk] = "noisy"] ELSE cache
    /\ UNCHANGED <<pending, waiting, quit, label, chunk, reported, pressed,
                   script>>

CtrlC == Aborted("interrupted") /\ interrupted' = TRUE
Fails == Aborted("failure") /\ UNCHANGED interrupted

Ended ==
    /\ pc = "ended"
    /\ UNCHANGED vars

-----------------------------------------------------------------------------
Deliver == Observe \/ RequestQuit

Session ==
    \/ LeaveWindow
    \/ LoadModel
    \/ BeginAction
    \/ GenerateChunk
    \/ ShowFirst
    \/ ShowRefined
    \/ Escape
    \/ CommitClean
    \/ FinishAction
    \/ AllDone
    \/ TimeUp
    \/ TakePending
    \/ WaitForKey
    \/ TakeWaiting
    \/ StopWaiting
    \/ TakeScripted
    \/ ScriptEnds

Next ==
    \/ Deliver
    \/ Session
    \/ CtrlC
    \/ Fails
    \/ Ended

Spec == Init /\ [][Next]_vars

\* The only thread keeps running: model calls return or raise.
FairSpec == Spec /\ WF_vars(Session)

-----------------------------------------------------------------------------
(* Properties *)

\* Every variable has its type.
TypeOK ==
    /\ busy \in BOOLEAN /\ quit \in BOOLEAN /\ interrupted \in BOOLEAN
    /\ script \in {NoScript} \cup Nat
    /\ current \in Labels \cup {NoKey}
    /\ pending \in Presses \cup {NoKey} /\ waiting \in Presses \cup {NoKey}
    /\ pc \in {"window", "load", "begin", "denoise", "show_first",
               "show_refined", "commit", "show_last", "choose", "wait", "ended"}
    /\ label \in Labels
    /\ chunk \in Chunks
    /\ cache \in [Chunks -> {"empty", "noisy", "clean"}]
    /\ reported \in Seq([chunk : Chunks, action : Labels])
    /\ status \in {"running", "success", "stopped", "interrupted", "failure"}
    /\ pressed \in 0..MaxPress

Held == {pending, waiting, label}

\* The newest valid key is never lost, from the first update of the window
\* on: it waits, is pending, or is the action that was last begun.  The reset
\* at the head of wait_for_key and the two places a key is stored in never
\* conspire to drop it.
NewestKeyHeld == pressed > 0 => pressed \in Held

\* The rows of the report are the chunks 0, 1, ... in order, each with its
\* clean pass behind it and an action newer than the one before; at most the
\* action that was cut short is missing.
ReportInOrder ==
    /\ \A i \in 1..Len(reported) :
           reported[i].chunk = i - 1 /\ cache[i - 1] = "clean"
    /\ \A i \in 1..Len(reported) - 1 :
           reported[i].action < reported[i + 1].action
    /\ Cardinality({c \in Chunks : cache[c] # "empty"}) - Len(reported) \in 0..1

\* A scripted session does what its script says, whatever is pressed.
ScriptIsFollowed ==
    script # NoScript =>
        /\ \A i \in 2..Len(reported) : reported[i].action = MaxPress + i - 1
        /\ Len(reported) <= script + 1
        /\ status = "success" => chunk = Available /\ Available <= script

\* A session that says it stopped or succeeded has finished and reported every
\* action it began.
StatusIsHonest ==
    status \in {"stopped", "success"} =>
        /\ \A c \in Chunks : cache[c] # "noisy"
        /\ \E i \in 1..Len(reported) : reported[i].action = label

\* live_metrics.json tells what has happened, whatever ended the session.
ReportIsHonest == ReportInOrder /\ StatusIsHonest /\ ScriptIsFollowed

\* docs/live-viewer.md:78 says "Q or ESC  stop after the current safe
\* boundary": a session the user quits leaves no chunk without its clean pass.
QuitAtSafeBoundary ==
    pc = "ended" /\ quit /\ ~interrupted /\ status # "failure" =>
        \A c \in Chunks : cache[c] # "noisy"

\* A key that is held back is begun, unless a newer one takes its place or
\* the session ends.
KeyIsAnswered ==
    \A k \in Presses :
        (k \in {pending, waiting}) ~> (label = k \/ pressed > k \/ pc = "ended")

\* The viewer keeps the same promise as the browser's mailbox: one slot, the
\* newest key, nothing begun after quit.
Executed == {reported[i].action : i \in 1..Len(reported)} \cap Presses

Slot == INSTANCE ActionSlot WITH
    Ids <- Presses,
    NoAction <- NoKey,
    waiting <- IF pending # NoKey THEN pending ELSE waiting,
    running <- IF label \in Presses \ Executed THEN label ELSE NoKey,
    done <- Executed,
    superseded <- (1..pressed) \ (Executed \cup Held),
    open <- ~quit

ImplementsActionSlot == Slot!Spec
=============================================================================
