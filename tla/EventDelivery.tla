---------------------------- MODULE EventDelivery ----------------------------
(***************************************************************************)
(* The way of an event from the threads that publish it to the screen:     *)
(* EventBus, broadcast_loop, ClientOutbound and the websocket handler of   *)
(* scripts/run_browser.py, and the frame handling of web/app.js.           *)
(*                                                                         *)
(* The JPEG thread publishes frames, other threads everything else         *)
(* ("notes": states, server events, action records).  publish appends      *)
(* under a lock and wakes the event loop afterwards; the loop hands each   *)
(* event to every client, each client's sender writes to its websocket,    *)
(* and the page decodes frames one after another and draws the tails of an *)
(* action from a timer.  asyncio.Event, the websocket and the browser are  *)
(* modelled from how this code uses them.                                  *)
(*                                                                         *)
(* Abstracted: what notes say, pixels, the pacing of the timer.            *)
(***************************************************************************)
EXTENDS Integers, FiniteSets, SequencesExt

CONSTANTS Clients,     \* page loads; a reload is another client
          Attentive,   \* those whose page reads what it is sent
          LastAction,  \* bound: actions 0..LastAction are presented
          FrameCount,  \* frames of an action
          NoteMax,     \* bound: notes published
          BusMax,      \* EventBus.max_events
          OutMax,      \* ClientOutbound.max_items
          WireMax,     \* what fits between a sender and its page
          TailMax      \* tails a page keeps: 3

ASSUME ConstantsAssumption ==
    /\ Attentive \subseteq Clients
    /\ {LastAction, NoteMax} \subseteq Nat
    /\ {FrameCount, BusMax, OutMax, WireMax, TailMax} \subseteq Nat \ {0}

Actions == 0..LastAction
Frame(a, i) == [kind |-> "frame", action |-> a, index |-> i]
Frames == {Frame(a, i) : a \in Actions, i \in 0..(FrameCount - 1)}
Note == [kind |-> "note", action |-> -1, index |-> -1]
NoFrame == [kind |-> "none", action |-> -1, index |-> -1]
Latest(f) == [f EXCEPT !.kind = "latest"]  \* the greeting's copy of a frame
Items == Frames \cup {Note} \cup {Latest(f) : f \in Frames}

Number(f) == IF f.action < 0 THEN -1 ELSE f.action * FrameCount + f.index
IsFrame(e) == e.kind = "frame"
FramesIn(s) == {e \in ToSet(s) : IsFrame(e)}

Publishers == {"jpeg", "other"}

VARIABLES
    bus, latest, signalling,     \* EventBus; who is about to wake the loop
    due, wake, taker,            \* callback queued, _wake, broadcast_loop
    newest, notes,               \* the newest frame published; notes so far
    conn, out, wire,             \* per client: handler, ClientOutbound, link
    page,                        \* per client: the page's frame state
    got, greeting, overflow      \* history per client: see Init

busVars == <<bus, latest, signalling, newest, notes>>
loopVars == <<due, wake, taker>>
clientVars == <<conn, out, wire, page, got, greeting, overflow>>
vars == <<bus, latest, signalling, due, wake, taker, newest, notes,
          conn, out, wire, page, got, greeting, overflow>>

BlankPage == [current |-> 0, tails |-> <<>>, shown |-> NoFrame]

Init ==
    /\ bus = <<>> /\ latest = NoFrame
    /\ signalling = [p \in Publishers |-> FALSE]
    /\ due = FALSE /\ wake = FALSE /\ taker = "check"
    /\ newest = NoFrame /\ notes = 0
    /\ conn = [c \in Clients |-> "away"]
    /\ out = [c \in Clients |-> <<>>]
    /\ wire = [c \in Clients |-> <<>>]
    /\ page = [c \in Clients |-> BlankPage]
    /\ got = [c \in Clients |-> NoFrame]        \* last frame off the queue
    /\ greeting = [c \in Clients |-> NoFrame]   \* the frame it was greeted with
    /\ overflow = [c \in Clients |-> FALSE]     \* a frame was dropped on it

\* The members of BrowserServer.clients.
Registered(c) == conn[c] \in {"status", "latest", "open", "leaked"}

-----------------------------------------------------------------------------
(* EventBus.publish *)

\* The capacity rule of the bus: a frame displaces the oldest frame or, when
\* there is none, is itself dropped; a note displaces the oldest event.
BusWith(e) ==
    CASE Len(bus) < BusMax -> Append(bus, e)
      [] Len(bus) >= BusMax /\ ~IsFrame(e) -> Append(Tail(bus), e)
      [] OTHER -> IF FramesIn(bus) = {} THEN bus
                  ELSE Append(RemoveFirstMatch(bus, IsFrame), e)

\* The part under the lock.  A frame that is dropped wakes nobody.
Publish(p, e) ==
    /\ ~signalling[p]
    /\ bus' = BusWith(e)
    /\ signalling' = [signalling EXCEPT ![p] = (e \in ToSet(bus'))]
    /\ overflow' = [c \in Clients |->
                       overflow[c] \/ (Registered(c)
                           /\ ~(FramesIn(bus) \cup ({e} \ {Note}) \subseteq ToSet(bus')))]
    /\ UNCHANGED due

\* The frames PresentationWorker can publish next: Presentation implements
\* FrameSource.
Source == INSTANCE FrameSource WITH
    newest <- [action |-> newest.action, index |-> newest.index]

NextFrames == {f \in Frames : Source!Follows(f)}

PublishFrame ==
    \E f \in NextFrames :
        /\ Publish("jpeg", f)
        /\ newest' = f
        /\ latest' = IF f.index = 0 THEN f ELSE latest
        /\ UNCHANGED <<notes, wake, taker, conn, out, wire, page, got, greeting>>

PublishNote ==
    /\ notes < NoteMax
    /\ Publish("other", Note)
    /\ notes' = notes + 1
    /\ UNCHANGED <<latest, newest, wake, taker, conn, out, wire, page, got, greeting>>

\* loop.call_soon_threadsafe(_wake.set), after the lock has been released.
Signal(p) ==
    /\ signalling[p]
    /\ signalling' = [signalling EXCEPT ![p] = FALSE]
    /\ due' = TRUE
    /\ UNCHANGED <<bus, latest, newest, notes, wake, taker, clientVars>>

-----------------------------------------------------------------------------
(* The event loop: EventBus.take and broadcast_loop *)

RunCallback ==
    /\ due
    /\ due' = FALSE
    /\ wake' = TRUE
    /\ UNCHANGED <<busVars, taker, clientVars>>

\* ClientOutbound.put: when it is full, the oldest frame goes or, when there
\* is none, the oldest event.
Put(o, e) ==
    CASE Len(o) < OutMax -> Append(o, e)
      [] FramesIn(o) # {} /\ Len(o) >= OutMax ->
             Append(RemoveFirstMatch(o, IsFrame), e)
      [] OTHER -> Append(Tail(o), e)

\* Mutant of Broadcast: one event for each wake-up.
BroadcastOncePerWake ==
    /\ taker = "check"
    /\ bus # <<>>
    /\ bus' = Tail(bus)
    /\ out' = [c \in Clients |->
                  IF Registered(c) THEN Put(out[c], Head(bus)) ELSE out[c]]
    /\ overflow' = [c \in Clients |->
                       overflow[c] \/ ~(FramesIn(out[c]) \subseteq ToSet(out'[c]))]
    /\ taker' = "waiting"
    /\ UNCHANGED <<latest, signalling, newest, notes, due, wake, conn, wire,
                   page, got, greeting>>

\* Mutant of Broadcast: it waits for room in the queue of every client.
BroadcastWhenRoom ==
    /\ taker = "check"
    /\ bus # <<>>
    /\ \A c \in Clients : Registered(c) => Len(out[c]) < OutMax
    /\ bus' = Tail(bus)
    /\ out' = [c \in Clients |->
                  IF Registered(c) THEN Put(out[c], Head(bus)) ELSE out[c]]
    /\ overflow' = [c \in Clients |->
                       overflow[c] \/ ~(FramesIn(out[c]) \subseteq ToSet(out'[c]))]
    /\ UNCHANGED <<latest, signalling, newest, notes, loopVars, conn, wire,
                   page, got, greeting>>

\* take finds an event and broadcast_loop puts it to all clients, without an
\* await in between; or there is none, and take waits.
Broadcast ==
    /\ taker = "check"
    /\ bus # <<>>
    /\ bus' = Tail(bus)
    /\ out' = [c \in Clients |->
                  IF Registered(c) THEN Put(out[c], Head(bus)) ELSE out[c]]
    /\ overflow' = [c \in Clients |->
                       overflow[c] \/ ~(FramesIn(out[c]) \subseteq ToSet(out'[c]))]
    /\ UNCHANGED <<latest, signalling, newest, notes, loopVars, conn, wire,
                   page, got, greeting>>

WaitForEvents ==
    /\ taker = "check"
    /\ bus = <<>>
    /\ taker' = "waiting"
    /\ UNCHANGED <<busVars, due, wake, clientVars>>

WakeUp ==
    /\ taker = "waiting"
    /\ wake
    /\ wake' = FALSE
    /\ taker' = "check"
    /\ UNCHANGED <<busVars, due, clientVars>>

-----------------------------------------------------------------------------
(* The websocket handler and the sender of client c *)

\* ws.prepare has returned: the client is registered and greeted with the
\* status; while that is being sent the loop goes on.
Connect(c) ==
    /\ conn[c] = "away"
    /\ conn' = [conn EXCEPT ![c] = "status"]
    /\ wire' = [wire EXCEPT ![c] = <<Note>>]
    /\ UNCHANGED <<busVars, loopVars, out, page, got, greeting, overflow>>

\* Mutant of Greet: the newest first frame is left to the queue.
GreetStatusOnly(c) ==
    /\ conn[c] = "status"
    /\ conn' = [conn EXCEPT ![c] = "open"]
    /\ UNCHANGED <<busVars, loopVars, out, wire, page, got, greeting, overflow>>

\* Then latest_frame, as it is now, when there is one.
Greet(c) ==
    /\ conn[c] = "status"
    /\ IF latest = NoFrame
       THEN /\ conn' = [conn EXCEPT ![c] = "open"]
            /\ UNCHANGED <<wire, greeting>>
       ELSE /\ conn' = [conn EXCEPT ![c] = "latest"]
            /\ wire' = [wire EXCEPT ![c] = Append(@, Latest(latest))]
            /\ greeting' = [greeting EXCEPT ![c] = latest]
    /\ UNCHANGED <<busVars, loopVars, out, page, got, overflow>>

\* The sender task is created.
Open(c) ==
    /\ conn[c] = "latest"
    /\ conn' = [conn EXCEPT ![c] = "open"]
    /\ UNCHANGED <<busVars, loopVars, out, wire, page, got, greeting, overflow>>

\* Mutants of Send: it serves the newest event first; it waits until the
\* page has read everything and the queue is full.
SendNewest(c) ==
    /\ conn[c] = "open"
    /\ out[c] # <<>>
    /\ Len(wire[c]) < WireMax
    /\ wire' = [wire EXCEPT ![c] = Append(@, Last(out[c]))]
    /\ out' = [out EXCEPT ![c] = Front(@)]
    /\ UNCHANGED <<busVars, loopVars, conn, page, got, greeting, overflow>>

SendWhenFull(c) ==
    /\ conn[c] = "open"
    /\ Len(out[c]) = OutMax
    /\ Len(wire[c]) < WireMax
    /\ wire' = [wire EXCEPT ![c] = Append(@, Head(out[c]))]
    /\ out' = [out EXCEPT ![c] = Tail(@)]
    /\ UNCHANGED <<busVars, loopVars, conn, page, got, greeting, overflow>>

\* _client_sender: the oldest event, when the link takes more.
Send(c) ==
    /\ conn[c] = "open"
    /\ out[c] # <<>>
    /\ Len(wire[c]) < WireMax
    /\ wire' = [wire EXCEPT ![c] = Append(@, Head(out[c]))]
    /\ out' = [out EXCEPT ![c] = Tail(@)]
    /\ UNCHANGED <<busVars, loopVars, conn, page, got, greeting, overflow>>

\* The page goes away.  The handler's try/finally deregisters the client; a
\* send that fails before the try is entered leaves it registered.
Disconnect(c) ==
    /\ conn[c] \in {"status", "latest", "open"}
    /\ conn' = [conn EXCEPT ![c] = IF conn[c] = "open" THEN "closed" ELSE "leaked"]
    /\ wire' = [wire EXCEPT ![c] = <<>>]
    /\ out' = IF conn[c] = "open" THEN [out EXCEPT ![c] = <<>>] ELSE out
    /\ page' = [page EXCEPT ![c] = BlankPage]
    /\ greeting' = [greeting EXCEPT ![c] = NoFrame]
    /\ UNCHANGED <<busVars, loopVars, got, overflow>>

-----------------------------------------------------------------------------
(* web/app.js *)

\* receiveFrame after the bitmap has been decoded: RGB0 is drawn at once, and
\* that of another action discards the queued tails; a tail is queued when it
\* belongs to the current action.
Presented(p, f) ==
    IF f.index = 0
    THEN [current |-> f.action, shown |-> f,
          tails |-> IF f.action = p.current THEN p.tails ELSE <<>>]
    ELSE IF f.action = p.current
    THEN [p EXCEPT !.tails = Append(IF Len(@) >= TailMax THEN Tail(@) ELSE @, f)]
    ELSE p

\* onmessage; frames pass through frameDecodeChain, one at a time.
Receive(c) ==
    LET e == Head(wire[c])
    IN  /\ wire[c] # <<>>
        /\ wire' = [wire EXCEPT ![c] = Tail(@)]
        /\ page' = IF e = Note THEN page
                   ELSE [page EXCEPT ![c] = Presented(@, [e EXCEPT !.kind = "frame"])]
        /\ got' = IF IsFrame(e) THEN [got EXCEPT ![c] = e] ELSE got
        /\ UNCHANGED <<busVars, loopVars, conn, out, greeting, overflow>>

\* Mutant of DrawTail: the newest tail is drawn first.
DrawTailNewest(c) ==
    /\ page[c].tails # <<>>
    /\ page' = [page EXCEPT ![c].tails = Front(@), ![c].shown = Last(page[c].tails)]
    /\ UNCHANGED <<busVars, loopVars, conn, out, wire, got, greeting, overflow>>

\* The timer of scheduleTail.
DrawTail(c) ==
    LET f == Head(page[c].tails)
    IN  /\ page[c].tails # <<>>
        /\ page' = [page EXCEPT
                       ![c].tails = Tail(@),
                       ![c].shown = IF f.action = page[c].current THEN f ELSE @]
        /\ UNCHANGED <<busVars, loopVars, conn, out, wire, got, greeting, overflow>>

-----------------------------------------------------------------------------
Signals == \E p \in Publishers : Signal(p)

Loop ==
    \/ RunCallback
    \/ Broadcast
    \/ WaitForEvents
    \/ WakeUp

Handler(c) == Greet(c) \/ Open(c) \/ Send(c)

Page(c) == Receive(c) \/ DrawTail(c)

Next ==
    \/ PublishFrame
    \/ PublishNote
    \/ Signals
    \/ Loop
    \/ \E c \in Clients : Handler(c) \/ Page(c) \/ Connect(c) \/ Disconnect(c)

Spec == Init /\ [][Next]_vars

\* Publishing threads leave publish, the loop runs what is ready, and an
\* attentive page, while it is there, reads, decodes and runs its timers.  The
\* other pages read when they like, or never.
Fairness ==
    /\ \A p \in Publishers : WF_vars(Signal(p))
    /\ WF_vars(RunCallback)
    /\ WF_vars(Broadcast \/ WaitForEvents \/ WakeUp)
    /\ \A c \in Attentive : WF_vars(Handler(c)) /\ WF_vars(Page(c))

FairSpec == Spec /\ Fairness

-----------------------------------------------------------------------------
(* Properties *)

\* Every variable has its type; in particular every buffer has its bound.
TypeOK ==
    /\ bus \in Seq(Frames \cup {Note}) /\ Len(bus) <= BusMax
    /\ latest \in Frames \cup {NoFrame} /\ newest \in Frames \cup {NoFrame}
    /\ signalling \in [Publishers -> BOOLEAN]
    /\ due \in BOOLEAN /\ wake \in BOOLEAN /\ taker \in {"check", "waiting"}
    /\ notes \in 0..NoteMax
    /\ conn \in [Clients -> {"away", "status", "latest", "open", "closed", "leaked"}]
    /\ out \in [Clients -> Seq(Frames \cup {Note})]
    /\ wire \in [Clients -> Seq(Items)]
    /\ page \in [Clients -> [current : Actions, tails : Seq(Frames),
                             shown : Frames \cup {NoFrame}]]
    /\ {got, greeting} \subseteq [Clients -> Frames \cup {NoFrame}]
    /\ overflow \in [Clients -> BOOLEAN]
    /\ \A c \in Clients :
           Len(out[c]) <= OutMax /\ Len(page[c].tails) <= TailMax

\* No lost wake-up: as long as something is on the bus and the broadcast loop
\* waits, a wake-up is set, queued, or about to be queued by a publisher.
WakeUpComes ==
    bus # <<>> /\ taker = "waiting" =>
        wake \/ due \/ \E p \in Publishers : signalling[p]

\* Between publish and the page, every client sees an order-preserving lossy
\* channel: overflow drops frames, nothing repeats or reorders them.
Channel(c) == INSTANCE LossyFifo WITH
    sent <- Number(newest),
    flight <- {Number(f) : f \in FramesIn(bus) \cup FramesIn(out[c])
                                 \cup FramesIn(wire[c])},
    last <- Number(got[c])

ClientsInOrder ==
    /\ \A c \in Clients : Channel(c)!Init
    /\ [][\A c \in Clients : [Channel(c)!Next]_(Channel(c)!vars)]_vars

\* The screen never goes back to an older frame, with one exception: after
\* the greeting, which is newer than what was queued while it was sent.  And
\* a tail is drawn only on top of a frame of its own action.
ScreenStep ==
    \A c \in Clients :
        LET old == page[c].shown
            new == page'[c].shown
        IN  new # old /\ NoFrame \notin {old, new} =>
                /\ Number(new) > Number(old) \/ old = greeting[c]
                /\ new.index > 0 => new.action = old.action

ScreenGoesForward == [][ScreenStep]_vars

\* Whenever a page joins, before or in the middle of an action: once it has
\* read what is on its way, and unless a frame was dropped on it, it shows
\* the newest action.
Drained(c) == conn[c] = "open" /\ bus = <<>> /\ out[c] = <<>> /\ wire[c] = <<>>

MissesNothing ==
    \A c \in Clients :
        Drained(c) /\ ~overflow[c] /\ latest # NoFrame =>
            page[c].current = latest.action /\ page[c].shown # NoFrame

\* RGB0 of the newest action gets on the screen of every attentive page,
\* unless a newer one follows, frames were dropped or the page is closed; a
\* client that never reads, is gone or leaked holds up nobody else.
NewestIsShown ==
    \A c \in Attentive, a \in Actions :
        (conn[c] = "open" /\ latest = Frame(a, 0)) ~>
            \/ page[c].current = a /\ page[c].shown.action = a
            \/ latest.action > a \/ overflow[c] \/ conn[c] # "open"

\* run_browser.py:109 says of the queue of a client that "stale frame tails
\* may be dropped": RGB0 of the newest action, at least, is not.
FirstFrameStep ==
    \A c \in Clients :
        latest # NoFrame /\ latest \in ToSet(out[c]) /\ conn[c] = "open"
            => latest \in ToSet(out'[c]) \cup ToSet(wire'[c]) \/ conn'[c] # "open"

FirstFrameSurvives == [][FirstFrameStep]_vars
=============================================================================
