------------------------------ MODULE PageLoads ------------------------------
(***************************************************************************)
(* The keys of the web page (web/app.js: onKeydown, connect) against the   *)
(* server of ActionPipeline.  A page that is loaded again, or in a second  *)
(* tab, numbers its actions from 1, while the server keeps the ledger of   *)
(* the whole session and refuses an id it knows.  The websocket of a page  *)
(* is a FIFO; the websockets of several pages are read in any order.       *)
(*                                                                         *)
(* A key is a step when the server reads it: nobody can tell when it was   *)
(* pressed.  A page that is closed, or loses its socket, takes no more     *)
(* steps.  Abstracted: the telemetry of a frame, which marks a record that *)
(* is there already, and what the server sends: a page does not look at    *)
(* the acknowledgement of a refused key.                                   *)
(***************************************************************************)
EXTENDS ActionPipeline

CONSTANTS MaxPages, \* bound: page loads
          MaxKeys, \* bound: keydown events of a page
          NoPage

ASSUME PagesAssumption ==
    MaxPages \in Nat /\ MaxKeys \in 0..MaxId /\ NoPage \notin 1..MaxPages

Pages == 1..MaxPages  \* in the order they are loaded

VARIABLES
    page,       \* page load -> nextActionId, and whether telemetry is due
    acceptedOf, \* history: id -> the page whose key was accepted under it
    duplicates  \* history: the keys refused as duplicates

pageVars == <<page, acceptedOf, duplicates>>

NotLoaded == [next |-> 0, due |-> FALSE]

PagesInit ==
    /\ page = [p \in Pages |-> NotLoaded]
    /\ acceptedOf = [a \in Ids |-> NoPage]
    /\ duplicates = {}

-----------------------------------------------------------------------------
\* connect and onopen.  The handlers were installed before: the keys pressed
\* until now have taken their ids and were sent nowhere.
Open(p) ==
    /\ Alive
    /\ page[p] = NotLoaded
    /\ p > 1 => page[p - 1] # NotLoaded
    /\ \E n \in 1..MaxKeys : page' = [page EXCEPT ![p].next = n]
    /\ UNCHANGED <<vars, acceptedOf, duplicates>>

\* onKeydown sends the action first; submit_action accepts or refuses it.
KeyOf(p, a) ==
    \/ /\ SubmitAction(a)
       /\ acceptedOf' = [acceptedOf EXCEPT ![a] = p]
       /\ UNCHANGED duplicates
    \/ /\ LoopFree
       /\ ~ready
       /\ UNCHANGED <<vars, acceptedOf, duplicates>>
    \/ /\ LoopFree
       /\ ready
       /\ ~Fresh(a)
       /\ duplicates' = duplicates \cup {[page |-> p, id |-> a]}
       /\ UNCHANGED <<vars, acceptedOf>>

Key(p) ==
    /\ page[p].next \in 1..MaxKeys
    /\ ~page[p].due
    /\ KeyOf(p, page[p].next)
    /\ page' = [page EXCEPT ![p].due = TRUE]

\* Then its telemetry, whatever became of the action.
KeyTelemetry(p) ==
    /\ page[p].due
    /\ BrowserTelemetry(page[p].next)
    /\ page' = [page EXCEPT ![p].next = @ + 1, ![p].due = FALSE]
    /\ UNCHANGED <<acceptedOf, duplicates>>

\* Q and Escape take an id, too, and have no telemetry.
QuitKey(p) ==
    /\ page[p].next \in 1..MaxKeys
    /\ ~page[p].due
    /\ RequestQuit
    /\ page' = [page EXCEPT ![p].next = @ + 1]
    /\ UNCHANGED <<acceptedOf, duplicates>>

PageStep ==
    \E p \in Pages : Open(p) \/ Key(p) \/ KeyTelemetry(p) \/ QuitKey(p)

PagesNext ==
    \/ (OwnerStep \/ OwnerFails \/ HandlerStep \/ ServerStep \/ Signal)
           /\ UNCHANGED pageVars
    \/ PageStep
    \/ server = "exited" /\ UNCHANGED <<vars, pageVars>>

PagesSpec == Init /\ PagesInit /\ [][PagesNext]_<<vars, pageVars>>

-----------------------------------------------------------------------------
(* Properties *)

\* A key is refused as a duplicate only when another page had its key accepted
\* under that id: neither the page's own telemetry, nor that of a key which
\* came before the session was ready, takes an id away.  So a page that is
\* loaded again is deaf for as many keys at most as earlier pages had
\* accepted, and the only page of a session for none.
DuplicatesAreReal ==
    \A d \in duplicates : acceptedOf[d.id] \notin {NoPage, d.page}
=============================================================================
