---------------------------- MODULE ClientsProofs ----------------------------
(***************************************************************************)
(* Proofs about the two clients of MCClients, for any number of ids, of     *)
(* chunks, of pages and of keys.  They stand on those about the server:     *)
(* whatever a client does, its server takes the steps of ActionPipeline.    *)
(***************************************************************************)
EXTENDS MCClients, ActionPipelineProofs

-----------------------------------------------------------------------------
(* The server *)

\* A finished action has passed every boundary.
FinishedInv == \A a \in Ids : Complete(a) => "next_ready" \in ledger[a].marks

ServerInv == FateInv /\ MarksInv /\ FinishedInv

LEMMA IdFacts ==
    /\ Ids \subseteq Actions /\ Bootstrap \in Actions /\ Bootstrap \notin Ids
    /\ Actions = Ids \cup {Bootstrap} /\ NoAction \notin Actions /\ MaxId \in Nat
  BY ConstantsAssumption DEF Actions, Ids, Bootstrap

LEMMA LastMark == "next_ready" \in UpTo(1, 9)
  BY BoundaryNames DEF UpTo

\* Who is complete carries a key, and stays complete.
LEMMA CompleteStays ==
    ASSUME FateInv, [Next]_vars, NEW a \in Ids, Complete(a)
    PROVE  Complete(a)' /\ ledger[a].label = "key"
<1>1. a \in Actions /\ ledger \in [Actions -> Record]
  BY IdFacts DEF FateInv, IInv, TypeOK
<1>2. ledger[a].label = "key"
  BY <1>1 DEF FateInv, IInv, LabelInv, Fresh, Complete, Record
<1>3. CASE TerminalStep
  BY <1>1, <1>2, <1>3 DEF TerminalStep, Complete
<1>4. CASE UNCHANGED vars
  BY <1>2, <1>4 DEF vars, Complete
<1> QED
  BY <1>2, <1>3, <1>4, TerminalFates

LEMMA FinishedStep == ServerInv /\ [Next]_vars => FinishedInv'
<1> SUFFICES ASSUME ServerInv, [Next]_vars, NEW a \in Ids, Complete(a)'
             PROVE  "next_ready" \in ledger'[a].marks
  BY DEF FinishedInv, Complete
<1>1. /\ a \in Actions /\ ledger \in [Actions -> Record] /\ acting \in Actions
      /\ Bootstrap \notin Ids /\ IInv /\ FateInv
  BY IdFacts DEF ServerInv, FateInv, IInv, TypeOK
<1>2. CASE Complete(a)
  BY <1>1, <1>2, CompleteStays, KeyMarksStay DEF ServerInv, FinishedInv
<1>3. CASE ~Complete(a)
  <2>1. ledger'[a].status # ledger[a].status
    BY <1>3 DEF Complete
  <2>2. ~LedgerReplace
    <3> SUFFICES ASSUME LedgerReplace PROVE FALSE
      OBVIOUS
    <3>1. handler.old \in Ids /\ handler.id \in Ids /\ ledger[handler.old].label = "key"
      BY <1>1 DEF IInv, HandlerInv, LedgerReplace, Running
    <3>2. /\ handler.old = a => ledger'[a].status = "replaced"
          /\ handler.old # a => ledger'[a] = ledger[a]
      BY <1>1, <3>1, IdFacts, ReplacedRecord DEF LedgerReplace
    <3> QED
      BY <2>1, <3>2 DEF Complete
  <2>3. RecordComplete
    BY <1>1, <2>1, <2>2, FateFrame
  <2>4. acting = a
    BY <1>1, <2>1, <2>3 DEF RecordComplete
  <2>5. ledger[a].marks = UpTo(1, 9)
    BY <2>3, <2>4 DEF ServerInv, MarksInv, RecordComplete, OwnerAt, BusyAt, Passed
  <2>6. ledger'[a].marks = ledger[a].marks
    BY <1>1, <2>3, <2>4, IdFacts DEF RecordComplete, Completed, Ensured, Record,
       IInv, OwnerInv, OwnerAt, BusyAt, Running
  <2> QED
    BY <2>5, <2>6, LastMark
<1> QED
  BY <1>2, <1>3

LEMMA ServerStays == ServerInv /\ [Next]_vars => ServerInv'
<1>1. ServerInv /\ [Next]_vars => FateInv'
  <2> SUFFICES ASSUME ServerInv, [Next]_vars PROVE FateInv'
    OBVIOUS
  <2>1. FateInv
    BY DEF ServerInv
  <2> QED
    BY <2>1, FateStep
<1>2. ServerInv /\ [Next]_vars => MarksInv'
  BY MarksStep DEF ServerInv, FateInv
<1> QED
  BY <1>1, <1>2, FinishedStep DEF ServerInv

LEMMA ServerBegins == Init => ServerInv
<1>1. Init => MarksInv /\ FateInv
  BY InitHolds, MarksInit, FateBegins
<1>2. Init => FinishedInv
  BY IdFacts DEF Init, FinishedInv, Complete, Absent, Started
<1> QED
  BY <1>1, <1>2 DEF ServerInv

-----------------------------------------------------------------------------
(* The benchmark *)

Inbound == [kind : {"ready", "complete", "error", "frame", "replaced"},
            id : Actions \cup {NoAction}]
Outbound == [kind : {"action", "telemetry"}, id : Ids] \cup {Message("quit", NoAction)}

\* What a message says of the ledger: a record sent as complete is complete.
True(m) == m.kind = "complete" /\ m.id \in Ids => Complete(m.id)

InboxTrue == \A i \in 1..Len(inbox) : True(inbox[i])

BenchInv ==
    /\ asked \in 0..MaxId
    /\ encoding \in Seq(Actions)
    /\ inbox \in Seq(Inbound)
    /\ outbox \in Seq(Outbound)
    /\ InboxTrue
    /\ gotRecord /\ asked # 0 => Complete(asked)
    /\ \A a \in Ids : a < asked => Complete(a)

LEMMA BenchBegins == BenchInit => BenchInv
<1>1. asked = 0 /\ MaxId \in Nat => asked \in 0..MaxId /\ \A a \in Ids : ~(a < asked)
  BY DEF Ids
<1> QED
  BY <1>1, IdFacts DEF BenchInit, BenchInv, InboxTrue

\* A step of the owner tells the client nothing, or one thing that is true by
\* the time it is told.
LEMMA PublishedIsTrue ==
    ASSUME FateInv, OwnerStep \/ OwnerFails
    PROVE  Published = <<>> \/ \E m \in Inbound : Published = <<m>> /\ True(m)'
<1>0. acting \in Actions /\ ledger \in [Actions -> Record]
  BY DEF FateInv, IInv, TypeOK
<1>1. CASE pc = "record"
  <2>1. RecordComplete
    BY <1>1 DEF OwnerStep, GenerateStep, Prepare, TakeQuit, TakePending, Select,
       StartGeneration, Generate, Denoise, PresentFirst, CommitClean, DrainTails,
       BecomeReady, MailboxComplete, Cleanup, FinishOwner, OwnerFails, MayFail, OwnerAt
  <2>2. error' = error
    BY <2>1 DEF RecordComplete
  <2>3. Published = <<Message("complete", acting)>>
    BY <1>1, <2>2 DEF Published
  <2>4. ledger'[acting].status = "complete"
    BY <1>0, <2>1 DEF RecordComplete, Completed, Ensured, Started, Record
  <2>5. PICK m \in Inbound : m = Message("complete", acting)
    BY <1>0 DEF Message, Inbound
  <2>6. m.id \in Ids => ledger'[m.id].status = "complete"
    BY <2>4, <2>5 DEF Message
  <2> QED
    BY <2>3, <2>5, <2>6 DEF True, Complete
<1>2. CASE pc # "record"
  <2>1. pc \in {"wait_encoded", "complete"} => error' = error
    BY DEF OwnerStep, GenerateStep, Prepare, TakeQuit, TakePending, Select,
       StartGeneration, Generate, Denoise, PresentFirst, CommitClean, DrainTails,
       BecomeReady, MailboxComplete, Cleanup, FinishOwner, OwnerFails, MayFail, OwnerAt,
       RecordComplete
  <2>2. \/ Published = <<Message("ready", NoAction)>>
        \/ Published = <<Message("error", NoAction)>>
        \/ Published = <<>>
    BY <1>2, <2>1 DEF Published
  <2>3. \A k \in {"ready", "error"} :
            Message(k, NoAction) \in Inbound /\ True(Message(k, NoAction))'
    BY DEF Message, True, Inbound
  <2> QED
    BY <2>2, <2>3
<1> QED
  BY <1>1, <1>2

\* What was true of the client stays true when the server moves on.
Truthful ==
    /\ \A m \in Inbound : True(m) => True(m)'
    /\ gotRecord /\ asked # 0 => ledger'[asked].status = "complete"
    /\ \A a \in Ids : a < asked => ledger'[a].status = "complete"

LEMMA TruthStays ==
    ASSUME FateInv, BenchInv, [Next]_vars
    PROVE  Truthful
<1>1. \A a \in Ids : Complete(a) => ledger'[a].status = "complete"
  BY CompleteStays DEF Complete
<1>2. gotRecord /\ asked # 0 => asked \in Ids
  BY IdFacts DEF BenchInv, Ids
<1>3. \A m \in Inbound : True(m) => True(m)'
  BY <1>1 DEF True, Complete
<1> QED
  BY <1>1, <1>2, <1>3 DEF BenchInv, Truthful

LEMMA Appended ==
    ASSUME NEW S, NEW s \in Seq(S), NEW m \in S
    PROVE  /\ Append(s, m) \in Seq(S) /\ s \o <<m>> = Append(s, m) /\ s \o <<>> = s
           /\ \A i \in 1..Len(Append(s, m)) :
                  Append(s, m)[i] = m \/ (i \in 1..Len(s) /\ Append(s, m)[i] = s[i])
  OBVIOUS

LEMMA HeadTaken ==
    ASSUME NEW S, NEW s \in Seq(S), s # <<>>
    PROVE  /\ Head(s) \in S /\ Head(s) = s[1] /\ 1 \in 1..Len(s) /\ Tail(s) \in Seq(S)
           /\ \A i \in 1..Len(Tail(s)) : i + 1 \in 1..Len(s) /\ Tail(s)[i] = s[i + 1]
  OBVIOUS

\* Whatever the benchmark and the network do, the server takes its own steps.
LEMMA BenchServer == BenchInv /\ [BenchNext]_allVars => [Next]_vars
<1> SUFFICES ASSUME BenchInv, [BenchNext]_allVars PROVE [Next]_vars
  OBVIOUS
<1>1. CASE Receive
  <2> DEFINE m == Head(outbox)
  <2>1. m \in Outbound
    BY <1>1, HeadTaken DEF BenchInv, Receive
  <2>2. m.kind # "quit" => m.id \in Ids /\ m.id \in Actions
    BY <2>1, IdFacts DEF Outbound, Message
  <2> HIDE DEF m
  <2>3. \/ m.kind = "action" /\ SubmitAction(m.id)
        \/ UNCHANGED vars
        \/ m.kind = "telemetry" /\ BrowserTelemetry(m.id)
        \/ RequestQuit
    BY <1>1 DEF Receive, m
  <2> QED
    BY <2>2, <2>3 DEF Next, ClientMessage
<1>2. CASE Owner(OwnerStep) \/ Owner(OwnerFails)
  BY <1>2 DEF Owner, Next
<1>3. CASE Handler \/ Server(ServerStep) \/ Server(Signal)
  BY <1>3 DEF Handler, Server, Next
<1>4. CASE Encode \/ ClientStep \/ TimesOut \/ (Ended /\ UNCHANGED allVars) \/ UNCHANGED allVars
  BY <1>4 DEF Encode, ClientStep, TimesOut, AwaitReady, SendAction, Reading, ReadFrame,
     ReadRecord, ReadError, ReadReady, Quit, Closed, allVars
<1> QED
  BY <1>1, <1>2, <1>3, <1>4 DEF BenchNext

\* The inbox when a message has been added to it, or taken from it.
LEMMA InboxGrows ==
    ASSUME BenchInv, Truthful, NEW m \in Inbound, True(m)', inbox' = Append(inbox, m)
    PROVE  inbox' \in Seq(Inbound) /\ InboxTrue'
<1>1. inbox \in Seq(Inbound) /\ \A i \in 1..Len(inbox) : True(inbox[i])
  BY DEF BenchInv, InboxTrue
<1>2. inbox' \in Seq(Inbound)
  BY <1>1, Appended
<1>3. ASSUME NEW i \in 1..Len(inbox') PROVE True(inbox[i])'
  <2>1. inbox'[i] = m \/ (i \in 1..Len(inbox) /\ inbox'[i] = inbox[i])
    BY <1>1, Appended
  <2>2. PICK n \in Inbound : n = inbox'[i] /\ True(n)'
    BY <1>1, <2>1 DEF Truthful
  <2> QED
    BY <2>2 DEF True, Complete
<1> QED
  BY <1>2, <1>3 DEF InboxTrue

LEMMA InboxKept ==
    ASSUME BenchInv, Truthful, inbox' = inbox \/ (inbox # <<>> /\ inbox' = Tail(inbox))
    PROVE  inbox' \in Seq(Inbound) /\ InboxTrue'
<1>1. inbox \in Seq(Inbound) /\ \A i \in 1..Len(inbox) : True(inbox[i])
  BY DEF BenchInv, InboxTrue
<1>2. inbox' \in Seq(Inbound)
  BY <1>1, HeadTaken
<1>3. ASSUME NEW i \in 1..Len(inbox') PROVE True(inbox[i])'
  <2>1. \E j \in 1..Len(inbox) : inbox'[i] = inbox[j]
    BY <1>1, HeadTaken
  <2>2. PICK n \in Inbound : n = inbox'[i] /\ True(n)'
    BY <1>1, <2>1 DEF Truthful
  <2> QED
    BY <2>2 DEF True, Complete
<1> QED
  BY <1>2, <1>3 DEF InboxTrue

\* The owner's messages and the frames of the JPEG thread.
LEMMA InboxSteps ==
    ASSUME FateInv, BenchInv, Truthful, [BenchNext]_allVars
    PROVE  inbox' \in Seq(Inbound) /\ InboxTrue'
<1>0. inbox \in Seq(Inbound) /\ encoding \in Seq(Actions)
  BY DEF BenchInv
<1>1. CASE Owner(OwnerStep) \/ Owner(OwnerFails)
  <2>1. inbox' = inbox \o Published /\ (OwnerStep \/ OwnerFails)
    BY <1>1 DEF Owner
  <2>2. CASE Published = <<>>
    BY <1>0, <2>1, <2>2, InboxKept
  <2>3. CASE Published # <<>>
    <3>1. PICK m \in Inbound : Published = <<m>> /\ True(m)'
      BY <2>1, <2>3, PublishedIsTrue
    <3>2. inbox' = Append(inbox, m)
      BY <1>0, <2>1, <3>1, Appended
    <3> QED
      BY <3>1, <3>2, InboxGrows
  <2> QED
    BY <2>2, <2>3
<1>2. CASE Encode
  <2>1. Head(encoding) \in Actions
    BY <1>0, <1>2, HeadTaken DEF Encode
  <2>2. PICK m \in Inbound : m = Message("frame", Head(encoding))
    BY <2>1 DEF Message, Inbound
  <2>3. True(m)' /\ inbox' = Append(inbox, m)
    BY <1>2, <2>2 DEF Encode, Message, True
  <2> QED
    BY <2>3, InboxGrows
<1>3. CASE Handler
  <2>1. CASE handler.at = "replace"
    <3>1. handler.old \in Ids
      BY <2>1 DEF FateInv, IInv, HandlerInv
    <3>2. PICK m \in Inbound : m = Message("replaced", handler.old)
      BY <3>1, IdFacts DEF Message, Inbound
    <3>3. True(m)' /\ inbox' = Append(inbox, m)
      BY <1>3, <2>1, <3>2 DEF Handler, Message, True
    <3> QED
      BY <3>3, InboxGrows
  <2>2. CASE handler.at # "replace"
    BY <1>3, <2>2, InboxKept DEF Handler
  <2> QED
    BY <2>1, <2>2
<1>4. CASE Receive \/ Server(ServerStep) \/ Server(Signal) \/ ClientStep \/ TimesOut
           \/ (Ended /\ UNCHANGED allVars) \/ UNCHANGED allVars
  <2>1. inbox' = inbox \/ (inbox # <<>> /\ inbox' = Tail(inbox))
    BY <1>4 DEF Receive, Server, ClientStep, TimesOut, AwaitReady, SendAction, Reading,
       ReadFrame, ReadRecord, ReadError, ReadReady, Quit, Closed, allVars, benchVars
  <2> QED
    BY <2>1, InboxKept
<1> QED
  BY <1>1, <1>2, <1>3, <1>4 DEF BenchNext

LEMMA BenchStep ==
    ASSUME FateInv, BenchInv, [BenchNext]_allVars
    PROVE  BenchInv'
<1>0. /\ asked \in 0..MaxId /\ encoding \in Seq(Actions) /\ inbox \in Seq(Inbound)
      /\ outbox \in Seq(Outbound) /\ MaxId \in Nat /\ acting \in Actions
  BY IdFacts DEF BenchInv, FateInv, IInv, TypeOK
<1>1. Truthful
  BY BenchServer, TruthStays
<1>2. inbox' \in Seq(Inbound) /\ InboxTrue'
  BY <1>1, InboxSteps
<1>3. CASE SendAction
  <2>1. asked' = asked + 1 /\ asked' \in Ids /\ gotRecord' = FALSE /\ encoding' = encoding
    BY <1>0, <1>3 DEF SendAction, Ids
  <2>2. PICK m \in Outbound : m = Message("action", asked')
    BY <2>1 DEF Message, Outbound
  <2>3. outbox' \in Seq(Outbound)
    BY <1>0, <1>3, <2>1, <2>2, Appended DEF SendAction
  <2>4. asked # 0 => ledger'[asked].status = "complete"
    BY <1>1, <1>3 DEF SendAction, Answered, Truthful
  <2>5. ASSUME NEW a \in Ids, a < asked' PROVE ledger'[a].status = "complete"
    <3>1. a < asked \/ (a = asked /\ asked # 0)
      BY <1>0, <2>1, <2>5 DEF Ids
    <3> QED
      BY <1>1, <2>4, <3>1 DEF Truthful
  <2> QED
    BY <1>0, <1>2, <2>1, <2>3, <2>5, SMTT(30) DEF BenchInv, Complete, Ids
<1>4. CASE ReadRecord
  <2> DEFINE m == Head(inbox)
  <2>1. m \in Inbound /\ True(m) /\ asked # 0 /\ asked \in Ids
    BY <1>0, <1>4, HeadTaken DEF ReadRecord, Reading, BenchInv, InboxTrue, Answered, Ids
  <2> HIDE DEF m
  <2>2. /\ gotRecord' = IF m.id = asked THEN m.kind = "complete" ELSE gotRecord
        /\ UNCHANGED <<asked, encoding, outbox>>
    BY <1>4 DEF ReadRecord, Reading, m
  <2>3. gotRecord' => ledger'[asked].status = "complete"
    <3>1. CASE m.id = asked
      BY <1>1, <2>1, <2>2, <3>1 DEF Truthful, True, Complete
    <3>2. CASE m.id # asked
      BY <1>1, <2>1, <2>2, <3>2 DEF Truthful
    <3> QED
      BY <3>1, <3>2
  <2> QED
    BY <1>0, <1>1, <1>2, <2>2, <2>3 DEF BenchInv, Truthful, Complete
<1>5. CASE ReadFrame \/ Quit
  <2>1. /\ UNCHANGED <<asked, gotRecord, encoding>>
        /\ outbox' = outbox \/ \E m \in Outbound : outbox' = Append(outbox, m)
    <3>1. CASE ReadFrame
      <4>1. asked \in Ids
        BY <1>0, <3>1 DEF ReadFrame, Reading, Answered, Ids
      <4>2. Message("telemetry", asked) \in Outbound
        BY <4>1 DEF Message, Outbound
      <4> QED
        BY <3>1, <4>2 DEF ReadFrame, Reading
    <3>2. CASE Quit
      BY <3>2 DEF Quit, Outbound
    <3> QED
      BY <1>5, <3>1, <3>2
  <2>2. outbox' \in Seq(Outbound)
    <3>1. CASE outbox' = outbox
      BY <1>0, <3>1
    <3>2. ASSUME NEW m \in Outbound, outbox' = Append(outbox, m)
          PROVE  outbox' \in Seq(Outbound)
      BY <1>0, <3>2, Appended
    <3> QED
      BY <2>1, <3>1, <3>2
  <2> QED
    BY <1>0, <1>1, <1>2, <2>1, <2>2 DEF BenchInv, Truthful, Complete
<1>6. CASE Receive \/ Encode
  <2>1. UNCHANGED <<asked, gotRecord>>
    BY <1>6 DEF Receive, Encode, clientVars
  <2>2. outbox' \in Seq(Outbound) /\ encoding' \in Seq(Actions)
    BY <1>0, <1>6, HeadTaken DEF Receive, Encode
  <2> QED
    BY <1>0, <1>1, <1>2, <2>1, <2>2 DEF BenchInv, Truthful, Complete
<1>7. CASE Owner(OwnerStep) \/ Owner(OwnerFails)
  <2>1. UNCHANGED <<asked, gotRecord, outbox>>
    BY <1>7 DEF Owner, clientVars
  <2>2. encoding' = Append(encoding, acting) \/ encoding' = encoding
    BY <1>7 DEF Owner
  <2>3. encoding' \in Seq(Actions)
    <3>1. Append(encoding, acting) \in Seq(Actions)
      BY <1>0, Appended
    <3> QED
      BY <1>0, <2>2, <3>1
  <2> QED
    BY <1>0, <1>1, <1>2, <2>1, <2>3 DEF BenchInv, Truthful, Complete
<1>8. CASE Handler \/ Server(ServerStep) \/ Server(Signal) \/ AwaitReady \/ ReadError
           \/ ReadReady \/ Closed \/ TimesOut \/ (Ended /\ UNCHANGED allVars)
           \/ UNCHANGED allVars
  <2>1. UNCHANGED <<asked, gotRecord, outbox, encoding>>
    BY <1>8 DEF Handler, Server, AwaitReady, ReadError, ReadReady, Closed, TimesOut,
       Reading, allVars, benchVars, clientVars
  <2> QED
    BY <1>0, <1>1, <1>2, <2>1 DEF BenchInv, Truthful, Complete
<1> QED
  BY <1>3, <1>4, <1>5, <1>6, <1>7, <1>8 DEF BenchNext, ClientStep

-----------------------------------------------------------------------------
(* The pages *)

States == [next : 0..(MaxKeys + 1), due : BOOLEAN]

\* An id is on record as a key when a page's key was accepted under it, and a
\* page accepts under every id at most once: it has passed those it has used.
PagesInv ==
    /\ acceptedOf \in [Ids -> Pages \cup {NoPage}]
    /\ page \in [Pages -> States]
    /\ \A p \in Pages : page[p].due => page[p].next \in 1..MaxKeys
    /\ \A a \in Ids : acceptedOf[a] # NoPage <=> ledger[a].label = "key"
    /\ \A a \in Ids, p \in Pages :
           acceptedOf[a] = p => a < page[p].next \/ (a = page[p].next /\ page[p].due)
    /\ duplicates \subseteq [page : Pages, id : Ids]
    /\ DuplicatesAreReal

LEMMA PageFacts ==
    /\ MaxKeys \in Nat /\ 1..MaxKeys \subseteq Ids /\ NoPage \notin Pages
    /\ \A p \in Pages : p \in Nat
  BY PagesAssumption, IdFacts DEF Ids, Pages

LEMMA PagesBegin == Init /\ PagesInit => PagesInv
<1> SUFFICES ASSUME Init, PagesInit PROVE PagesInv
  OBVIOUS
<1>1. \A a \in Ids : ledger[a].label # "key" /\ acceptedOf[a] = NoPage
  BY IdFacts DEF Init, PagesInit, Absent, Started
<1>2. page \in [Pages -> States]
      /\ \A p \in Pages : ~page[p].due
  BY PageFacts DEF PagesInit, NotLoaded, States
<1> QED
  BY <1>1, <1>2, PageFacts DEF PagesInit, PagesInv, DuplicatesAreReal

\* No step of the server makes a key of a record, or takes one back.
LEMMA LabelsStay ==
    ASSUME IInv, OwnerStep \/ OwnerFails \/ HandlerStep \/ ServerStep \/ Signal,
           NEW a \in Ids
    PROVE  ledger'[a].label = "key" <=> ledger[a].label = "key"
<1>1. [Next]_vars
  BY DEF Next
<1>2. ledger[a].label = "key" => ledger'[a].label = "key"
  BY <1>1, KeyMarksStay
<1>3. /\ ledger \in [Actions -> Record] /\ acting \in Actions /\ a \in Actions
      /\ a # Bootstrap
  BY IdFacts DEF IInv, TypeOK
<1>4. CASE ledger' = ledger
  BY <1>4
<1>5. CASE LedgerReplace
  <2>1. handler.old \in Ids /\ handler.old \in Actions /\ ledger[handler.old].label = "key"
    BY <1>5, IdFacts DEF IInv, HandlerInv, LedgerReplace, Running
  <2>2. a # handler.old => ledger'[a] = ledger[a]
    BY <1>3, <1>5 DEF LedgerReplace
  <2> QED
    BY <1>2, <2>1, <2>2
<1>6. CASE Select \/ GenerateStep
  <2>1. pc \in BusyAt
    BY <1>6 DEF Select, GenerateStep, StartGeneration, Generate, Denoise, PresentFirst,
       CommitClean, DrainTails, RecordComplete, OwnerAt, BusyAt
  <2>2. acting = a => ledger[a].label = "key"
    BY <1>3, <2>1 DEF IInv, OwnerInv, Running
  <2>3. acting # a => ledger'[a] = ledger[a]
    BY <1>3, <1>6 DEF Select, GenerateStep, StartGeneration, Generate, Denoise,
       PresentFirst, CommitClean, DrainTails, RecordComplete
  <2> QED
    BY <1>2, <2>2, <2>3
<1> QED
  BY <1>4, <1>5, <1>6 DEF OwnerStep, HandlerStep, ServerStep, Signal, MailboxSubmit,
     Prepare, TakeQuit, TakePending, BecomeReady, MailboxComplete, OwnerFails, Cleanup,
     FinishOwner, PollFinished, WaitEnds, WriteReport, Exit, Interrupt, InterruptAgain,
     Killed

\* Nor does telemetry.
LEMMA TelemetryLabels ==
    ASSUME IInv, NEW b \in Actions, BrowserTelemetry(b), NEW a \in Ids
    PROVE  ledger'[a].label = "key" <=> ledger[a].label = "key"
<1>1. ledger \in [Actions -> Record] /\ a \in Actions
  BY IdFacts DEF IInv, TypeOK
<1> QED
  BY <1>1, EnsuredRecord DEF BrowserTelemetry

\* Whatever the pages do, the server takes its own steps.
LEMMA PagesServer == PagesInv /\ [PagesNext]_<<vars, pageVars>> => [Next]_vars
<1> SUFFICES ASSUME PagesInv, [PagesNext]_<<vars, pageVars>> PROVE [Next]_vars
  OBVIOUS
<1>1. ASSUME NEW p \in Pages, Open(p) \/ Key(p) \/ KeyTelemetry(p) \/ QuitKey(p)
      PROVE  [Next]_vars
  <2>1. page[p].next \in 1..MaxKeys \/ ~page[p].due
    BY DEF PagesInv
  <2>2. CASE Open(p)
    BY <2>2 DEF Open
  <2>3. CASE Key(p)
    BY <2>3, PageFacts DEF Key, KeyOf, Next, ClientMessage
  <2>4. CASE KeyTelemetry(p)
    BY <2>1, <2>4, PageFacts, IdFacts DEF KeyTelemetry, Next, ClientMessage
  <2>5. CASE QuitKey(p)
    BY <2>5 DEF QuitKey, Next, ClientMessage
  <2> QED
    BY <1>1, <2>2, <2>3, <2>4, <2>5
<1> QED
  BY <1>1 DEF PagesNext, PageStep, Next

\* A page that has moved on, whoever else has done something.
LEMMA PagesKept ==
    ASSUME PagesInv, NEW p \in Pages, page' \in [Pages -> States],
           \A q \in Pages : q # p => page'[q] = page[q],
           UNCHANGED <<acceptedOf, duplicates>>,
           page'[p].due => page'[p].next \in 1..MaxKeys,
           \A a \in Ids : ledger'[a].label = "key" <=> ledger[a].label = "key",
           \A a \in Ids : a < page[p].next \/ (a = page[p].next /\ page[p].due)
                             => a < page'[p].next \/ (a = page'[p].next /\ page'[p].due)
    PROVE  PagesInv'
<1>1. ASSUME NEW a \in Ids, NEW q \in Pages, acceptedOf'[a] = q
      PROVE  a < page'[q].next \/ (a = page'[q].next /\ page'[q].due)
  BY <1>1 DEF PagesInv
<1>2. \A q \in Pages : page'[q].due => page'[q].next \in 1..MaxKeys
  BY DEF PagesInv
<1> QED
  BY <1>1, <1>2 DEF PagesInv, DuplicatesAreReal

LEMMA NowDue ==
    ASSUME page \in [Pages -> States], NEW p \in Pages, page' = [page EXCEPT ![p].due = TRUE]
    PROVE  /\ page' \in [Pages -> States] /\ page'[p].next = page[p].next /\ page'[p].due
           /\ \A q \in Pages : q # p => page'[q] = page[q]
<1>1. page'[p].next = page[p].next
  BY DEF States
<1>2. page'[p].due
  BY DEF States
<1>3. page' \in [Pages -> States]
  BY DEF States
<1> QED
  BY <1>1, <1>2, <1>3

\* The key of a page: its id is one that this page has not used before, so a
\* record that stands in its way is another page's.
LEMMA KeyStep ==
    ASSUME IInv, PagesInv, NEW p \in Pages, Key(p)
    PROVE  PagesInv'
<1> DEFINE a == page[p].next
<1>0. /\ a \in 1..MaxKeys /\ a \in Ids /\ a \in Actions /\ ~page[p].due
      /\ ledger \in [Actions -> Record] /\ KeyOf(p, a)
      /\ page' \in [Pages -> States] /\ page'[p].next = a /\ page'[p].due
      /\ \A q \in Pages : q # p => page'[q] = page[q]
  <2>1. a \in 1..MaxKeys /\ ~page[p].due /\ KeyOf(p, a)
    BY DEF Key
  <2>2. page \in [Pages -> States] /\ page' = [page EXCEPT ![p].due = TRUE]
    BY DEF Key, PagesInv, States
  <2> QED
    BY <2>1, <2>2, NowDue, PageFacts, IdFacts DEF IInv, TypeOK
<1>1. acceptedOf[a] # p
  BY <1>0 DEF PagesInv
<1> HIDE DEF a
<1>2. CASE /\ SubmitAction(a) /\ acceptedOf' = [acceptedOf EXCEPT ![a] = p]
           /\ UNCHANGED duplicates
  <2>1. /\ ledger'[a].label = "key" /\ \A b \in Ids : b # a => ledger'[b] = ledger[b]
        /\ Fresh(a)
    <3>1. Started("key", {"input_received"}).label = "key"
      BY DEF Started
    <3> QED
      BY <1>0, <1>2, <3>1, IdFacts DEF SubmitAction
  <2>2. acceptedOf[a] = NoPage
    BY <1>0, <2>1 DEF PagesInv, Fresh
  <2>3. /\ acceptedOf' \in [Ids -> Pages \cup {NoPage}] /\ acceptedOf'[a] = p
        /\ \A b \in Ids : b # a => acceptedOf'[b] = acceptedOf[b]
    BY <1>0, <1>2 DEF PagesInv
  <2>4. ASSUME NEW b \in Ids
        PROVE  acceptedOf'[b] # NoPage <=> ledger'[b].label = "key"
    <3>1. CASE b = a
      BY <2>1, <2>3, <3>1, PageFacts
    <3>2. CASE b # a
      BY <2>1, <2>3, <3>2 DEF PagesInv
    <3> QED
      BY <3>1, <3>2
  <2>5. ASSUME NEW b \in Ids, NEW q \in Pages, acceptedOf'[b] = q
        PROVE  b < page'[q].next \/ (b = page'[q].next /\ page'[q].due)
    <3>1. CASE b = a
      BY <1>0, <2>3, <2>5, <3>1
    <3>2. CASE b # a
      <4>1. b < page[q].next \/ (b = page[q].next /\ page[q].due)
        BY <2>3, <2>5, <3>2 DEF PagesInv
      <4> QED
        BY <1>0, <4>1 DEF a
    <3> QED
      BY <3>1, <3>2
  <2>6. DuplicatesAreReal'
    BY <1>2, <2>2, <2>3 DEF PagesInv, DuplicatesAreReal
  <2>7. \A q \in Pages : page'[q].due => page'[q].next \in 1..MaxKeys
    BY <1>0 DEF PagesInv
  <2> QED
    BY <1>0, <1>2, <2>3, <2>4, <2>5, <2>6, <2>7 DEF PagesInv, States
<1>3. CASE ~ready /\ UNCHANGED <<vars, acceptedOf, duplicates>>
  <2>1. ledger' = ledger /\ UNCHANGED <<acceptedOf, duplicates>>
    BY <1>3 DEF vars
  <2>2. \A b \in Ids : b < page[p].next \/ (b = page[p].next /\ page[p].due)
                            => b < page'[p].next \/ (b = page'[p].next /\ page'[p].due)
    BY <1>0 DEF a
  <2> QED
    BY <1>0, <2>1, <2>2, PagesKept
<1>4. CASE /\ ~Fresh(a) /\ UNCHANGED <<vars, acceptedOf>>
           /\ duplicates' = duplicates \cup {[page |-> p, id |-> a]}
  <2>1. acceptedOf[a] \notin {NoPage, p}
    <3>1. ledger[a].label = "key"
      BY <1>0, <1>4 DEF Fresh, IInv, LabelInv, Record
    <3> QED
      BY <1>0, <1>1, <3>1 DEF PagesInv
  <2>2. DuplicatesAreReal' /\ duplicates' \subseteq [page : Pages, id : Ids]
    BY <1>0, <1>4, <2>1 DEF PagesInv, DuplicatesAreReal
  <2>3. ASSUME NEW b \in Ids, NEW q \in Pages, acceptedOf'[b] = q
        PROVE  b < page'[q].next \/ (b = page'[q].next /\ page'[q].due)
    BY <1>0, <1>4, <2>3 DEF PagesInv, a
  <2>4. \A q \in Pages : page'[q].due => page'[q].next \in 1..MaxKeys
    BY <1>0 DEF PagesInv
  <2> QED
    BY <1>0, <1>4, <2>2, <2>3, <2>4 DEF PagesInv, vars, States
<1> QED
  BY <1>0, <1>2, <1>3, <1>4 DEF KeyOf

LEMMA MovedOn ==
    ASSUME page \in [Pages -> States], NEW p \in Pages, NEW n \in 0..(MaxKeys + 1),
           \/ page' = [page EXCEPT ![p].next = n]
           \/ page' = [page EXCEPT ![p].next = n, ![p].due = FALSE]
    PROVE  /\ page' \in [Pages -> States] /\ page'[p].next = n
           /\ page'[p].due => page[p].due
           /\ \A q \in Pages : q # p => page'[q] = page[q]
<1> DEFINE moved == [page EXCEPT ![p].next = n]
<1>1. /\ moved \in [Pages -> States] /\ moved[p].next = n /\ moved[p].due = page[p].due
      /\ \A q \in Pages : q # p => moved[q] = page[q]
  <2>1. moved[p].next = n
    BY DEF States
  <2>2. moved[p].due = page[p].due
    BY DEF States
  <2>3. moved \in [Pages -> States]
    BY DEF States
  <2> QED
    BY <2>1, <2>2, <2>3
<1>2. page' = moved \/ page' = [moved EXCEPT ![p].due = FALSE]
  OBVIOUS
<1> HIDE DEF moved
<1>3. CASE page' = moved
  BY <1>1, <1>3
<1>4. CASE page' = [moved EXCEPT ![p].due = FALSE]
  <2>1. page'[p].next = n
    BY <1>1, <1>4 DEF States
  <2>2. ~page'[p].due
    BY <1>1, <1>4 DEF States
  <2>3. page' \in [Pages -> States]
    <3>1. moved[p] \in States /\ page'[p] = [moved[p] EXCEPT !.due = FALSE]
      BY <1>1, <1>4
    <3>2. page'[p] \in States
      BY <3>1 DEF States
    <3> QED
      BY <1>1, <1>4, <3>2
  <2> QED
    BY <1>1, <1>4, <2>1, <2>2, <2>3
<1> QED
  BY <1>2, <1>3, <1>4

LEMMA OtherPageSteps ==
    ASSUME IInv, PagesInv, NEW p \in Pages, Open(p) \/ KeyTelemetry(p) \/ QuitKey(p)
    PROVE  PagesInv'
<1>0. /\ page \in [Pages -> States] /\ page[p].next \in 0..(MaxKeys + 1)
      /\ page[p].due => page[p].next \in 1..MaxKeys
      /\ MaxKeys \in Nat /\ Ids \subseteq Nat
  <2>1. page \in [Pages -> States]
    BY DEF PagesInv
  <2>2. page[p].next \in 0..(MaxKeys + 1)
    BY <2>1 DEF States
  <2> QED
    BY <2>1, <2>2, PageFacts, IdFacts DEF PagesInv, Ids
<1>1. CASE Open(p)
  <2>1. /\ page[p].next = 0 /\ ~page[p].due /\ ledger' = ledger
        /\ UNCHANGED <<acceptedOf, duplicates>>
    BY <1>1 DEF Open, NotLoaded, vars
  <2>2. PICK n \in 1..MaxKeys : page' = [page EXCEPT ![p].next = n]
    BY <1>1 DEF Open
  <2>3. n \in 0..(MaxKeys + 1)
    BY <1>0
  <2>4. /\ page' \in [Pages -> States] /\ page'[p].next = n /\ ~page'[p].due
        /\ \A q \in Pages : q # p => page'[q] = page[q]
    BY <1>0, <2>1, <2>2, <2>3, MovedOn
  <2>5. \A a \in Ids : ~(a < page[p].next) /\ a # 0
    BY <2>1 DEF Ids
  <2> QED
    BY <2>1, <2>4, <2>5, PagesKept
<1>2. CASE KeyTelemetry(p) \/ QuitKey(p)
  <2> DEFINE n == page[p].next + 1
  <2>1. /\ page[p].next \in 1..MaxKeys /\ UNCHANGED <<acceptedOf, duplicates>>
        /\ page[p].next \in Actions
    BY <1>0, <1>2, PageFacts, IdFacts DEF KeyTelemetry, QuitKey
  <2>2. \/ page' = [page EXCEPT ![p].next = n]
        \/ page' = [page EXCEPT ![p].next = n, ![p].due = FALSE]
    BY <1>2 DEF KeyTelemetry, QuitKey
  <2>3. n \in 0..(MaxKeys + 1)
    BY <1>0, <2>1
  <2>4. /\ page' \in [Pages -> States] /\ page'[p].next = n /\ ~page'[p].due
        /\ \A q \in Pages : q # p => page'[q] = page[q]
    <3> HIDE DEF n
    <3>1. /\ page' \in [Pages -> States] /\ page'[p].next = n
          /\ page'[p].due => page[p].due
          /\ \A q \in Pages : q # p => page'[q] = page[q]
      BY <1>0, <2>2, <2>3, MovedOn
    <3>2. ~page'[p].due
      <4>1. CASE KeyTelemetry(p)
        BY <1>0, <4>1 DEF KeyTelemetry, States
      <4>2. CASE QuitKey(p)
        BY <3>1, <4>2 DEF QuitKey
      <4> QED
        BY <1>2, <4>1, <4>2
    <3> QED
      BY <3>1, <3>2
  <2>5. \A a \in Ids : ledger'[a].label = "key" <=> ledger[a].label = "key"
    <3>1. CASE KeyTelemetry(p)
      BY <2>1, <3>1, TelemetryLabels DEF KeyTelemetry
    <3>2. CASE QuitKey(p)
      BY <3>2 DEF QuitKey, RequestQuit
    <3> QED
      BY <1>2, <3>1, <3>2
  <2>6. \A a \in Ids : a < page[p].next \/ (a = page[p].next /\ page[p].due) => a < n
    BY <1>0, <2>1
  <2> HIDE DEF n
  <2> QED
    BY <2>1, <2>4, <2>5, <2>6, PagesKept
<1> QED
  BY <1>1, <1>2

LEMMA PagesNextStep ==
    ASSUME IInv, PagesInv, [PagesNext]_<<vars, pageVars>>
    PROVE  PagesInv'
<1>1. CASE PageStep
  BY <1>1, KeyStep, OtherPageSteps DEF PageStep
<1>2. CASE (OwnerStep \/ OwnerFails \/ HandlerStep \/ ServerStep \/ Signal)
               /\ UNCHANGED pageVars
  <2>1. \A a \in Ids : ledger'[a].label = "key" <=> ledger[a].label = "key"
    BY <1>2, LabelsStay
  <2> QED
    BY <1>2, <2>1 DEF PagesInv, pageVars, DuplicatesAreReal
<1>3. CASE UNCHANGED <<vars, pageVars>>
  BY <1>3 DEF PagesInv, pageVars, vars, DuplicatesAreReal
<1> QED
  BY <1>1, <1>2, <1>3 DEF PagesNext

-----------------------------------------------------------------------------
(* One of the two clients *)

\* The client that is not there has not begun.
ClientsInv ==
    /\ clientKind \in {"benchmark", "pages"}
    /\ ServerInv
    /\ clientKind = "benchmark" => BenchInv /\ duplicates = {}
    /\ clientKind = "pages" => PagesInv /\ asked = 0

LEMMA ClientsStep == ClientsInv /\ [ClientsNext]_clientsVars => ClientsInv' /\ [Next]_vars
<1> SUFFICES ASSUME ClientsInv, [ClientsNext]_clientsVars PROVE ClientsInv' /\ [Next]_vars
  OBVIOUS
<1>0. ServerInv /\ FateInv /\ IInv
  BY DEF ClientsInv, ServerInv, FateInv
<1>1. CASE clientKind = "benchmark"
  <2>1. [BenchNext]_allVars /\ UNCHANGED <<clientKind, pageVars>>
    BY <1>1 DEF ClientsNext, Benchmark, clientsVars
  <2>2. BenchInv
    BY <1>1 DEF ClientsInv
  <2>3. [Next]_vars /\ BenchInv'
    BY <1>0, <2>1, <2>2, BenchServer, BenchStep
  <2>4. ServerInv'
    BY <1>0, <2>3, ServerStays
  <2> QED
    BY <1>1, <2>1, <2>3, <2>4 DEF ClientsInv, pageVars
<1>2. CASE clientKind = "pages"
  <2>1. [PagesNext]_<<vars, pageVars>> /\ UNCHANGED <<clientKind, benchVars>>
    BY <1>2 DEF ClientsNext, Benchmark, clientsVars, allVars
  <2>2. PagesInv
    BY <1>2 DEF ClientsInv
  <2>3. [Next]_vars /\ PagesInv'
    BY <1>0, <2>1, <2>2, PagesServer, PagesNextStep
  <2>4. ServerInv'
    BY <1>0, <2>3, ServerStays
  <2> QED
    BY <1>2, <2>1, <2>3, <2>4 DEF ClientsInv, benchVars, clientVars
<1> QED
  BY <1>1, <1>2 DEF ClientsInv

LEMMA ClientsBegin == ClientsInit => ClientsInv /\ Init
<1>1. ClientsInit => Init /\ BenchInit /\ PagesInit
  BY DEF ClientsInit, BenchInit
<1>2. ClientsInit => ServerInv /\ BenchInv /\ PagesInv
  BY <1>1, ServerBegins, BenchBegins, PagesBegin
<1> QED
  BY <1>1, <1>2 DEF ClientsInit, ClientsInv, BenchInit, PagesInit

\* The ledger and the two clients agree in every reachable state.
THEOREM ClientsAgree == ClientsSpec => []ClientsInv
  BY ClientsBegin, ClientsStep, PTL DEF ClientsSpec

\* The server of the composed system is that of ActionPipeline: no benchmark,
\* page, queue or network makes it take a step it does not take by itself, so
\* everything proved of Spec holds whoever its client is.
THEOREM ServerUnderClients == ClientsSpec => Spec
<1>1. ClientsInit => Init
  BY ClientsBegin
<1>2. ClientsInv /\ [ClientsNext]_clientsVars => [Next]_vars
  BY ClientsStep
<1> QED
  BY <1>1, <1>2, ClientsAgree, PTL DEF ClientsSpec, Spec

\* browser_benchmark.py sends its next action only after the boundary
\* next_ready of every earlier one, with each of them recorded complete: the
\* first frame and the record it waits for are enough, in whatever order the
\* JPEG thread and the model owner deliver them.
THEOREM NextActionIsLate == ClientsSpec => []NextActionAfterNextReady
<1>1. ClientsInv => NextActionAfterNextReady
  <2> SUFFICES ASSUME ClientsInv, NEW a \in Ids, a < asked
               PROVE  "next_ready" \in ledger[a].marks /\ Complete(a)
    BY DEF NextActionAfterNextReady
  <2>1. clientKind = "benchmark"
    BY DEF ClientsInv, Ids
  <2>2. Complete(a)
    BY <2>1 DEF ClientsInv, BenchInv
  <2> QED
    BY <2>2 DEF ClientsInv, ServerInv, FinishedInv
<1> QED
  BY <1>1, ClientsAgree, PTL

\* web/app.js: a key is refused as a duplicate only when another page load had
\* its key accepted under that id.
THEOREM RefusalsAreReal == ClientsSpec => []DuplicatesAreReal
<1>1. ClientsInv => DuplicatesAreReal
  BY DEF ClientsInv, PagesInv, DuplicatesAreReal
<1> QED
  BY <1>1, ClientsAgree, PTL
=============================================================================
