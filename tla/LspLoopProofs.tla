--------------------------- MODULE LspLoopProofs ---------------------------
(***************************************************************************)
(* Theorems about the task loop of the language server: types and tasks,   *)
(* what is scheduled, and then a session: who waits for whom, and what the *)
(* client shows when everyone does.                                        *)
(***************************************************************************)
EXTENDS LspLoop, TLAPS

DocType == [version : Nat, text : Texts]
Docs == UNION {[D -> DocType] : D \in SUBSET Uris}
ReportType == [version : Nat, diags : {"fine", "ill_typed", "ill_formed"}]
Reports == UNION {[D -> ReportType] : D \in SUBSET Uris}

StateType ==
    [documents : Docs, shutdown_requested : BOOLEAN, should_exit : BOOLEAN,
     pending : BOOLEAN, deadline : 0..MaxMessages, tier : {"Full", "Parse"},
     parse_dirty : SUBSET Uris, full_dirty : BOOLEAN, last_published : Reports]

EditType == [kind : {"didOpen", "didChange"}, uri : Uris, version : Nat, text : Texts]
TouchType == [kind : {"didSave", "didClose"}, uri : Uris, version : {0}, text : {""}]
EndType == [kind : {"shutdown", "exit"}, uri : {""}, version : {0}, text : {""}]
MessageType == EditType \cup TouchType \cup EndType

TaskType == {Reader, Dispatcher, Worker} \cup {Debounce(g) : g \in Gens}

\* What the client and the pipe hold.
PipeTypes ==
    /\ client \in Docs /\ sent \in 0..MaxMessages
    /\ stdin \in Seq(MessageType) /\ chunk \in Seq(MessageType)
    /\ gen \in Nat /\ gen + Len(chunk) + Len(stdin) <= sent

\* The tasks, the timers and the diagnostics channel.
TaskTypes ==
    /\ ready \in Seq(TaskType) /\ timers \subseteq TaskType
    /\ debounce \in [Gens -> {"absent", "new", "awake", "parked", "done"}]
    /\ jobs \in Seq(Gens) /\ parked \in Seq(Gens) /\ closed \in BOOLEAN
    /\ job \in 0..MaxMessages /\ elapsed \subseteq Gens

\* The state of the server and what it has published.
StateTypes ==
    /\ shared \in StateType /\ snapshot \in StateType
    /\ shown \in Reports /\ analyzed \in Docs

Types == PipeTypes /\ TaskTypes /\ StateTypes

-----------------------------------------------------------------------------
(* Functions on some of the documents.                                     *)

Partial(T) == UNION {[D -> T] : D \in SUBSET Uris}

LEMMA PartialDomain ==
    ASSUME NEW T, NEW f \in Partial(T)
    PROVE  /\ DOMAIN f \subseteq Uris /\ f \in [DOMAIN f -> T]
           /\ \A u \in DOMAIN f : f[u] \in T
BY DEF Partial

LEMMA PartialIntro ==
    ASSUME NEW T, NEW D \in SUBSET Uris, NEW f \in [D -> T]
    PROVE  f \in Partial(T)
BY DEF Partial

LEMMA PutType ==
    ASSUME NEW T, NEW f \in Partial(T), NEW u \in Uris, NEW v \in T
    PROVE  /\ Put(f, u, v) \in Partial(T)
           /\ DOMAIN Put(f, u, v) = DOMAIN f \cup {u}
           /\ \A x \in DOMAIN f \cup {u} : Put(f, u, v)[x] = IF x = u THEN v ELSE f[x]
<1>1. DOMAIN f \subseteq Uris /\ \A x \in DOMAIN f : f[x] \in T
  BY PartialDomain, Zenon
<1>2. Put(f, u, v) \in [DOMAIN f \cup {u} -> T]
  BY <1>1 DEF Put
<1>3. DOMAIN f \cup {u} \in SUBSET Uris
  BY <1>1
<1>4. Put(f, u, v) \in Partial(T)
  BY <1>2, <1>3, PartialIntro, Zenon
<1> QED
  BY <1>4 DEF Put

LEMMA DropType ==
    ASSUME NEW T, NEW f \in Partial(T), NEW u
    PROVE  /\ Drop(f, u) \in Partial(T)
           /\ DOMAIN Drop(f, u) = DOMAIN f \ {u}
           /\ \A x \in DOMAIN f \ {u} : Drop(f, u)[x] = f[x]
<1>1. DOMAIN f \subseteq Uris /\ \A x \in DOMAIN f : f[x] \in T
  BY PartialDomain, Zenon
<1>2. Drop(f, u) \in [DOMAIN f \ {u} -> T]
  BY <1>1 DEF Drop, Restrict
<1>3. DOMAIN f \ {u} \in SUBSET Uris
  BY <1>1
<1>4. Drop(f, u) \in Partial(T)
  BY <1>2, <1>3, PartialIntro, Zenon
<1> QED
  BY <1>4 DEF Drop, Restrict

LEMMA NothingType ==
    ASSUME NEW T
    PROVE  Nothing \in Partial(T) /\ DOMAIN Nothing = {}
<1>1. {} \in SUBSET Uris /\ Nothing \in [{} -> T] /\ DOMAIN Nothing = {}
  BY DEF Nothing
<1> QED
  BY <1>1, PartialIntro, Zenon

LEMMA PartialNames == Docs = Partial(DocType) /\ Reports = Partial(ReportType)
BY DEF Docs, Reports, Partial

-----------------------------------------------------------------------------
(* The queue of the ready tasks.                                           *)

LEMMA Moves ==
    ASSUME TaskTypes
    PROVE  /\ keep(<<>>) => ready' = ready
           /\ \A t : keep(<<t>>) => ready' = Append(ready, t)
           /\ wait(<<>>) /\ ready # <<>> => ready' = Tail(ready)
           /\ \A t : wait(<<t>>) /\ ready # <<>> => ready' = Append(Tail(ready), t)
<1>1. ready \in Seq(TaskType)
  BY DEF TaskTypes
<1>2. \A q \in Seq(TaskType) : q \o <<>> = q
  OBVIOUS
<1>3. \A q \in Seq(TaskType) : \A t : q \o <<t>> = Append(q, t)
  OBVIOUS
<1>4. ready # <<>> => Tail(ready) \in Seq(TaskType)
  BY <1>1
<1> QED
  BY <1>1, <1>2, <1>3, <1>4, Zenon DEF keep, wait

LEMMA TaskNames ==
    /\ Reader \in TaskType /\ Dispatcher \in TaskType /\ Worker \in TaskType
    /\ \A g \in Gens : Debounce(g) \in TaskType
BY DEF TaskType

\* A step moves tasks only.
LEMMA MovesType ==
    ASSUME TaskTypes
    PROVE  /\ keep(<<>>) => ready' \in Seq(TaskType)
           /\ \A t \in TaskType : keep(<<t>>) => ready' \in Seq(TaskType)
           /\ wait(<<>>) /\ ready # <<>> => ready' \in Seq(TaskType)
           /\ \A t \in TaskType : wait(<<t>>) /\ ready # <<>> => ready' \in Seq(TaskType)
<1>1. ready \in Seq(TaskType)
  BY DEF TaskTypes
<1>2. \A q \in Seq(TaskType) : \A t \in TaskType : Append(q, t) \in Seq(TaskType)
  OBVIOUS
<1>3. ready # <<>> => Tail(ready) \in Seq(TaskType)
  BY <1>1
<1> QED
  BY <1>1, <1>2, <1>3, Moves, Zenon

\* Every generation is started by a message.
LEMMA FreshGen ==
    ASSUME PipeTypes, chunk # <<>>
    PROVE  gen + 1 \in Gens
<1>1. Len(chunk) \in Nat /\ Len(chunk) > 0 /\ Len(stdin) \in Nat
  BY DEF PipeTypes
<1> QED
  BY <1>1, LoopAssumption DEF PipeTypes, Gens

LEMMA ReadyNext ==
    ASSUME Types, Next
    PROVE  ready' \in Seq(TaskType) /\ timers' \subseteq TaskType
<1> DEFINE ok == ready' \in Seq(TaskType)
<1>0. TaskTypes /\ ready \in Seq(TaskType) /\ timers \subseteq TaskType /\ PipeTypes
  BY DEF Types, TaskTypes
<1>r. \A t : run(t) => ready # <<>>
  BY Zenon DEF run
<1>k. /\ keep(<<>>) => ok
      /\ \A t \in TaskType : keep(<<t>>) => ok
      /\ \A t : run(t) => (wait(<<>>) => ok) /\ \A u \in TaskType : wait(<<u>>) => ok
  BY <1>0, <1>r, MovesType, Zenon
<1>u. ready' = ready => ok
  BY <1>0, Zenon
<1> HIDE DEF ok
<1>1. CASE Client
  <2>1. ready' = ready /\ timers' = timers
    BY <1>1, Zenon DEF Client, clientOpen, clientChange, clientSave, clientClose, clientEnd,
                       clientEof, say
  <2> QED
    BY <1>0, <1>u, <2>1, Zenon DEF ok
<1>2. CASE ReaderStep
  <2>1. timers' = timers
    BY <1>2, Zenon DEF ReaderStep, read_chunk, readEof, readerSend, readerRecvAck, readerLoop,
                       readerEnd, readerJoin, readerExit, pipeVars
  <2>2. ok
    BY <1>2, <1>k, TaskNames, Zenon
    DEF ReaderStep, read_chunk, readEof, readerSend, readerRecvAck, readerLoop, readerEnd,
        readerJoin, readerExit
  <2> QED
    BY <1>0, <2>1, <2>2, Zenon DEF ok
<1>3. CASE dispatcherRecv \/ dispatcherAck \/ dispatcherLoop
  <2>1. ok
    BY <1>3, <1>k, TaskNames, Zenon
    DEF dispatcherRecv, dispatcherDone, dispatcherAck, dispatcherLoop, yieldHop, yieldFast
  <2>2. timers' = timers \/ timers' = timers \cup {Dispatcher}
    BY <1>3, Zenon DEF dispatcherRecv, dispatcherAck, dispatcherLoop, yieldHop, yieldFast, pipeVars
  <2> QED
    BY <1>0, <2>1, <2>2, TaskNames, Zenon DEF ok
<1>4. CASE process_message
  <2>1. chunk # <<>> /\ timers' = timers
        /\ (ready' = ready \/ keep(<<Debounce(gen + 1)>>))
    BY <1>4, Zenon DEF process_message
  <2>2. Debounce(gen + 1) \in TaskType
    BY <1>0, <2>1, FreshGen, TaskNames, Zenon
  <2> QED
    BY <1>0, <1>u, <1>k, <2>1, <2>2, Zenon DEF ok
<1>5. ASSUME NEW g \in Gens, debounceStart(g) \/ debounceSend(g)
      PROVE  ok /\ timers' \subseteq TaskType
  <2>1. ok
    BY <1>5, <1>k, TaskNames, Zenon DEF debounceStart, debounceSend
  <2>2. timers' = timers \/ timers' = timers \cup {Debounce(g)}
    BY <1>5, Zenon DEF debounceStart, debounceSend
  <2> QED
    BY <1>0, <2>1, <2>2, TaskNames, Zenon
<1>6. CASE WorkerStep
  <2>1. ok
    BY <1>6, <1>k, TaskNames, Zenon
    DEF WorkerStep, workerRecv, workerSkip, workerParse, workerAnalyze, workerYield,
        workerPublish, workerSuperseded, jobDone, yieldHop, yieldFast
  <2>2. timers' = timers \/ timers' = timers \cup {Worker}
    BY <1>6, Zenon
    DEF WorkerStep, workerRecv, workerSkip, workerParse, workerAnalyze, workerYield,
        workerPublish, workerSuperseded, yieldHop, yieldFast
  <2> QED
    BY <1>0, <2>1, <2>2, TaskNames, Zenon DEF ok
<1>7. CASE Time
  <2>1. CASE \E g \in Gens : elapse(g)
    BY <1>0, <1>u, <2>1, Zenon DEF elapse, ok
  <2>2. ASSUME NEW t \in timers, timerFires(t) PROVE ok /\ timers' \subseteq TaskType
    <3>1. keep(<<t>>) /\ timers' = timers \ {t}
      BY <2>2, Zenon DEF timerFires
    <3> QED
      BY <1>0, <1>k, <3>1, Zenon
  <2> QED
    BY <1>7, <2>1, <2>2, Zenon DEF Time, ok
<1> QED
  BY <1>1, <1>2, <1>3, <1>4, <1>5, <1>6, <1>7, Zenon DEF Next, DispatcherStep, DebounceStep, ok

\* The diagnostics channel and the debounce tasks are touched by few actions.
LEMMA ChannelKept ==
    ASSUME Next
    PROVE  \/ UNCHANGED <<debounce, jobs, parked, closed, job, elapsed, gen>>
           \/ readerJoin \/ process_message \/ workerRecv
           \/ \E g \in Gens : debounceStart(g) \/ debounceSend(g) \/ elapse(g)
<1>1. CASE Client
  BY <1>1, Zenon DEF Client, clientOpen, clientChange, clientSave, clientClose, clientEnd,
                     clientEof, say, jobVars, localVars
<1>2. CASE ReaderStep
  BY <1>2, Zenon DEF ReaderStep, read_chunk, readEof, readerSend, readerRecvAck, readerLoop,
                     readerEnd, readerExit, pipeVars, serverVars, jobVars, localVars
<1>3. CASE DispatcherStep
  BY <1>3, Zenon DEF DispatcherStep, dispatcherRecv, dispatcherAck, dispatcherLoop,
                     pipeVars, serverVars, jobVars, localVars
<1>4. CASE DebounceStep
  BY <1>4, Zenon DEF DebounceStep
<1>5. CASE WorkerStep
  BY <1>5, Zenon
  DEF WorkerStep, workerSkip, workerParse, workerAnalyze, workerYield,
      workerPublish, workerSuperseded, workerVars, jobVars, localVars
<1>6. CASE Time
  BY <1>6, Zenon DEF Time, timerFires, serverVars, jobVars, localVars
<1> QED
  BY <1>1, <1>2, <1>3, <1>4, <1>5, <1>6, Zenon DEF Next

LEMMA SeqTypes ==
    ASSUME NEW T, NEW q \in Seq(T)
    PROVE  /\ q # <<>> => Head(q) \in T /\ Tail(q) \in Seq(T) /\ Len(Tail(q)) = Len(q) - 1
           /\ \A x \in T : Append(q, x) \in Seq(T) /\ Len(Append(q, x)) = Len(q) + 1
OBVIOUS

LEMMA TaskNext ==
    ASSUME Types, Next
    PROVE  TaskTypes'
<1> DEFINE D == {"absent", "new", "awake", "parked", "done"}
<1>0. /\ debounce \in [Gens -> D]
      /\ jobs \in Seq(Gens) /\ parked \in Seq(Gens) /\ closed \in BOOLEAN
      /\ job \in 0..MaxMessages /\ elapsed \subseteq Gens /\ PipeTypes
  BY Zenon DEF Types, TaskTypes
<1>1. ready' \in Seq(TaskType) /\ timers' \subseteq TaskType
  BY ReadyNext
<1>2. \A g \in Gens : g \in 0..MaxMessages
  BY LoopAssumption DEF Gens
<1>3. \A g \in Gens : \A x \in D : [debounce EXCEPT ![g] = x] \in [Gens -> D]
  BY <1>0
<1>4. /\ \A g \in Gens : Append(jobs, g) \in Seq(Gens) /\ Append(parked, g) \in Seq(Gens)
      /\ jobs # <<>> => Head(jobs) \in Gens /\ Tail(jobs) \in Seq(Gens)
      /\ parked # <<>> => Head(parked) \in Gens /\ Tail(parked) \in Seq(Gens)
      /\ \A g \in Gens : jobs # <<>> => Append(Tail(jobs), g) \in Seq(Gens)
      /\ <<>> \in Seq(Gens)
  BY <1>0
<1>5. "new" \in D /\ "awake" \in D /\ "parked" \in D /\ "done" \in D /\ "absent" \in D
  OBVIOUS
<1> HIDE DEF D
<1>6. SUFFICES /\ debounce' \in [Gens -> D]
               /\ jobs' \in Seq(Gens) /\ parked' \in Seq(Gens) /\ closed' \in BOOLEAN
               /\ job' \in 0..MaxMessages /\ elapsed' \subseteq Gens
  BY <1>1, Zenon DEF TaskTypes, D
<1>7. CASE UNCHANGED <<debounce, jobs, parked, closed, job, elapsed, gen>>
  BY <1>0, <1>7, Zenon
<1>8. CASE readerJoin
  <2>1. debounce' = [g \in Gens |-> IF g \in Range(parked) THEN "done" ELSE debounce[g]]
        /\ closed' = TRUE /\ parked' = <<>> /\ UNCHANGED <<jobs, job, elapsed>>
    BY <1>8, Zenon DEF readerJoin, serverVars, localVars
  <2>2. debounce' \in [Gens -> D]
    BY <1>0, <1>5, <2>1
  <2> QED
    BY <1>0, <1>4, <2>1, <2>2, Zenon
<1>9. CASE process_message
  <2>1. /\ chunk # <<>> /\ UNCHANGED <<jobs, parked, closed, job>>
        /\ \/ debounce' = [debounce EXCEPT ![gen + 1] = "new"]
           \/ debounce' = debounce
        /\ elapsed' = elapsed \cup {gen + 1} \/ elapsed' = elapsed
    BY <1>9, Zenon DEF process_message, jobVars, localVars
  <2>2. gen + 1 \in Gens
    BY <1>0, <2>1, FreshGen
  <2> QED
    BY <1>0, <1>3, <1>5, <2>1, <2>2, Zenon
<1>10. CASE workerRecv
  <2>1. UNCHANGED <<closed, elapsed>>
    BY <1>10, Zenon DEF workerRecv, workerVars
  <2>2. CASE jobs # <<>> /\ parked # <<>>
    <3>1. /\ job' = Head(jobs) /\ jobs' = Append(Tail(jobs), Head(parked))
          /\ parked' = Tail(parked) /\ debounce' = [debounce EXCEPT ![Head(parked)] = "done"]
      BY <1>10, <2>2, Zenon DEF workerRecv
    <3> QED
      BY <1>0, <1>2, <1>3, <1>4, <1>5, <2>1, <2>2, <3>1, Zenon
  <2>3. CASE jobs # <<>> /\ parked = <<>>
    <3>1. job' = Head(jobs) /\ jobs' = Tail(jobs) /\ parked' = parked /\ debounce' = debounce
      BY <1>10, <2>3, Zenon DEF workerRecv
    <3> QED
      BY <1>0, <1>2, <1>4, <2>1, <2>3, <3>1, Zenon
  <2>4. CASE jobs = <<>>
    BY <1>0, <1>10, <2>1, <2>4, Zenon DEF workerRecv
  <2> QED
    BY <2>2, <2>3, <2>4, Zenon
<1>11. ASSUME NEW g \in Gens, debounceStart(g) \/ debounceSend(g) \/ elapse(g)
       PROVE  /\ debounce' \in [Gens -> D]
              /\ jobs' \in Seq(Gens) /\ parked' \in Seq(Gens) /\ closed' \in BOOLEAN
              /\ job' \in 0..MaxMessages /\ elapsed' \subseteq Gens
  <2>1. CASE debounceStart(g)
    BY <1>0, <1>3, <1>5, <2>1, Zenon DEF debounceStart, bounceVars, serverVars
  <2>2. CASE debounceSend(g)
    BY <1>0, <1>2, <1>3, <1>4, <1>5, <2>2, Zenon DEF debounceSend, bounceVars, serverVars
  <2>3. CASE elapse(g)
    BY <1>0, <2>3, Zenon DEF elapse, jobVars, localVars
  <2> QED
    BY <1>11, <2>1, <2>2, <2>3, Zenon
<1> QED
  BY <1>7, <1>8, <1>9, <1>10, <1>11, ChannelKept, Zenon

LEMMA SubSeqTypes ==
    ASSUME NEW T, NEW q \in Seq(T), NEW n \in 1..Len(q)
    PROVE  /\ SubSeq(q, 1, n) \in Seq(T) /\ SubSeq(q, n + 1, Len(q)) \in Seq(T)
           /\ Len(SubSeq(q, 1, n)) = n /\ Len(SubSeq(q, n + 1, Len(q))) = Len(q) - n
OBVIOUS

\* The client appends one message, and only that.
LEMMA SayType ==
    ASSUME PipeTypes, NEW kind, NEW uri, NEW version, NEW text, say(kind, uri, version, text),
           Message(kind, uri, version, text) \in MessageType, client' \in Docs
    PROVE  PipeTypes'
<1>1. /\ stdin' = Append(stdin, Message(kind, uri, version, text)) /\ sent' = sent + 1
      /\ sent < MaxMessages /\ chunk' = chunk /\ gen' = gen
  BY Zenon DEF say
<1>2. /\ stdin \in Seq(MessageType) /\ chunk \in Seq(MessageType) /\ gen \in Nat
      /\ sent \in 0..MaxMessages /\ gen + Len(chunk) + Len(stdin) <= sent
  BY Zenon DEF PipeTypes
<1>3. stdin' \in Seq(MessageType) /\ Len(stdin') = Len(stdin) + 1
  BY <1>1, <1>2, SeqTypes, Zenon
<1>4. Len(stdin) \in Nat /\ Len(chunk) \in Nat
  BY <1>2
<1>5. sent' \in 0..MaxMessages /\ gen' + Len(chunk') + Len(stdin') <= sent'
  <2>1. \A a, b, c, d \in Nat : a + b + c <= d => a + b + (c + 1) <= d + 1
    OBVIOUS
  <2>2. sent \in Nat /\ sent + 1 \in 0..MaxMessages
    BY <1>1, <1>2, LoopAssumption
  <2> QED
    BY <1>1, <1>2, <1>3, <1>4, <2>1, <2>2, Zenon
<1> QED
  BY <1>1, <1>2, <1>3, <1>5, Zenon DEF PipeTypes

LEMMA ClientPipe ==
    ASSUME PipeTypes, Client
    PROVE  PipeTypes'
<1>0. client \in Docs /\ client \in Partial(DocType) /\ Docs = Partial(DocType)
  BY PartialNames, Zenon DEF PipeTypes
<1>1. ASSUME NEW u \in Uris, NEW t \in Texts, clientOpen(u, t) PROVE PipeTypes'
  <2>1. /\ client' = Put(client, u, [version |-> 1, text |-> t]) /\ say("didOpen", u, 1, t)
    BY <1>1, Zenon DEF clientOpen
  <2>2. [version |-> 1, text |-> t] \in DocType /\ Message("didOpen", u, 1, t) \in MessageType
    BY DEF DocType, Message, MessageType, EditType
  <2>3. client' \in Docs
    BY <1>0, <2>1, <2>2, PutType, Zenon
  <2> QED
    BY <2>1, <2>2, <2>3, SayType
<1>2. ASSUME NEW u \in Uris, NEW t \in Texts, clientChange(u, t) PROVE PipeTypes'
  <2> DEFINE v == client[u].version + 1
  <2>1. /\ client' = Put(client, u, [version |-> v, text |-> t]) /\ say("didChange", u, v, t)
        /\ u \in DOMAIN client
    BY <1>2, Zenon DEF clientChange
  <2>2. client[u] \in DocType
    BY <1>0, <2>1, PartialDomain, Zenon
  <2>3. v \in Nat
    BY <2>2 DEF DocType
  <2> HIDE DEF v
  <2>4. [version |-> v, text |-> t] \in DocType /\ Message("didChange", u, v, t) \in MessageType
    BY <2>3 DEF DocType, Message, MessageType, EditType
  <2>5. client' \in Docs
    BY <1>0, <2>1, <2>4, PutType, Zenon
  <2> QED
    BY <2>1, <2>4, <2>5, SayType
<1>3. ASSUME NEW u \in Uris, clientSave(u) \/ clientClose(u) PROVE PipeTypes'
  <2>1. client' \in Docs
    <3>1. client' = client \/ client' = Drop(client, u)
      BY <1>3, Zenon DEF clientSave, clientClose
    <3>2. Drop(client, u) \in Partial(DocType)
      BY <1>0, DropType
    <3> QED
      BY <1>0, <3>1, <3>2, Zenon
  <2>2. Message("didSave", u, 0, "") \in MessageType /\ Message("didClose", u, 0, "") \in MessageType
    BY DEF Message, MessageType, TouchType
  <2> QED
    BY <1>3, <2>1, <2>2, SayType, Zenon DEF clientSave, clientClose
<1>4. ASSUME NEW kind \in {"shutdown", "exit"}, clientEnd(kind) PROVE PipeTypes'
  <2>1. Message(kind, "", 0, "") \in MessageType
    BY DEF Message, MessageType, EndType
  <2>2. client' = client /\ say(kind, "", 0, "")
    BY <1>4, Zenon DEF clientEnd
  <2> QED
    BY <1>0, <2>1, <2>2, SayType, Zenon
<1>5. CASE clientEof
  BY <1>5, Zenon DEF clientEof, PipeTypes
<1> QED
  BY <1>1, <1>2, <1>3, <1>4, <1>5, Zenon DEF Client

LEMMA PipeNext ==
    ASSUME PipeTypes, Next
    PROVE  PipeTypes'
<1>0. /\ stdin \in Seq(MessageType) /\ chunk \in Seq(MessageType) /\ gen \in Nat
      /\ sent \in 0..MaxMessages /\ gen + Len(chunk) + Len(stdin) <= sent /\ client \in Docs
  BY Zenon DEF PipeTypes
<1>l. Len(stdin) \in Nat /\ Len(chunk) \in Nat /\ sent \in Nat
  BY <1>0
<1>1. ASSUME NEW n, read_chunk(n) PROVE PipeTypes'
  <2>1. /\ n \in 1..Len(stdin) /\ chunk' = SubSeq(stdin, 1, n)
        /\ stdin' = SubSeq(stdin, n + 1, Len(stdin))
        /\ client' = client /\ sent' = sent /\ gen' = gen
    BY <1>1, Zenon DEF read_chunk, clientVars
  <2>2. /\ chunk' \in Seq(MessageType) /\ stdin' \in Seq(MessageType)
        /\ Len(chunk') = n /\ Len(stdin') = Len(stdin) - n
    BY <1>0, <2>1, SubSeqTypes, Zenon
  <2>3. gen' + Len(chunk') + Len(stdin') <= sent'
    <3>1. n \in Nat
      BY <2>1
    <3>2. \A a, b, c, d \in Nat : a + b + c <= d => a + n + (c - n) <= d
      BY <3>1
    <3> QED
      BY <1>0, <1>l, <2>1, <2>2, <3>2, Zenon
  <2> QED
    BY <1>0, <2>1, <2>2, <2>3, Zenon DEF PipeTypes
<1>2. CASE process_message
  <2>1. /\ chunk # <<>> /\ chunk' = Tail(chunk) /\ stdin' = stdin /\ client' = client
        /\ sent' = sent /\ (gen' = gen \/ gen' = gen + 1)
    BY <1>2, Zenon DEF process_message, clientVars
  <2>2. chunk' \in Seq(MessageType) /\ Len(chunk') = Len(chunk) - 1
    BY <1>0, <2>1, SeqTypes, Zenon
  <2>3. /\ \A a, b, c, d \in Nat : a + b + c <= d => a + (b - 1) + c <= d
        /\ \A a, b, c, d \in Nat : a + b + c <= d => (a + 1) + (b - 1) + c <= d
        /\ gen + 1 \in Nat
    BY <1>0
  <2>4. gen' \in Nat /\ gen' + Len(chunk') + Len(stdin') <= sent'
    BY <1>0, <1>l, <2>1, <2>2, <2>3, Zenon
  <2> QED
    BY <1>0, <2>1, <2>2, <2>4, Zenon DEF PipeTypes
<1>3. CASE dispatcherAck
  <2>1. chunk' = <<>> /\ UNCHANGED <<stdin, client, sent, gen>>
    BY <1>3, Zenon DEF dispatcherAck, pipeVars, serverVars, clientVars
  <2>2. <<>> \in Seq(MessageType) /\ Len(<<>>) = 0
    OBVIOUS
  <2>3. \A a, b, c, d \in Nat : a + b + c <= d => a + 0 + c <= d
    OBVIOUS
  <2> QED
    BY <1>0, <1>l, <2>1, <2>2, <2>3, Zenon DEF PipeTypes
<1>4. ASSUME UNCHANGED <<stdin, chunk, client, sent, gen>> PROVE PipeTypes'
  BY <1>4, Zenon DEF PipeTypes
<1>5. CASE ReaderStep
  BY <1>1, <1>4, <1>5, Zenon
  DEF ReaderStep, readEof, readerSend, readerRecvAck, readerLoop, readerEnd, readerJoin,
      readerExit, pipeVars, serverVars, clientVars
<1>6. CASE DispatcherStep
  BY <1>2, <1>3, <1>4, <1>6, Zenon
  DEF DispatcherStep, dispatcherRecv, dispatcherLoop, pipeVars, serverVars, clientVars
<1>7. CASE DebounceStep
  BY <1>4, <1>7, Zenon
  DEF DebounceStep, debounceStart, debounceSend, bounceVars, serverVars, clientVars
<1>8. CASE WorkerStep
  BY <1>4, <1>8, Zenon
  DEF WorkerStep, workerRecv, workerSkip, workerParse, workerAnalyze, workerYield,
      workerPublish, workerSuperseded, workerVars, clientVars
<1>9. CASE Time
  BY <1>4, <1>9, Zenon DEF Time, elapse, timerFires, serverVars, clientVars
<1> QED
  BY <1>5, <1>6, <1>7, <1>8, <1>9, ClientPipe, Zenon DEF Next

-----------------------------------------------------------------------------
(* What the notifications and the runs do to the state.                    *)

\* The parts of a state that no notification about a document touches.
SameEnd(r, s) ==
    /\ r.should_exit = s.should_exit /\ r.shutdown_requested = s.shutdown_requested
    /\ r.last_published = s.last_published

Rearmed(r, tier) == r.pending = TRUE /\ r.deadline = gen + 1 /\ r.tier = tier

LEMMA MarkFields ==
    ASSUME NEW s \in StateType, NEW tier \in {"Full", "Parse"}, NEW dirty \in SUBSET Uris,
           gen + 1 \in Gens
    PROVE  LET r == mark_diagnostics_pending(s, tier, dirty)
           IN  /\ r \in StateType /\ SameEnd(r, s) /\ Rearmed(r, tier)
               /\ r.documents = s.documents /\ r.full_dirty = s.full_dirty
<1>1. gen + 1 \in 0..MaxMessages
  BY LoopAssumption DEF Gens
<1> DEFINE g == gen + 1
<1>2. g \in 0..MaxMessages
  BY <1>1
<1> HIDE DEF g
<1>3. LET r == [s EXCEPT !.pending = TRUE, !.tier = tier, !.deadline = g,
                         !.parse_dirty = @ \cup dirty]
      IN  /\ r \in StateType /\ SameEnd(r, s)
          /\ r.pending = TRUE /\ r.deadline = g /\ r.tier = tier
          /\ r.documents = s.documents /\ r.full_dirty = s.full_dirty
  BY <1>2 DEF StateType, SameEnd
<1> QED
  BY <1>3, Zenon DEF g, mark_diagnostics_pending, Rearmed

LEMMA EditFields ==
    ASSUME NEW s \in StateType, NEW d \in Docs
    PROVE  LET r == [s EXCEPT !.documents = d, !.full_dirty = TRUE]
           IN  /\ r \in StateType /\ SameEnd(r, s)
               /\ r.documents = d /\ r.full_dirty = TRUE
BY DEF StateType, SameEnd

\* r is s but for the documents and what depends on them.
Holds(r, s, d) ==
    /\ r \in StateType /\ SameEnd(r, s) /\ r.documents = d
    /\ r.pending = s.pending /\ r.deadline = s.deadline /\ r.tier = s.tier

LEMMA CleanFields ==
    ASSUME NEW s \in StateType
    PROVE  LET r == [s EXCEPT !.full_dirty = FALSE]
           IN  /\ r \in StateType /\ SameEnd(r, s)
               /\ r.documents = s.documents /\ r.full_dirty = FALSE
               /\ r.pending = s.pending /\ r.deadline = s.deadline /\ r.tier = s.tier
BY DEF StateType, SameEnd

\* The end of the session.
EndOf(r, s, m) ==
    /\ r.documents = s.documents /\ r.full_dirty = s.full_dirty /\ r.tier = s.tier
    /\ r.pending = s.pending /\ r.deadline = s.deadline
    /\ r.last_published = s.last_published
    /\ r.should_exit = (s.should_exit \/ m.kind = "exit")

LEMMA EndFields ==
    ASSUME NEW s \in StateType, NEW m
    PROVE  /\ m.kind = "shutdown" =>
                 LET r == [s EXCEPT !.shutdown_requested = TRUE]
                 IN  r \in StateType /\ EndOf(r, s, m)
           /\ m.kind = "exit" =>
                 LET r == [s EXCEPT !.should_exit = TRUE] IN r \in StateType /\ EndOf(r, s, m)
BY DEF StateType, EndOf

DocOf(m) == [version |-> m.version, text |-> m.text]

\* What each notification does.
Opened(r, s, m) ==
    /\ r.documents = Put(s.documents, m.uri, DocOf(m)) /\ r.full_dirty = TRUE
    /\ SameEnd(r, s) /\ Rearmed(r, IF m.kind = "didOpen" THEN "Full" ELSE "Parse")

Saved(r, s) ==
    /\ r.documents = s.documents /\ r.full_dirty = s.full_dirty
    /\ SameEnd(r, s) /\ Rearmed(r, "Full")

Closed(r, s, m) ==
    /\ r.documents = Drop(s.documents, m.uri) /\ SameEnd(r, s)
    /\ \/ /\ DOMAIN r.documents = {} /\ r.full_dirty = FALSE
          /\ r.pending = s.pending /\ r.deadline = s.deadline /\ r.tier = s.tier
       \/ r.full_dirty = s.full_dirty /\ Rearmed(r, "Full") /\ DOMAIN r.documents # {}

LEMMA Notified ==
    ASSUME NEW s \in StateType, NEW m \in MessageType, gen + 1 \in Gens
    PROVE  LET r == handle_notification(s, m)
           IN  /\ r \in StateType
               /\ m.kind \in {"didOpen", "didChange"} => Opened(r, s, m)
               /\ m.kind = "didSave" => Saved(r, s)
               /\ m.kind = "didClose" => Closed(r, s, m)
               /\ m.kind \in {"shutdown", "exit"} => EndOf(r, s, m)
<1> DEFINE r == handle_notification(s, m)
<1>k. m.kind \in {"didOpen", "didChange", "didSave", "didClose", "shutdown", "exit"}
  BY DEF MessageType, EditType, TouchType, EndType
<1>d. /\ s.documents \in Docs /\ s.documents \in Partial(DocType) /\ Docs = Partial(DocType)
      /\ s.parse_dirty \in SUBSET Uris
  BY PartialNames DEF StateType
<1>t. "Full" \in {"Full", "Parse"} /\ "Parse" \in {"Full", "Parse"} /\ {} \in SUBSET Uris
  OBVIOUS
<1>1. ASSUME m.kind \in {"didOpen", "didChange"} PROVE r \in StateType /\ Opened(r, s, m)
  <2>1. m.uri \in Uris /\ DocOf(m) \in DocType /\ {m.uri} \in SUBSET Uris
    BY <1>1 DEF MessageType, EditType, TouchType, EndType, DocOf, DocType
  <2> DEFINE d == Put(s.documents, m.uri, DocOf(m))
             e == [s EXCEPT !.documents = d, !.full_dirty = TRUE]
  <2>2. d \in Docs
    BY <1>d, <2>1, PutType, Zenon
  <2>3. e \in StateType /\ SameEnd(e, s) /\ e.documents = d /\ e.full_dirty = TRUE
    BY <2>2, EditFields, Zenon
  <2>4. CASE m.kind = "didOpen"
    <3>1. r = mark_diagnostics_pending(e, "Full", {})
      BY <2>4 DEF handle_notification, handle_did_open, DocOf
    <3> HIDE DEF d, e, r
    <3>2. /\ r \in StateType /\ SameEnd(r, e) /\ Rearmed(r, "Full")
          /\ r.documents = e.documents /\ r.full_dirty = e.full_dirty
      BY <1>t, <2>3, <3>1, MarkFields, Zenon
    <3> QED
      BY <2>3, <2>4, <3>2, Zenon DEF Opened, SameEnd, d
  <2>5. CASE m.kind = "didChange"
    <3>1. r = mark_diagnostics_pending(e, "Parse", {m.uri})
      BY <2>5 DEF handle_notification, handle_did_change, DocOf
    <3>3. m.kind # "didOpen"
      BY <2>5
    <3> HIDE DEF d, e, r
    <3>2. /\ r \in StateType /\ SameEnd(r, e) /\ Rearmed(r, "Parse")
          /\ r.documents = e.documents /\ r.full_dirty = e.full_dirty
      BY <1>t, <2>1, <2>3, <3>1, MarkFields, Zenon
    <3> QED
      BY <2>3, <3>2, <3>3, Zenon DEF Opened, SameEnd, d
  <2> QED
    BY <1>1, <2>4, <2>5, Zenon
<1>2. ASSUME m.kind = "didSave" PROVE r \in StateType /\ Saved(r, s)
  <2>1. r = mark_diagnostics_pending(s, "Full", {})
    BY <1>2 DEF handle_notification, handle_did_save
  <2> HIDE DEF r
  <2> QED
    BY <1>t, <2>1, MarkFields, Zenon DEF Saved
<1>3. ASSUME m.kind = "didClose" PROVE r \in StateType /\ Closed(r, s, m)
  <2> DEFINE d == Drop(s.documents, m.uri)
             p == s.parse_dirty \ {m.uri}
             c == [s EXCEPT !.documents = d, !.parse_dirty = p]
  <2>1. d \in Docs
    <3>1. d \in Partial(DocType)
      BY <1>d, DropType
    <3> QED
      BY <1>d, <3>1, Zenon
  <2>2. p \subseteq Uris
    BY <1>d
  <2>3. r = IF DOMAIN c.documents = {} THEN [c EXCEPT !.full_dirty = FALSE]
            ELSE mark_diagnostics_pending(c, "Full", {})
    BY <1>3 DEF handle_notification, handle_did_close
  <2> HIDE DEF d, p
  <2>4. Holds(c, s, d) /\ c.full_dirty = s.full_dirty
    BY <2>1, <2>2 DEF StateType, SameEnd, Holds
  <2> HIDE DEF c, r
  <2>5. CASE DOMAIN c.documents = {}
    <3>1. r = [c EXCEPT !.full_dirty = FALSE]
      BY <2>3, <2>5, Zenon
    <3>2. /\ r \in StateType /\ SameEnd(r, c)
          /\ r.documents = c.documents /\ r.full_dirty = FALSE
          /\ r.pending = c.pending /\ r.deadline = c.deadline /\ r.tier = c.tier
      BY <2>4, <3>1, CleanFields, Zenon DEF Holds
    <3> QED
      BY <2>4, <2>5, <3>2, Zenon DEF Closed, SameEnd, Holds, d
  <2>6. CASE DOMAIN c.documents # {}
    <3>1. r = mark_diagnostics_pending(c, "Full", {})
      BY <2>3, <2>6, Zenon
    <3>2. /\ r \in StateType /\ SameEnd(r, c) /\ Rearmed(r, "Full")
          /\ r.documents = c.documents /\ r.full_dirty = c.full_dirty
      BY <1>t, <2>4, <3>1, MarkFields, Zenon DEF Holds
    <3> QED
      BY <2>4, <2>6, <3>2, Zenon DEF Closed, SameEnd, Holds, d
  <2> QED
    BY <2>5, <2>6, Zenon
<1>4. ASSUME m.kind \in {"shutdown", "exit"} PROVE r \in StateType /\ EndOf(r, s, m)
  <2>1. CASE m.kind = "shutdown"
    <3>1. r = [s EXCEPT !.shutdown_requested = TRUE]
      BY <2>1 DEF handle_notification
    <3> QED
      BY <2>1, <3>1, EndFields, Zenon
  <2>2. CASE m.kind = "exit"
    <3>1. r = [s EXCEPT !.should_exit = TRUE]
      BY <2>2 DEF handle_notification
    <3> QED
      BY <2>2, <3>1, EndFields, Zenon
  <2> QED
    BY <1>4, <2>1, <2>2, Zenon
<1> HIDE DEF r
<1>5. r \in StateType
  BY <1>k, <1>1, <1>2, <1>3, <1>4, Zenon
<1> QED
  BY <1>1, <1>2, <1>3, <1>4, <1>5, Zenon DEF r

\* What is shown, or remembered as published, after a run of the state s.
Merged(f, s) ==
    [u \in DOMAIN f \cup news(s) |-> IF u \in news(s) THEN report(s, u) ELSE f[u]]

LEMMA ReportTypes ==
    ASSUME NEW s \in StateType
    PROVE  /\ news(s) \subseteq covered(s) /\ covered(s) \subseteq DOMAIN s.documents
           /\ DOMAIN s.documents \subseteq Uris
           /\ \A u \in DOMAIN s.documents : report(s, u) \in ReportType
<1>1. s.documents \in Partial(DocType)
  BY PartialNames DEF StateType
<1>2. DOMAIN s.documents \subseteq Uris /\ \A u \in DOMAIN s.documents : s.documents[u] \in DocType
  BY <1>1, PartialDomain, Zenon
<1>3. \A tier, text : text \in Texts => found(tier, text) \in {"fine", "ill_typed", "ill_formed"}
  BY LoopAssumption DEF found
<1>4. \A u \in DOMAIN s.documents : report(s, u) \in ReportType
  BY <1>2, <1>3 DEF DocType, report, ReportType
<1>5. news(s) \subseteq covered(s) /\ covered(s) \subseteq DOMAIN s.documents
  BY DEF news, covered
<1> QED
  BY <1>2, <1>4, <1>5, Zenon

LEMMA MergedType ==
    ASSUME NEW f \in Reports, NEW s \in StateType
    PROVE  Merged(f, s) \in Reports
<1>1. f \in Partial(ReportType) /\ Reports = Partial(ReportType)
  BY PartialNames, Zenon
<1>2. DOMAIN f \subseteq Uris /\ \A u \in DOMAIN f : f[u] \in ReportType
  BY <1>1, PartialDomain, Zenon
<1>3. DOMAIN f \cup news(s) \in SUBSET Uris
  BY <1>2, ReportTypes
<1>4. \A u \in news(s) : report(s, u) \in ReportType
  BY ReportTypes
<1> DEFINE D == DOMAIN f \cup news(s)
<1>5. \A u \in D : (IF u \in news(s) THEN report(s, u) ELSE f[u]) \in ReportType
  BY <1>2, <1>4
<1>6. Merged(f, s) \in [D -> ReportType]
  BY <1>5 DEF Merged
<1> HIDE DEF D
<1>7. D \in SUBSET Uris
  BY <1>3, Zenon DEF D
<1> QED
  BY <1>1, <1>6, <1>7, PartialIntro, Zenon

Published(r, s) ==
    /\ r \in StateType /\ r.documents = s.documents
    /\ r.should_exit = s.should_exit /\ r.shutdown_requested = s.shutdown_requested
    /\ r.deadline = s.deadline /\ r.tier = s.tier
    /\ r.pending = FALSE /\ r.full_dirty = (s.full_dirty /\ s.tier = "Parse")
    /\ r.last_published = Merged(s.last_published, s)

LEMMA RunFields ==
    ASSUME NEW s \in StateType
    PROVE  Published(publish_due_diagnostics(s), s)
<1> DEFINE l == Merged(s.last_published, s)
           b == (s.full_dirty /\ s.tier = "Parse")
<1>1. l \in Reports
  <2>1. s.last_published \in Reports
    BY DEF StateType
  <2> QED
    BY <2>1, MergedType, Zenon
<1>2. b \in BOOLEAN
  BY Zenon
<1>3. publish_due_diagnostics(s) =
        [s EXCEPT !.pending = FALSE, !.parse_dirty = {}, !.full_dirty = b, !.last_published = l]
  BY DEF publish_due_diagnostics, Merged
<1> HIDE DEF l, b
<1>4. LET r == [s EXCEPT !.pending = FALSE, !.parse_dirty = {}, !.full_dirty = b, !.last_published = l]
      IN  /\ r \in StateType /\ r.documents = s.documents
          /\ r.should_exit = s.should_exit /\ r.shutdown_requested = s.shutdown_requested
          /\ r.deadline = s.deadline /\ r.tier = s.tier
          /\ r.pending = FALSE /\ r.full_dirty = b
          /\ r.last_published = l
  BY <1>1, <1>2 DEF StateType
<1> QED
  BY <1>3, <1>4, Zenon DEF Published, l, b

\* The state is touched by the dispatcher and by the worker.
LEMMA StateKept ==
    ASSUME Next
    PROVE  \/ UNCHANGED <<shared, snapshot, shown, analyzed>>
           \/ process_message \/ workerAnalyze
           \/ workerParse \/ workerPublish
<1>1. CASE Client
  BY <1>1, Zenon DEF Client, clientOpen, clientChange, clientSave, clientClose, clientEnd,
                     clientEof, say, localVars
<1>2. CASE ReaderStep
  BY <1>2, Zenon DEF ReaderStep, read_chunk, readEof, readerSend, readerRecvAck, readerLoop,
                     readerEnd, readerJoin, readerExit, pipeVars, serverVars, localVars
<1>3. CASE DispatcherStep
  BY <1>3, Zenon DEF DispatcherStep, dispatcherRecv, dispatcherAck, dispatcherLoop,
                     pipeVars, serverVars, localVars
<1>4. CASE DebounceStep
  BY <1>4, Zenon DEF DebounceStep, debounceStart, debounceSend, bounceVars, serverVars
<1>5. CASE WorkerStep
  BY <1>5, Zenon
  DEF WorkerStep, workerRecv, workerSkip, workerYield, workerSuperseded, localVars
<1>6. CASE Time
  BY <1>6, Zenon DEF Time, timerFires, elapse, serverVars, localVars
<1> QED
  BY <1>1, <1>2, <1>3, <1>4, <1>5, <1>6, Zenon DEF Next

\* The message that the dispatcher takes.
LEMMA Taken ==
    ASSUME Types, process_message
    PROVE  /\ Head(chunk) \in MessageType /\ gen + 1 \in Gens /\ shared \in StateType
           /\ shared' = handle_notification(shared, Head(chunk))
<1>1. chunk # <<>> /\ shared' = handle_notification(shared, Head(chunk))
  BY Zenon DEF process_message
<1>2. chunk \in Seq(MessageType) /\ PipeTypes /\ shared \in StateType
  BY Zenon DEF Types, PipeTypes, StateTypes
<1> QED
  BY <1>1, <1>2, SeqTypes, FreshGen, Zenon

\* What a commit puts in the place of the state.
LEMMA Commit ==
    ASSUME Types, NEW s \in StateType, publish(s)
    PROVE  /\ Published(shared', s)
           /\ shown' = Merged(shown, s)
           /\ s.tier = "Full" => analyzed' = s.documents
           /\ s.tier # "Full" => analyzed' = analyzed
BY RunFields, Zenon DEF publish, Merged

LEMMA StateNext ==
    ASSUME Types, Next
    PROVE  StateTypes'
<1>0. /\ shared \in StateType /\ snapshot \in StateType /\ shown \in Reports
      /\ analyzed \in Docs /\ PipeTypes
  BY Zenon DEF Types, StateTypes
<1>1. CASE UNCHANGED <<shared, snapshot, shown, analyzed>>
  BY <1>0, <1>1, Zenon DEF StateTypes
<1>2. CASE process_message
  <2>1. UNCHANGED <<snapshot, analyzed>>
    BY <1>2, Zenon DEF process_message, localVars
  <2>2. shared' \in StateType
    BY <1>2, Taken, Notified, Zenon
  <2>3. CASE Head(chunk).kind = "didClose"
    <3> DEFINE m == Head(chunk)
    <3>1. m \in MessageType /\ m.kind = "didClose"
      BY <1>2, <2>3, Taken, Zenon
    <3>2. m.uri \in Uris
      BY <3>1 DEF MessageType, EditType, TouchType, EndType
    <3>3. shown' = Put(shown, m.uri, cleared(shared, m.uri))
      BY <1>2, <2>3, Zenon DEF process_message
    <3> HIDE DEF m
    <3>4. cleared(shared, m.uri) \in ReportType
      <4>1. shared.documents \in Partial(DocType)
        BY <1>0, PartialNames DEF StateType
      <4>2. m.uri \in DOMAIN shared.documents => shared.documents[m.uri] \in DocType
        BY <4>1, PartialDomain, Zenon
      <4> QED
        BY <4>2 DEF cleared, ReportType, DocType
    <3>5. shown' \in Reports
      BY <1>0, <3>2, <3>3, <3>4, PutType, PartialNames, Zenon
    <3> QED
      BY <1>0, <2>1, <2>2, <3>5, Zenon DEF StateTypes
  <2>4. CASE Head(chunk).kind # "didClose"
    <3>1. shown' = shown
      BY <1>2, <2>4, Zenon DEF process_message
    <3> QED
      BY <1>0, <2>1, <2>2, <3>1, Zenon DEF StateTypes
  <2> QED
    BY <2>3, <2>4, Zenon
<1>3. CASE workerAnalyze
  BY <1>0, <1>3, Zenon DEF workerAnalyze, StateTypes
<1>4. ASSUME NEW s \in StateType, publish(s), snapshot' = snapshot PROVE StateTypes'
  <2>1. shared' \in StateType /\ shown' \in Reports
    BY <1>0, <1>4, Commit, MergedType, Zenon DEF Published
  <2>2. s.documents \in Docs
    BY DEF StateType
  <2>3. analyzed' \in Docs
    BY <1>0, <1>4, <2>2, Commit, Zenon
  <2> QED
    BY <1>0, <1>4, <2>1, <2>3, Zenon DEF StateTypes
<1>5. CASE workerParse \/ workerPublish
  BY <1>0, <1>4, <1>5, Zenon DEF workerParse, workerPublish, localVars
<1> QED
  BY <1>1, <1>2, <1>3, <1>5, StateKept, Zenon

LEMMA InitTypes == Init => Types
<1> SUFFICES ASSUME Init PROVE Types
  OBVIOUS
<1>1. Nothing \in Docs /\ Nothing \in Reports
  BY NothingType, PartialNames, Zenon
<1>2. /\ <<>> \in Seq(MessageType) /\ Len(<<>>) = 0 /\ <<>> \in Seq(Gens)
      /\ 0 \in 0..MaxMessages /\ 0 \in Nat /\ 0 + 0 + 0 <= 0 /\ FALSE \in BOOLEAN
  BY LoopAssumption
<1>3. initial_state \in StateType
  BY <1>1, <1>2 DEF initial_state, StateType
<1>4. <<Dispatcher, Worker>> \in Seq(TaskType)
  BY TaskNames
<1>5. debounce \in [Gens -> {"absent", "new", "awake", "parked", "done"}]
  BY DEF Init
<1>6. PipeTypes
  BY <1>1, <1>2, Zenon DEF Init, PipeTypes
<1>7. TaskTypes
  BY <1>2, <1>4, <1>5, Zenon DEF Init, TaskTypes
<1>8. StateTypes
  BY <1>1, <1>3, Zenon DEF Init, StateTypes
<1> QED
  BY <1>6, <1>7, <1>8, Zenon DEF Types

LEMMA TypesStutter == Types /\ UNCHANGED vars => Types'
BY Zenon DEF Types, PipeTypes, TaskTypes, StateTypes, vars, clientVars, jobVars, localVars

LEMMA TypesInvariant == Spec => []Types
<1>1. Types /\ [Next]_vars => Types'
  <2>1. Types /\ Next => Types'
    BY PipeNext, TaskNext, StateNext, Zenon DEF Types
  <2> QED
    BY <2>1, TypesStutter, Zenon
<1> QED
  BY <1>1, InitTypes, PTL DEF Spec

-----------------------------------------------------------------------------
(* CleanIsCurrent.                                                         *)

\* A run that yields is a full one.
Clean == CleanIsCurrent /\ (worker = "analyzing" => snapshot.tier = "Full")

\* The analysis starts with workerAnalyze only.
LEMMA AnalyzingKept ==
    ASSUME Next, worker' = "analyzing"
    PROVE  workerAnalyze \/ (worker = "analyzing" /\ UNCHANGED <<snapshot, job>>)
<1>0. /\ "loop" # "analyzing" /\ "recv" # "analyzing" /\ "job" # "analyzing"
      /\ "done" # "analyzing"
  OBVIOUS
<1>1. CASE Client
  BY <1>1, Zenon DEF Client, clientOpen, clientChange, clientSave, clientClose, clientEnd,
                     clientEof, say, localVars
<1>2. CASE ReaderStep
  BY <1>0, <1>2, Zenon
  DEF ReaderStep, read_chunk, readEof, readerSend, readerRecvAck, readerLoop,
      readerEnd, readerJoin, readerExit, pipeVars, serverVars, localVars
<1>3. CASE DispatcherStep
  BY <1>3, Zenon DEF DispatcherStep, dispatcherRecv, process_message, dispatcherAck,
                     dispatcherLoop, pipeVars, serverVars, localVars
<1>4. CASE DebounceStep
  BY <1>0, <1>4, Zenon DEF DebounceStep, debounceStart, debounceSend, bounceVars, serverVars
<1>5. CASE WorkerStep
  BY <1>0, <1>5, Zenon
  DEF WorkerStep, workerRecv, workerSkip, workerParse, workerYield, workerPublish,
      workerSuperseded, localVars, jobDone
<1>6. CASE Time
  BY <1>6, Zenon DEF Time, timerFires, elapse, serverVars, localVars
<1> QED
  BY <1>1, <1>2, <1>3, <1>4, <1>5, <1>6, Zenon DEF Next

LEMMA CleanNext ==
    ASSUME Types, Clean, Next
    PROVE  Clean'
<1>0. /\ shared \in StateType /\ snapshot \in StateType
  BY Zenon DEF Types, StateTypes
<1>t. worker' = "analyzing" => snapshot'.tier = "Full"
  BY AnalyzingKept, Zenon DEF workerAnalyze, Clean
<1>1. CASE UNCHANGED <<shared, snapshot, shown, analyzed>>
  BY <1>1, <1>t, Zenon DEF Clean, CleanIsCurrent
<1>2. CASE process_message
  <2> DEFINE m == Head(chunk)
  <2>1. /\ m \in MessageType /\ analyzed' = analyzed
        /\ m.kind \in {"didOpen", "didChange"} => Opened(shared', shared, m)
        /\ m.kind = "didSave" => Saved(shared', shared)
        /\ m.kind = "didClose" => Closed(shared', shared, m)
        /\ m.kind \in {"shutdown", "exit"} => EndOf(shared', shared, m)
    BY <1>2, Taken, Notified, Zenon DEF process_message
  <2>2. m.kind \in {"didOpen", "didChange", "didSave", "didClose", "shutdown", "exit"}
    BY <2>1 DEF MessageType, EditType, TouchType, EndType
  <2> HIDE DEF m
  <2>3. CASE shared'.full_dirty = TRUE
    BY <1>t, <2>3, Zenon DEF Clean, CleanIsCurrent
  <2>4. CASE shared'.documents = shared.documents /\ shared'.full_dirty = shared.full_dirty
    BY <1>t, <2>1, <2>4, Zenon DEF Clean, CleanIsCurrent
  <2>5. CASE Closed(shared', shared, m)
    <3>1. /\ DOMAIN shared'.documents \subseteq DOMAIN shared.documents
          /\ \A u \in DOMAIN shared'.documents : shared'.documents[u] = shared.documents[u]
      <4>1. shared'.documents = Drop(shared.documents, m.uri)
        BY <2>5, Zenon DEF Closed
      <4> QED
        BY <4>1 DEF Drop, Restrict
    <3>2. CASE DOMAIN shared'.documents = {}
      BY <1>t, <3>2, Zenon DEF Clean, CleanIsCurrent
    <3>3. CASE shared'.full_dirty = shared.full_dirty
      BY <1>t, <2>1, <3>1, <3>3, Zenon DEF Clean, CleanIsCurrent
    <3> QED
      BY <2>5, <3>2, <3>3, Zenon DEF Closed
  <2> QED
    BY <2>1, <2>2, <2>3, <2>4, <2>5, Zenon DEF Opened, Saved, EndOf
<1>3. CASE workerAnalyze
  BY <1>3, <1>t, Zenon DEF workerAnalyze, Clean, CleanIsCurrent
<1>4. CASE workerParse
  <2>1. publish(shared) /\ shared.tier = "Parse"
    BY <1>4, Zenon DEF workerParse
  <2>2. "Parse" # "Full"
    OBVIOUS
  <2>3. Published(shared', shared) /\ analyzed' = analyzed
    BY <1>0, <2>1, <2>2, Commit, Zenon
  <2> QED
    BY <1>t, <2>1, <2>3, Zenon DEF Published, Clean, CleanIsCurrent
<1>5. CASE workerPublish
  <2>1. publish(snapshot) /\ snapshot.tier = "Full"
    BY <1>5, Zenon DEF workerPublish, Clean
  <2>2. Published(shared', snapshot) /\ analyzed' = snapshot.documents
    BY <1>0, <2>1, Commit, Zenon
  <2> QED
    BY <1>t, <2>2, Zenon DEF Published, Clean, CleanIsCurrent
<1> QED
  BY <1>1, <1>2, <1>3, <1>4, <1>5, StateKept, Zenon

LEMMA CleanInvariant == Spec => []Clean
<1>1. Init => Clean
  <2> SUFFICES ASSUME Init PROVE Clean
    OBVIOUS
  <2>1. DOMAIN shared.documents = {}
    <3>1. shared.documents = Nothing
      BY DEF Init, initial_state
    <3> QED
      BY <3>1, NothingType
  <2>2. worker # "analyzing"
    BY DEF Init
  <2> QED
    BY <2>1, <2>2, Zenon DEF Clean, CleanIsCurrent
<1>2. Types /\ Clean /\ [Next]_vars => Clean'
  <2>1. Clean /\ UNCHANGED vars => Clean'
    BY Zenon DEF Clean, CleanIsCurrent, vars, localVars
  <2> QED
    BY <2>1, CleanNext, Zenon
<1> QED
  BY <1>1, <1>2, TypesInvariant, PTL DEF Spec

\* The features that need a full snapshot are gated on full_dirty
\* (server_core.tw:721): for any documents, edits, closes, saves and interleaving
\* of the analysis with them, when it is off the last full run that the worker
\* committed (lsp.tw:354) saw every open document as it is now.
THEOREM CleanIsCurrentHolds == Spec => []CleanIsCurrent
<1>1. Clean => CleanIsCurrent
  BY Zenon DEF Clean
<1> QED
  BY <1>1, CleanInvariant, PTL

-----------------------------------------------------------------------------
(* PendingIsScheduled.                                                     *)

\* The deadline is that of the current generation.
Dated ==
    /\ shared.deadline = gen /\ (shared.pending = TRUE => gen \in Gens)
    /\ worker = "analyzing" => snapshot.deadline = job

\* A debounce task that is ready has not started or its deadline has passed,
\* and it is ready once.
Bounced(q, d, e, n) ==
    \A i \in DOMAIN q : q[i].task = "debounce" =>
        /\ q[i].gen <= n
        /\ d[q[i].gen] = "new" \/ q[i].gen \in e
        /\ \A j \in DOMAIN q : q[j] = q[i] => j = i

\* The deadline of what is queued for the worker has passed.
Elapsed ==
    /\ \A i \in DOMAIN jobs : jobs[i] \in elapsed
    /\ \A i \in DOMAIN parked : parked[i] \in elapsed
    /\ worker \in {"job", "analyzing"} => job \in elapsed
    /\ \A t \in timers : t.task = "debounce" => t.gen <= gen
    /\ Bounced(ready, debounce, elapsed, gen)

LEMMA TaskFields ==
    /\ Reader.task # "debounce" /\ Dispatcher.task # "debounce" /\ Worker.task # "debounce"
    /\ \A g : Debounce(g).task = "debounce" /\ Debounce(g).gen = g
    /\ \A t \in TaskType : t.task = "debounce" => t.gen \in Gens /\ t = Debounce(t.gen)
BY DEF Reader, Dispatcher, Worker, Debounce, TaskType

LEMMA TailEntries ==
    ASSUME NEW T, NEW q \in Seq(T), q # <<>>
    PROVE  /\ \A i \in DOMAIN Tail(q) : i + 1 \in DOMAIN q /\ Tail(q)[i] = q[i + 1]
           /\ 1 \in DOMAIN q /\ Head(q) = q[1]
           /\ \A i \in DOMAIN q : i = 1 \/ (i - 1 \in DOMAIN Tail(q) /\ Tail(q)[i - 1] = q[i])
           /\ DOMAIN Tail(q) \subseteq Int /\ DOMAIN q \subseteq Int
OBVIOUS

LEMMA AppendEntries ==
    ASSUME NEW T, NEW q \in Seq(T), NEW x \in T
    PROVE  /\ DOMAIN Append(q, x) = DOMAIN q \cup {Len(q) + 1}
           /\ \A i \in DOMAIN q : Append(q, x)[i] = q[i] /\ i # Len(q) + 1
           /\ Append(q, x)[Len(q) + 1] = x
OBVIOUS

LEMMA BouncedTail ==
    ASSUME NEW T, NEW q \in Seq(T), q # <<>>, NEW d, NEW e, NEW n, Bounced(q, d, e, n)
    PROVE  Bounced(Tail(q), d, e, n)
<1> SUFFICES ASSUME NEW i \in DOMAIN Tail(q), Tail(q)[i].task = "debounce"
             PROVE  /\ Tail(q)[i].gen <= n
                    /\ d[Tail(q)[i].gen] = "new" \/ Tail(q)[i].gen \in e
                    /\ \A j \in DOMAIN Tail(q) : Tail(q)[j] = Tail(q)[i] => j = i
  BY Zenon DEF Bounced
<1>1. i + 1 \in DOMAIN q /\ Tail(q)[i] = q[i + 1]
  BY TailEntries
<1>2. /\ q[i + 1].gen <= n
      /\ d[q[i + 1].gen] = "new" \/ q[i + 1].gen \in e
      /\ \A j \in DOMAIN q : q[j] = q[i + 1] => j = i + 1
  BY <1>1, Zenon DEF Bounced
<1>3. ASSUME NEW j \in DOMAIN Tail(q), Tail(q)[j] = Tail(q)[i] PROVE j = i
  <2>1. j + 1 \in DOMAIN q /\ Tail(q)[j] = q[j + 1] /\ i \in Int /\ j \in Int
    BY TailEntries
  <2>2. j + 1 = i + 1
    BY <1>1, <1>2, <1>3, <2>1, Zenon
  <2> QED
    BY <2>1, <2>2
<1> QED
  BY <1>1, <1>2, <1>3, Zenon

LEMMA BouncedAppend ==
    ASSUME NEW T, NEW q \in Seq(T), NEW x \in T, NEW d, NEW e, NEW n, Bounced(q, d, e, n),
           x.task = "debounce" => /\ x.gen <= n /\ (d[x.gen] = "new" \/ x.gen \in e)
                                  /\ \A j \in DOMAIN q : q[j] # x
    PROVE  Bounced(Append(q, x), d, e, n)
<1> DEFINE r == Append(q, x)
           l == Len(q) + 1
<1>1. /\ DOMAIN r = DOMAIN q \cup {l}
      /\ \A i \in DOMAIN q : r[i] = q[i] /\ i # l
      /\ r[l] = x
  BY AppendEntries
<1> HIDE DEF r, l
<1> SUFFICES ASSUME NEW i \in DOMAIN r, r[i].task = "debounce"
             PROVE  /\ r[i].gen <= n
                    /\ d[r[i].gen] = "new" \/ r[i].gen \in e
                    /\ \A j \in DOMAIN r : r[j] = r[i] => j = i
  BY Zenon DEF Bounced, r
<1>2. CASE i = l
  BY <1>1, <1>2, Zenon
<1>3. CASE i \in DOMAIN q
  <2>1. /\ q[i].gen <= n
        /\ d[q[i].gen] = "new" \/ q[i].gen \in e
        /\ \A j \in DOMAIN q : q[j] = q[i] => j = i
    BY <1>1, <1>3, Zenon DEF Bounced
  <2>2. r[l] = r[i] => FALSE
    BY <1>1, <1>3, Zenon
  <2> QED
    BY <1>1, <1>3, <2>1, <2>2, Zenon
<1> QED
  BY <1>1, <1>2, <1>3, Zenon

\* Deadlines pass, and tasks start when they have or are new.
LEMMA BouncedLater ==
    ASSUME NEW q, NEW d, NEW e, NEW n, Bounced(q, d, e, n), NEW d2, NEW e2, NEW n2,
           \A i \in DOMAIN q : q[i].task = "debounce" =>
              /\ q[i].gen <= n2
              /\ \/ d2[q[i].gen] = d[q[i].gen] /\ (q[i].gen \in e => q[i].gen \in e2)
                 \/ d2[q[i].gen] = "new" \/ q[i].gen \in e2
    PROVE  Bounced(q, d2, e2, n2)
BY Zenon DEF Bounced

\* How the queue of the ready tasks moves.
LEMMA ReadyMoves ==
    ASSUME Types, Next
    PROVE  \/ ready' = ready \/ (ready # <<>> /\ ready' = Tail(ready))
           \/ \E t \in {Reader, Dispatcher, Worker} :
                 ready' = Append(ready, t) \/ (ready # <<>> /\ ready' = Append(Tail(ready), t))
           \/ process_message \/ \E t \in timers : timerFires(t)
<1>0. TaskTypes
  BY Zenon DEF Types
<1> DEFINE N == {Reader, Dispatcher, Worker}
           ok == \/ ready' = ready \/ (ready # <<>> /\ ready' = Tail(ready))
                 \/ \E t \in N :
                       ready' = Append(ready, t) \/ (ready # <<>> /\ ready' = Append(Tail(ready), t))
<1>k. /\ keep(<<>>) => ok
      /\ \A t \in N : keep(<<t>>) => ok
      /\ \A t : run(t) => (wait(<<>>) => ok) /\ \A u \in N : wait(<<u>>) => ok
  BY <1>0, Moves, Zenon DEF run
<1>n. Reader \in N /\ Dispatcher \in N /\ Worker \in N
  OBVIOUS
<1>u. ready' = ready => ok
  OBVIOUS
<1> HIDE DEF ok, N
<1>1. CASE Client
  BY <1>1, <1>u, Zenon DEF Client, clientOpen, clientChange, clientSave, clientClose, clientEnd,
                           clientEof, say, ok, N
<1>2. CASE ReaderStep
  <2>1. ok
    BY <1>2, <1>k, <1>n, Zenon
    DEF ReaderStep, read_chunk, readEof, readerSend, readerRecvAck, readerLoop, readerEnd,
        readerJoin, readerExit
  <2> QED
    BY <2>1, Zenon DEF ok, N
<1>3. CASE dispatcherRecv \/ dispatcherAck \/ dispatcherLoop
  <2>1. ok
    BY <1>3, <1>k, <1>n, Zenon
    DEF dispatcherRecv, dispatcherDone, dispatcherAck, dispatcherLoop, yieldHop, yieldFast
  <2> QED
    BY <2>1, Zenon DEF ok, N
<1>5. CASE DebounceStep
  <2>1. ok
    BY <1>5, <1>k, <1>n, Zenon DEF DebounceStep, debounceStart, debounceSend
  <2> QED
    BY <2>1, Zenon DEF ok, N
<1>6. CASE WorkerStep
  <2>1. ok
    BY <1>6, <1>k, <1>n, Zenon
    DEF WorkerStep, workerRecv, workerSkip, workerParse, workerAnalyze, workerYield,
        workerPublish, workerSuperseded, jobDone, yieldHop, yieldFast
  <2> QED
    BY <2>1, Zenon DEF ok, N
<1>7. CASE Time
  <2>1. (\E g \in Gens : elapse(g)) => ready' = ready
    BY Zenon DEF elapse
  <2> QED
    BY <1>7, <2>1, Zenon DEF Time
<1> QED
  BY <1>1, <1>2, <1>3, <1>5, <1>6, <1>7, Zenon DEF Next, DispatcherStep

\* A notification starts a generation or leaves the schedule alone.
Armed ==
    /\ shared'.pending = TRUE /\ shared'.deadline = gen + 1 /\ gen' = gen + 1
    /\ debounce' = [debounce EXCEPT ![gen + 1] = "new"]
    /\ elapsed' = elapsed \cup {gen + 1} \/ elapsed' = elapsed
    /\ shared'.tier = "Full" => gen' \in elapsed'
    /\ ready' = Append(ready, Debounce(gen + 1))

Unarmed ==
    /\ shared'.pending = shared.pending /\ shared'.deadline = shared.deadline
    /\ shared'.tier = shared.tier
    /\ UNCHANGED <<gen, debounce, elapsed, ready>>

LEMMA ProcessCases ==
    ASSUME Types, Dated, process_message
    PROVE  /\ Armed \/ Unarmed
           /\ gen + 1 \in Gens
           /\ UNCHANGED <<timers, hopped, reader, dispatcher, worker, jobVars, localVars>>
<1> DEFINE m == Head(chunk)
           s == handle_notification(shared, m)
           rearmed == s.pending /\ s.deadline # shared.deadline
<1>1. /\ m \in MessageType /\ gen + 1 \in Gens /\ shared \in StateType /\ shared' = s
  BY Taken, Zenon
<1>2. /\ \/ /\ rearmed
            /\ gen' = gen + 1
            /\ debounce' = [debounce EXCEPT ![gen + 1] = "new"]
            /\ elapsed' = IF s.tier = "Full" THEN elapsed \cup {gen + 1} ELSE elapsed
            /\ keep(<<Debounce(gen + 1)>>)
         \/ ~rearmed /\ UNCHANGED <<gen, debounce, elapsed, ready>>
      /\ UNCHANGED <<timers, hopped, reader, dispatcher, worker, jobVars, localVars>>
  BY Zenon DEF process_message
<1>3. /\ m.kind \in {"didOpen", "didChange"} => Opened(s, shared, m)
      /\ m.kind = "didSave" => Saved(s, shared)
      /\ m.kind = "didClose" => Closed(s, shared, m)
      /\ m.kind \in {"shutdown", "exit"} => EndOf(s, shared, m)
  BY <1>1, Notified, Zenon
<1>4. m.kind \in {"didOpen", "didChange", "didSave", "didClose", "shutdown", "exit"}
  BY <1>1 DEF MessageType, EditType, TouchType, EndType
<1>5. gen + 1 # gen /\ shared.deadline = gen
  <2>1. gen \in Nat
    BY Zenon DEF Types, PipeTypes
  <2>2. shared.deadline = gen
    BY Zenon DEF Dated
  <2> QED
    BY <2>1, <2>2
<1>6. keep(<<Debounce(gen + 1)>>) => ready' = Append(ready, Debounce(gen + 1))
  BY Moves, Zenon DEF Types
<1> HIDE DEF m, s
<1>7. \/ s.pending = TRUE /\ s.deadline = gen + 1
      \/ s.pending = shared.pending /\ s.deadline = shared.deadline /\ s.tier = shared.tier
  BY <1>3, <1>4, Zenon DEF Opened, Saved, Closed, EndOf, Rearmed
<1>8. CASE s.pending = TRUE /\ s.deadline = gen + 1
  <2>1. Armed
    <3>1. gen + 1 \in elapsed \cup {gen + 1}
      OBVIOUS
    <3> QED
      BY <1>1, <1>2, <1>5, <1>6, <1>8, <3>1, Zenon DEF Armed
  <2> QED
    BY <1>1, <1>2, <2>1, Zenon
<1>9. CASE s.pending = shared.pending /\ s.deadline = shared.deadline /\ s.tier = shared.tier
  <2>1. Unarmed
    BY <1>1, <1>2, <1>9, Zenon DEF Unarmed
  <2> QED
    BY <1>1, <1>2, <2>1, Zenon
<1> QED
  BY <1>7, <1>8, <1>9, Zenon

LEMMA GenKept ==
    ASSUME Next
    PROVE  gen' = gen \/ process_message
<1>1. /\ readerJoin => gen' = gen
      /\ workerRecv => gen' = gen
      /\ \A g : debounceStart(g) \/ debounceSend(g) \/ elapse(g) => gen' = gen
  BY Zenon DEF readerJoin, workerRecv, debounceStart, debounceSend, elapse, serverVars,
               workerVars, bounceVars
<1> QED
  BY <1>1, ChannelKept, Zenon

LEMMA DatedNext ==
    ASSUME Types, Dated, Next
    PROVE  Dated'
<1>0. /\ shared \in StateType /\ snapshot \in StateType
  BY Zenon DEF Types, StateTypes
<1>1. worker' = "analyzing" => snapshot'.deadline = job'
  <2>1. workerAnalyze => snapshot' = shared /\ job' = job /\ gen = job
    BY Zenon DEF workerAnalyze
  <2> QED
    BY <2>1, AnalyzingKept, Zenon DEF Dated
<1>2. CASE process_message
  <2>1. Armed \/ Unarmed
    BY <1>2, ProcessCases, Zenon
  <2>2. gen + 1 \in Gens
    BY <1>2, ProcessCases, Zenon
  <2> QED
    BY <1>1, <2>1, <2>2, Zenon DEF Armed, Unarmed, Dated
<1>3. CASE workerAnalyze
  <2>1. shared' = shared /\ gen' = gen
    BY <1>3, Zenon DEF workerAnalyze, workerVars
  <2> QED
    BY <1>1, <2>1, Zenon DEF Dated
<1>4. CASE workerParse
  <2>1. publish(shared) /\ gen' = gen
    BY <1>4, Zenon DEF workerParse, workerVars
  <2>2. Published(shared', shared)
    BY <1>0, <2>1, Commit, Zenon
  <2>3. FALSE # TRUE
    OBVIOUS
  <2> QED
    BY <1>1, <2>1, <2>2, <2>3, Zenon DEF Published, Dated
<1>5. CASE workerPublish
  <2>1. publish(snapshot) /\ gen' = gen /\ worker = "analyzing" /\ gen = job
    BY <1>5, Zenon DEF workerPublish, workerVars
  <2>2. Published(shared', snapshot)
    BY <1>0, <2>1, Commit, Zenon
  <2>3. FALSE # TRUE
    OBVIOUS
  <2> QED
    BY <1>1, <2>1, <2>2, <2>3, Zenon DEF Published, Dated
<1>6. CASE UNCHANGED <<shared, snapshot, shown, analyzed>>
  BY <1>1, <1>2, <1>6, GenKept, Zenon DEF Dated
<1> QED
  BY <1>2, <1>3, <1>4, <1>5, <1>6, StateKept, Zenon

\* How the worker gets a job, and what it does with it.
LEMMA WorkerKept ==
    ASSUME Next, worker' \in {"job", "analyzing"}
    PROVE  \/ workerRecv \/ \E g \in Gens : debounceSend(g)
           \/ worker \in {"job", "analyzing"} /\ job' = job
<1> DEFINE W == {"job", "analyzing"}
<1>0. "loop" \notin W /\ "recv" \notin W /\ "done" \notin W /\ "job" \in W /\ "analyzing" \in W
  OBVIOUS
<1>w. worker' \in W
  OBVIOUS
<1> HIDE DEF W
<1>1. CASE Client
  BY <1>1, Zenon DEF Client, clientOpen, clientChange, clientSave, clientClose, clientEnd,
                     clientEof, say, localVars
<1>2. CASE ReaderStep
  BY <1>0, <1>w, <1>2, Zenon
  DEF ReaderStep, read_chunk, readEof, readerSend, readerRecvAck, readerLoop,
      readerEnd, readerJoin, readerExit, pipeVars, serverVars, localVars
<1>3. CASE DispatcherStep
  BY <1>3, Zenon DEF DispatcherStep, dispatcherRecv, process_message, dispatcherAck,
                     dispatcherLoop, pipeVars, serverVars, localVars
<1>4. CASE DebounceStep
  BY <1>4, Zenon DEF DebounceStep, debounceStart
<1>5. CASE WorkerStep
  BY <1>0, <1>w, <1>5, Zenon
  DEF W, WorkerStep, workerSkip, workerParse, workerAnalyze, workerYield, workerPublish,
      workerSuperseded, localVars, jobDone
<1>6. CASE Time
  BY <1>6, Zenon DEF Time, timerFires, elapse, serverVars, localVars
<1> QED
  BY <1>1, <1>2, <1>3, <1>4, <1>5, <1>6, Zenon DEF Next

LEMMA WorkerLeaves ==
    ASSUME Next, worker \in {"job", "analyzing"}
    PROVE  \/ worker' \in {"job", "analyzing"} /\ job' = job
           \/ workerSkip \/ workerParse \/ workerPublish \/ workerSuperseded
<1> DEFINE W == {"job", "analyzing"}
<1>0. /\ "loop" \notin W /\ "recv" \notin W /\ "done" \notin W /\ "job" \in W /\ "analyzing" \in W
      /\ worker \in W
  OBVIOUS
<1> HIDE DEF W
<1>1. CASE Client
  BY <1>1, Zenon DEF Client, clientOpen, clientChange, clientSave, clientClose, clientEnd,
                     clientEof, say, localVars
<1>2. CASE ReaderStep
  BY <1>0, <1>2, Zenon
  DEF ReaderStep, read_chunk, readEof, readerSend, readerRecvAck, readerLoop,
      readerEnd, readerJoin, readerExit, pipeVars, serverVars, localVars
<1>3. CASE DispatcherStep
  BY <1>3, Zenon DEF DispatcherStep, dispatcherRecv, process_message, dispatcherAck,
                     dispatcherLoop, pipeVars, serverVars, localVars
<1>4. CASE DebounceStep
  BY <1>0, <1>4, Zenon DEF DebounceStep, debounceStart, debounceSend
<1>5. CASE WorkerStep
  BY <1>0, <1>5, Zenon
  DEF W, WorkerStep, workerRecv, workerAnalyze, workerYield, localVars
<1>6. CASE Time
  BY <1>6, Zenon DEF Time, timerFires, elapse, serverVars, localVars
<1> QED
  BY <1>1, <1>2, <1>3, <1>4, <1>5, <1>6, Zenon DEF Next

LEMMA ElapsedGrows ==
    ASSUME Next
    PROVE  \A g \in elapsed : g \in elapsed'
<1>1. /\ readerJoin => elapsed' = elapsed
      /\ workerRecv => elapsed' = elapsed
      /\ \A g : debounceStart(g) \/ debounceSend(g) => elapsed' = elapsed
      /\ \A g : elapse(g) => elapsed' = elapsed \cup {g}
      /\ process_message => elapsed' = elapsed \cup {gen + 1} \/ elapsed' = elapsed
  BY Zenon DEF readerJoin, workerRecv, debounceStart, debounceSend, elapse, process_message,
               serverVars, workerVars, bounceVars
<1> QED
  BY <1>1, ChannelKept, Zenon

\* The debounce task that runs.
LEMMA BouncedHead ==
    ASSUME Types, Elapsed, NEW g \in Gens, run(Debounce(g))
    PROVE  /\ g <= gen /\ (debounce[g] = "new" \/ g \in elapsed)
           /\ \A i \in DOMAIN Tail(ready) : Tail(ready)[i] # Debounce(g)
<1>1. ready \in Seq(TaskType) /\ ready # <<>> /\ Head(ready) = Debounce(g)
  BY Zenon DEF Types, TaskTypes, run
<1>2. 1 \in DOMAIN ready /\ Head(ready) = ready[1]
  BY <1>1, TailEntries
<1>3. /\ g <= gen /\ (debounce[g] = "new" \/ g \in elapsed)
      /\ \A j \in DOMAIN ready : ready[j] = Debounce(g) => j = 1
  <2>1. ready[1].task = "debounce" /\ ready[1].gen = g /\ ready[1] = Debounce(g)
    BY <1>1, <1>2, TaskFields, Zenon
  <2>2. /\ ready[1].gen <= gen
        /\ debounce[ready[1].gen] = "new" \/ ready[1].gen \in elapsed
        /\ \A j \in DOMAIN ready : ready[j] = ready[1] => j = 1
    BY <1>2, <2>1, Zenon DEF Elapsed, Bounced
  <2> QED
    BY <2>1, <2>2, Zenon
<1>4. ASSUME NEW i \in DOMAIN Tail(ready), Tail(ready)[i] = Debounce(g) PROVE FALSE
  <2>1. i + 1 \in DOMAIN ready /\ Tail(ready)[i] = ready[i + 1]
    BY <1>1, TailEntries
  <2>3. i \in 1..Len(Tail(ready))
    BY <1>1
  <2>2. i + 1 = 1
    BY <1>3, <1>4, <2>1, Zenon
  <2> QED
    BY <2>2, <2>3
<1> QED
  BY <1>3, <1>4, Zenon

\* All entries of a queue are in a set.
LEMMA EntriesIn ==
    ASSUME NEW E, NEW T, NEW q \in Seq(T), \A i \in DOMAIN q : q[i] \in E
    PROVE  /\ q # <<>> => Head(q) \in E /\ \A i \in DOMAIN Tail(q) : Tail(q)[i] \in E
           /\ \A x \in T : x \in E => \A i \in DOMAIN Append(q, x) : Append(q, x)[i] \in E
OBVIOUS

LEMMA EntriesRotate ==
    ASSUME NEW E, NEW T, NEW q \in Seq(T), \A i \in DOMAIN q : q[i] \in E, q # <<>>,
           NEW x \in T, x \in E
    PROVE  \A i \in DOMAIN Append(Tail(q), x) : Append(Tail(q), x)[i] \in E
OBVIOUS

\* What the generations that are queued or at work have in common.
LEMMA QueueNext ==
    ASSUME Types, Elapsed, Next
    PROVE  /\ \A i \in DOMAIN jobs' : jobs'[i] \in elapsed'
           /\ \A i \in DOMAIN parked' : parked'[i] \in elapsed'
           /\ worker' \in {"job", "analyzing"} => job' \in elapsed'
<1> DEFINE E == elapsed
<1>0. /\ jobs \in Seq(Gens) /\ parked \in Seq(Gens)
      /\ \A i \in DOMAIN jobs : jobs[i] \in E
      /\ \A i \in DOMAIN parked : parked[i] \in E
      /\ worker \in {"job", "analyzing"} => job \in E
  BY Zenon DEF Types, TaskTypes, Elapsed
<1>s. /\ jobs # <<>> => Head(jobs) \in Gens /\ Tail(jobs) \in Seq(Gens)
      /\ parked # <<>> => Head(parked) \in Gens
  BY <1>0
<1> SUFFICES /\ \A i \in DOMAIN jobs' : jobs'[i] \in E
             /\ \A i \in DOMAIN parked' : parked'[i] \in E
             /\ worker' \in {"job", "analyzing"} => job' \in E
  BY ElapsedGrows, Zenon
<1>k. CASE UNCHANGED <<jobs, parked>> /\ ~workerRecv /\ ~\E g \in Gens : debounceSend(g)
  BY <1>0, <1>k, WorkerKept, Zenon
<1>1. CASE workerRecv
  <2>1. CASE jobs # <<>> /\ parked # <<>>
    <3>1. /\ job' = Head(jobs) /\ jobs' = Append(Tail(jobs), Head(parked))
          /\ parked' = Tail(parked)
      BY <1>1, <2>1, Zenon DEF workerRecv
    <3>2. /\ Head(jobs) \in E /\ Head(parked) \in E
          /\ \A i \in DOMAIN Tail(parked) : Tail(parked)[i] \in E
      BY <1>0, <2>1, EntriesIn, Zenon
    <3>3. \A i \in DOMAIN Append(Tail(jobs), Head(parked)) : Append(Tail(jobs), Head(parked))[i] \in E
      BY <1>0, <1>s, <2>1, <3>2, EntriesRotate, Zenon
    <3> QED
      BY <3>1, <3>2, <3>3, Zenon
  <2>2. CASE jobs # <<>> /\ parked = <<>>
    <3>1. job' = Head(jobs) /\ jobs' = Tail(jobs) /\ parked' = parked
      BY <1>1, <2>2, Zenon DEF workerRecv
    <3>2. Head(jobs) \in E /\ \A i \in DOMAIN Tail(jobs) : Tail(jobs)[i] \in E
      BY <1>0, <2>2, EntriesIn, Zenon
    <3> QED
      BY <1>0, <3>1, <3>2, Zenon
  <2>3. CASE jobs = <<>>
    <3>1. UNCHANGED <<jobs, parked>> /\ (worker' = "done" \/ worker' = "recv")
      BY <1>1, <2>3, Zenon DEF workerRecv
    <3>2. worker' \notin {"job", "analyzing"}
      BY <3>1
    <3> QED
      BY <1>0, <3>1, <3>2, Zenon
  <2> QED
    BY <2>1, <2>2, <2>3, Zenon
<1>2. ASSUME NEW g \in Gens, debounceSend(g)
      PROVE  /\ \A i \in DOMAIN jobs' : jobs'[i] \in E
             /\ \A i \in DOMAIN parked' : parked'[i] \in E
             /\ worker' \in {"job", "analyzing"} => job' \in E
  <2>1. run(Debounce(g)) /\ debounce[g] = "awake"
    BY <1>2, Zenon DEF debounceSend
  <2>2. "awake" # "new"
    OBVIOUS
  <2>3. g \in E
    BY <2>1, <2>2, BouncedHead, Zenon
  <2>4. /\ jobs' = jobs \/ jobs' = Append(jobs, g)
        /\ parked' = parked \/ parked' = Append(parked, g)
        /\ (worker' = worker /\ job' = job) \/ job' = g
    BY <1>2, Zenon DEF debounceSend
  <2>5. /\ \A i \in DOMAIN Append(jobs, g) : Append(jobs, g)[i] \in E
        /\ \A i \in DOMAIN Append(parked, g) : Append(parked, g)[i] \in E
    BY <1>0, <2>3, EntriesIn, Zenon
  <2> QED
    BY <1>0, <2>3, <2>4, <2>5, Zenon
<1>3. CASE readerJoin
  <2>1. jobs' = jobs /\ parked' = <<>>
    BY <1>3, Zenon DEF readerJoin
  <2>2. DOMAIN <<>> = {}
    OBVIOUS
  <2>3. \A i \in DOMAIN parked' : parked'[i] \in E
    BY <2>1, <2>2, Zenon
  <2> QED
    BY <1>0, <1>1, <1>2, <2>1, <2>3, WorkerKept, Zenon
<1>4. CASE process_message
  BY <1>k, <1>1, <1>2, <1>4, Zenon DEF process_message, jobVars
<1>5. ASSUME NEW g \in Gens, debounceStart(g) \/ elapse(g)
      PROVE  UNCHANGED <<jobs, parked>>
  BY <1>5, Zenon DEF debounceStart, elapse, jobVars
<1> QED
  BY <1>k, <1>1, <1>2, <1>3, <1>4, <1>5, ChannelKept, Zenon

\* How the timers are set.
LEMMA TimersKept ==
    ASSUME Next, NEW t \in timers'
    PROVE  \/ t \in timers \/ t \in {Dispatcher, Worker}
           \/ \E g \in Gens : debounceStart(g) /\ t = Debounce(g)
<1>1. CASE Client
  BY <1>1, Zenon DEF Client, clientOpen, clientChange, clientSave, clientClose, clientEnd,
                     clientEof, say
<1>2. CASE ReaderStep
  BY <1>2, Zenon
  DEF ReaderStep, read_chunk, readEof, readerSend, readerRecvAck, readerLoop,
      readerEnd, readerJoin, readerExit, pipeVars
<1>3. CASE DispatcherStep
  BY <1>3, Zenon DEF DispatcherStep, dispatcherRecv, process_message, dispatcherAck,
                     dispatcherLoop, pipeVars, yieldHop, yieldFast
<1>4. CASE DebounceStep
  BY <1>4, Zenon DEF DebounceStep, debounceStart, debounceSend
<1>5. CASE WorkerStep
  BY <1>5, Zenon
  DEF WorkerStep, workerRecv, workerSkip, workerParse, workerAnalyze, workerYield,
      workerPublish, workerSuperseded, yieldHop, yieldFast
<1>6. CASE Time
  BY <1>6, Zenon DEF Time, timerFires, elapse
<1> QED
  BY <1>1, <1>2, <1>3, <1>4, <1>5, <1>6, Zenon DEF Next

LEMMA TimersNext ==
    ASSUME Types, Elapsed, Next, Dated
    PROVE  \A t \in timers' : t.task = "debounce" => t.gen <= gen'
<1>1. gen' = gen \/ gen' = gen + 1
  BY GenKept, ProcessCases, Zenon DEF Armed, Unarmed
<1>2. gen \in Nat /\ \A t \in timers : t \in TaskType
  BY Zenon DEF Types, PipeTypes, TaskTypes
<1> SUFFICES ASSUME NEW t \in timers', t.task = "debounce" PROVE t.gen <= gen'
  OBVIOUS
<1>3. t.gen <= gen /\ t.gen \in Gens
  <2>1. CASE t \in timers
    BY <1>2, <2>1, TaskFields, Zenon DEF Elapsed
  <2>2. CASE t \in {Dispatcher, Worker}
    BY <2>2, TaskFields, Zenon
  <2>3. ASSUME NEW g \in Gens, debounceStart(g), t = Debounce(g) PROVE t.gen <= gen /\ t.gen \in Gens
    <3>1. run(Debounce(g)) /\ t.gen = g
      BY <2>3, TaskFields, Zenon DEF debounceStart
    <3> QED
      BY <3>1, BouncedHead, Zenon
  <2> QED
    BY <2>1, <2>2, <2>3, TimersKept, Zenon
<1> QED
  BY <1>1, <1>2, <1>3 DEF Gens

\* A debounce task leaves the state it starts in when its deadline has passed.
LEMMA DebounceKept ==
    ASSUME Types, Elapsed, Next, ~process_message, NEW g \in Gens
    PROVE  debounce'[g] = debounce[g] \/ g \in elapsed \/ (debounceStart(g) /\ g \notin elapsed)
<1>0. /\ debounce \in [Gens -> {"absent", "new", "awake", "parked", "done"}]
      /\ parked \in Seq(Gens) /\ \A i \in DOMAIN parked : parked[i] \in elapsed
  BY Zenon DEF Types, TaskTypes, Elapsed
<1>e. \A h, v : debounce' = [debounce EXCEPT ![h] = v] => h = g \/ debounce'[g] = debounce[g]
  BY <1>0
<1>1. CASE readerJoin
  <2>1. debounce' = [h \in Gens |-> IF h \in Range(parked) THEN "done" ELSE debounce[h]]
    BY <1>1, Zenon DEF readerJoin
  <2>2. g \in Range(parked) => g \in elapsed
    BY <1>0, Zenon DEF Range
  <2> QED
    BY <2>1, <2>2
<1>2. CASE workerRecv
  <2>1. debounce' = debounce \/ (parked # <<>> /\ debounce' = [debounce EXCEPT ![Head(parked)] = "done"])
    BY <1>2, Zenon DEF workerRecv
  <2>2. parked # <<>> => Head(parked) \in elapsed
    BY <1>0, EntriesIn, Zenon
  <2> QED
    BY <1>e, <2>1, <2>2, Zenon
<1>3. ASSUME NEW h \in Gens, debounceStart(h) \/ debounceSend(h) \/ elapse(h)
      PROVE  debounce'[g] = debounce[g] \/ g \in elapsed \/ (debounceStart(g) /\ g \notin elapsed)
  <2>1. CASE debounceStart(h)
    <3>1. debounce' = [debounce EXCEPT ![h] = "awake"]
      BY <2>1, Zenon DEF debounceStart
    <3> QED
      BY <1>e, <2>1, <3>1, Zenon
  <2>2. CASE debounceSend(h)
    <3>1. run(Debounce(h)) /\ debounce[h] = "awake"
      BY <2>2, Zenon DEF debounceSend
    <3>2. "awake" # "new"
      OBVIOUS
    <3>3. h \in elapsed
      BY <3>1, <3>2, BouncedHead, Zenon
    <3>4. debounce' = [debounce EXCEPT ![h] = "done"] \/ debounce' = [debounce EXCEPT ![h] = "parked"]
      BY <2>2, Zenon DEF debounceSend
    <3> QED
      BY <1>e, <3>3, <3>4, Zenon
  <2>3. CASE elapse(h)
    BY <2>3, Zenon DEF elapse
  <2> QED
    BY <1>3, <2>1, <2>2, <2>3, Zenon
<1> QED
  BY <1>1, <1>2, <1>3, ChannelKept, Zenon

LEMMA BouncedNothing ==
    ASSUME NEW d, NEW e, NEW n
    PROVE  Bounced(<<>>, d, e, n)
<1>1. DOMAIN <<>> = {}
  OBVIOUS
<1> QED
  BY <1>1, Zenon DEF Bounced

\* Without the notification and the timers, only what runs is touched.
LEMMA BouncedRest ==
    ASSUME Types, Elapsed, Next, ~process_message, ~\E t \in timers : timerFires(t)
    PROVE  Bounced(ready', debounce', elapsed', gen')
<1>0. /\ ready \in Seq(TaskType) /\ Bounced(ready, debounce, elapsed, gen)
      /\ gen' = gen /\ Reader \in TaskType /\ Dispatcher \in TaskType /\ Worker \in TaskType
      /\ ready' \in Seq(TaskType)
  BY GenKept, TaskNames, TaskNext, Zenon DEF Types, TaskTypes, Elapsed
<1>1. ready # <<>> => Tail(ready) \in Seq(TaskType) /\ Bounced(Tail(ready), debounce, elapsed, gen)
  <2>1. ready # <<>> => Tail(ready) \in Seq(TaskType)
    BY <1>0
  <2> QED
    BY <1>0, <2>1, BouncedTail, Zenon
<1>2. ASSUME NEW t \in {Reader, Dispatcher, Worker}
      PROVE  /\ Bounced(Append(ready, t), debounce, elapsed, gen)
             /\ ready # <<>> => Bounced(Append(Tail(ready), t), debounce, elapsed, gen)
  <2>1. t \in TaskType /\ t.task # "debounce"
    BY <1>0, TaskFields, Zenon
  <2> QED
    BY <1>0, <1>1, <2>1, BouncedAppend, Zenon
<1>3. Bounced(ready', debounce, elapsed, gen)
  BY <1>0, <1>1, <1>2, ReadyMoves, Zenon
<1>4. ASSUME NEW i \in DOMAIN ready', ready'[i].task = "debounce"
      PROVE  /\ ready'[i].gen <= gen
             /\ \/ /\ debounce'[ready'[i].gen] = debounce[ready'[i].gen]
                   /\ ready'[i].gen \in elapsed => ready'[i].gen \in elapsed'
                \/ debounce'[ready'[i].gen] = "new" \/ ready'[i].gen \in elapsed'
  <2> DEFINE g == ready'[i].gen
  <2>1. g <= gen
    BY <1>3, <1>4, Zenon DEF Bounced
  <2>2. ready'[i] \in TaskType
    BY <1>0
  <2>3. g \in Gens /\ ready'[i] = Debounce(g)
    BY <1>4, <2>2, TaskFields, Zenon
  <2>4. ASSUME debounceStart(g), g \notin elapsed PROVE FALSE
    <3>1. run(Debounce(g)) /\ wait(<<>>) /\ ready # <<>>
      BY <2>4, Zenon DEF debounceStart, run
    <3>2. ready' = Tail(ready)
      BY <3>1, Moves, Zenon DEF Types
    <3>3. \A j \in DOMAIN Tail(ready) : Tail(ready)[j] # Debounce(g)
      BY <2>3, <3>1, BouncedHead, Zenon
    <3> QED
      BY <2>3, <3>2, <3>3, Zenon
  <2>5. debounce'[g] = debounce[g] \/ g \in elapsed
    BY <2>3, <2>4, DebounceKept, Zenon
  <2> QED
    BY <2>1, <2>5, ElapsedGrows, Zenon
<1> QED
  BY <1>0, <1>3, <1>4, BouncedLater, Zenon

\* A notification makes one new debounce task ready.
LEMMA BouncedArmed ==
    ASSUME Types, Elapsed, Armed, gen + 1 \in Gens
    PROVE  Bounced(ready', debounce', elapsed', gen')
<1> DEFINE n == gen + 1
           x == Debounce(n)
<1>0. /\ ready \in Seq(TaskType) /\ Bounced(ready, debounce, elapsed, gen) /\ gen \in Nat
      /\ debounce \in [Gens -> {"absent", "new", "awake", "parked", "done"}]
  BY Zenon DEF Types, PipeTypes, TaskTypes, Elapsed
<1>1. /\ gen' = n /\ debounce' = [debounce EXCEPT ![n] = "new"] /\ ready' = Append(ready, x)
      /\ \A g \in elapsed : g \in elapsed'
  BY Zenon DEF Armed
<1>2. n \in Gens /\ x \in TaskType /\ x.task = "debounce" /\ x.gen = n
  BY TaskNames, TaskFields, Zenon
<1>3. n <= n /\ debounce'[n] = "new" /\ \A g : g <= gen => g # n
  BY <1>0, <1>1, <1>2
<1>4. \A g \in Gens : g # n => debounce'[g] = debounce[g]
  BY <1>0, <1>1
<1>5. \A g \in Gens : g <= gen => g <= n
  BY <1>0 DEF Gens
<1> HIDE DEF n, x
<1>6. ASSUME NEW i \in DOMAIN ready, ready[i].task = "debounce"
      PROVE  /\ ready[i].gen <= n /\ ready[i] # x
             /\ debounce'[ready[i].gen] = debounce[ready[i].gen]
             /\ ready[i].gen \in elapsed => ready[i].gen \in elapsed'
  <2>1. ready[i].gen <= gen
    BY <1>0, <1>6, Zenon DEF Bounced
  <2>2. ready[i] \in TaskType
    BY <1>0
  <2>3. ready[i].gen \in Gens
    BY <1>6, <2>2, TaskFields, Zenon
  <2> QED
    BY <1>1, <1>2, <1>3, <1>4, <1>5, <2>1, <2>3, Zenon
<1>7. Bounced(ready, debounce', elapsed', n)
  BY <1>0, <1>6, BouncedLater, ZenonT(30)
<1>8. \A j \in DOMAIN ready : ready[j] # x
  BY <1>2, <1>6, Zenon
<1>9. Bounced(Append(ready, x), debounce', elapsed', n)
  BY <1>0, <1>2, <1>3, <1>7, <1>8, BouncedAppend, Zenon
<1> QED
  BY <1>1, <1>9, Zenon

\* A debounce task that may be woken early has nothing to wait for.
Punctual == \A t \in timers : EarlyWakes /\ t.task = "debounce" => t.gen \in elapsed

LEMMA ElapsedNext ==
    ASSUME Punctual, Types, Dated, Elapsed, Next
    PROVE  Elapsed'
<1>1. Bounced(ready', debounce', elapsed', gen')
  <2>1. CASE process_message
    <3>1. Unarmed => Bounced(ready', debounce', elapsed', gen')
      BY Zenon DEF Unarmed, Elapsed
    <3> QED
      BY <2>1, <3>1, ProcessCases, BouncedArmed, Zenon
  <2>2. ASSUME NEW t \in timers, timerFires(t)
        PROVE  Bounced(ready', debounce', elapsed', gen')
    <3>1. /\ ready = <<>> /\ keep(<<t>>) /\ UNCHANGED <<debounce, elapsed, gen>>
          /\ t.task = "debounce" => t.gen \in elapsed
      BY <2>2, Zenon DEF timerFires, serverVars, Punctual
    <3>2. ready' = Append(<<>>, t)
      BY <3>1, Moves, Zenon DEF Types
    <3>3. t \in TaskType /\ <<>> \in Seq(TaskType) /\ DOMAIN <<>> = {}
      <4>1. t \in TaskType
        BY Zenon DEF Types, TaskTypes
      <4> QED
        BY <4>1
    <3>4. t.task = "debounce" => t.gen <= gen
      BY Zenon DEF Elapsed
    <3>5. Bounced(Append(<<>>, t), debounce, elapsed, gen)
      <4>1. \A j \in DOMAIN <<>> : <<>>[j] # t
        BY <3>3, Zenon
      <4> QED
        BY <3>1, <3>3, <3>4, <4>1, BouncedNothing, BouncedAppend, Zenon
    <3> QED
      BY <3>1, <3>2, <3>5, Zenon
  <2> QED
    BY <2>1, <2>2, BouncedRest, Zenon
<1> QED
  BY <1>1, QueueNext, TimersNext, Zenon DEF Elapsed

\* Diagnostics that become pending do so by a notification.
LEMMA PendingKept ==
    ASSUME Types, Next, ~process_message, shared'.pending
    PROVE  shared.pending /\ ~workerParse /\ ~workerPublish
<1>0. /\ shared \in StateType /\ snapshot \in StateType
  BY Zenon DEF Types, StateTypes
<1>1. ASSUME workerParse \/ workerPublish PROVE FALSE
  <2>1. publish(shared) \/ publish(snapshot)
    BY <1>1, Zenon DEF workerParse, workerPublish
  <2>2. shared'.pending = FALSE
    BY <1>0, <2>1, Commit, Zenon DEF Published
  <2> QED
    BY <2>2, Zenon
<1>2. workerAnalyze => shared' = shared
  BY Zenon DEF workerAnalyze
<1> QED
  BY <1>1, <1>2, StateKept, Zenon

LEMMA RangeMoves ==
    ASSUME NEW T, NEW q \in Seq(T), NEW x \in T
    PROVE  /\ x \in Range(Append(q, x))
           /\ \A y \in Range(q) : y \in Range(Append(q, x))
           /\ q # <<>> => \A y \in Range(q) : y = Head(q) \/ y \in Range(Tail(q))
<1>1. /\ Len(q) + 1 \in DOMAIN Append(q, x) /\ Append(q, x)[Len(q) + 1] = x
      /\ \A i \in DOMAIN q : i \in DOMAIN Append(q, x) /\ Append(q, x)[i] = q[i]
  OBVIOUS
<1>2. ASSUME q # <<>>, NEW i \in DOMAIN q
      PROVE  q[i] = Head(q) \/ \E j \in DOMAIN Tail(q) : Tail(q)[j] = q[i]
  BY <1>2, TailEntries, Zenon
<1> QED
  BY <1>1, <1>2, Zenon DEF Range

\* What keeps a generation alive.
Scheduled(g) ==
    \/ debounce[g] \in {"new", "awake", "parked"}
    \/ g \in Range(jobs)
    \/ job = g /\ worker \in {"job", "analyzing"}

LEMMA RecvScheduled ==
    ASSUME Types, workerRecv, NEW g \in Gens, Scheduled(g)
    PROVE  Scheduled(g)'
<1>0. /\ debounce \in [Gens -> {"absent", "new", "awake", "parked", "done"}]
      /\ jobs \in Seq(Gens) /\ parked \in Seq(Gens)
  BY Zenon DEF Types, TaskTypes
<1>1. worker = "loop" /\ "loop" \notin {"job", "analyzing"} /\ "job" \in {"job", "analyzing"}
  BY DEF workerRecv
<1>2. CASE jobs = <<>>
  <2>1. UNCHANGED <<jobs, debounce>>
    BY <1>2, Zenon DEF workerRecv
  <2> QED
    BY <1>1, <2>1, Zenon DEF Scheduled
<1>3. CASE jobs # <<>> /\ parked = <<>>
  <2>1. job' = Head(jobs) /\ jobs' = Tail(jobs) /\ debounce' = debounce /\ worker' = "job"
    BY <1>3, Zenon DEF workerRecv
  <2>2. g \in Range(jobs) => g = Head(jobs) \/ g \in Range(Tail(jobs))
    BY <1>0, <1>3, RangeMoves, Zenon
  <2> QED
    BY <1>1, <2>1, <2>2, Zenon DEF Scheduled
<1>4. CASE jobs # <<>> /\ parked # <<>>
  <2> DEFINE p == Head(parked)
  <2>1. /\ job' = Head(jobs) /\ jobs' = Append(Tail(jobs), p) /\ worker' = "job"
        /\ debounce' = [debounce EXCEPT ![p] = "done"]
    BY <1>4, Zenon DEF workerRecv
  <2>2. p \in Gens /\ Tail(jobs) \in Seq(Gens)
    BY <1>0, <1>4
  <2>3. p = g \/ debounce'[g] = debounce[g]
    BY <1>0, <2>1
  <2> HIDE DEF p
  <2>4. /\ g \in Range(jobs) => g = Head(jobs) \/ g \in Range(Append(Tail(jobs), p))
        /\ p \in Range(Append(Tail(jobs), p))
    BY <1>0, <1>4, <2>2, RangeMoves, Zenon
  <2> QED
    BY <1>1, <2>1, <2>3, <2>4, Zenon DEF Scheduled
<1> QED
  BY <1>2, <1>3, <1>4, Zenon

LEMMA SendScheduled ==
    ASSUME Types, NEW h \in Gens, debounceSend(h), ~closed, gen \in Gens, Scheduled(gen)
    PROVE  Scheduled(gen)'
<1>0. /\ debounce \in [Gens -> {"absent", "new", "awake", "parked", "done"}]
      /\ jobs \in Seq(Gens)
  BY Zenon DEF Types, TaskTypes
<1>1. /\ \A v : debounce' = [debounce EXCEPT ![h] = v] => debounce'[h] = v
      /\ \A v : debounce' = [debounce EXCEPT ![h] = v] => h = gen \/ debounce'[gen] = debounce[gen]
      /\ "job" \in {"job", "analyzing"} /\ "parked" \in {"new", "awake", "parked"}
  BY <1>0
<1>2. gen' = gen
  BY Zenon DEF debounceSend, bounceVars, serverVars
<1>3. CASE gen # h
  <2>1. debounce' = [debounce EXCEPT ![h] = "done"] /\ UNCHANGED <<jobs, job, worker>>
    BY <1>3, Zenon DEF debounceSend
  <2> QED
    BY <1>1, <1>2, <1>3, <2>1, Zenon DEF Scheduled
<1>4. CASE gen = h
  <2>1. \/ worker' = "job" /\ job' = h
        \/ jobs' = Append(jobs, h)
        \/ debounce' = [debounce EXCEPT ![h] = "parked"]
    BY <1>4, Zenon DEF debounceSend
  <2>2. h \in Range(Append(jobs, h))
    BY <1>0, RangeMoves, Zenon
  <2> QED
    BY <1>1, <1>2, <1>4, <2>1, <2>2, Zenon DEF Scheduled
<1> QED
  BY <1>3, <1>4, Zenon

LEMMA StartScheduled ==
    ASSUME Types, NEW h \in Gens, debounceStart(h), gen \in Gens, Scheduled(gen)
    PROVE  Scheduled(gen)'
<1>0. debounce \in [Gens -> {"absent", "new", "awake", "parked", "done"}]
  BY Zenon DEF Types, TaskTypes
<1>1. /\ debounce' = [debounce EXCEPT ![h] = "awake"]
      /\ UNCHANGED <<jobs, job, worker>> /\ gen' = gen
  BY Zenon DEF debounceStart, bounceVars, serverVars
<1>2. debounce'[gen] = debounce[gen] \/ debounce'[gen] = "awake"
  BY <1>0, <1>1
<1>3. "awake" \in {"new", "awake", "parked"}
  OBVIOUS
<1> QED
  BY <1>1, <1>2, <1>3, Zenon DEF Scheduled

\* The deadline of the current generation has passed when its run begins.
Timely == job = gen /\ worker \in {"job", "analyzing"} => gen \in elapsed

\* A run that is dropped was not due, or its generation is not the current one.
LEMMA RestScheduled ==
    ASSUME Types, Dated, Timely, Next, shared.pending, ~workerParse, ~workerPublish,
           Scheduled(gen), UNCHANGED <<debounce, jobs, job, gen>>
    PROVE  Scheduled(gen)'
<1>1. CASE debounce[gen] \in {"new", "awake", "parked"} \/ gen \in Range(jobs)
  BY <1>1, Zenon DEF Scheduled
<1>2. CASE job = gen /\ worker \in {"job", "analyzing"}
  <2>1. ~workerSuperseded
    BY <1>2, Zenon DEF workerSuperseded
  <2>2. due(shared)
    BY <1>2, Zenon DEF due, Dated, Timely
  <2>3. ~workerSkip
    BY <1>2, <2>2, Zenon DEF workerSkip
  <2> QED
    BY <1>2, <2>1, <2>3, WorkerLeaves, Zenon DEF Scheduled
<1> QED
  BY <1>1, <1>2, Zenon DEF Scheduled

\* What is pending before and after a step stays scheduled.
Arms == process_message /\ Armed

LEMMA ScheduledKept ==
    ASSUME Types, Dated, Next, shared'.pending, ~closed',
           Arms \/ closed \/ (Scheduled(gen) /\ Timely)
    PROVE  Scheduled(gen)'
<1>1. CASE process_message
  <2>1. CASE Armed
    <3>1. gen' \in Gens /\ debounce' = [debounce EXCEPT ![gen'] = "new"]
      BY <1>1, <2>1, ProcessCases, Zenon DEF Armed
    <3>2. debounce \in [Gens -> {"absent", "new", "awake", "parked", "done"}]
      BY Zenon DEF Types, TaskTypes
    <3>3. debounce'[gen'] \in {"new", "awake", "parked"}
      BY <3>1, <3>2
    <3> QED
      BY <3>3, Zenon DEF Scheduled
  <2>2. CASE Unarmed /\ ~Armed
    BY <1>1, <2>2, ProcessCases, Zenon
    DEF Arms, Unarmed, Scheduled, jobVars, localVars
  <2> QED
    BY <1>1, <2>1, <2>2, ProcessCases, Zenon
<1>2. CASE ~process_message
  <2>1. shared.pending /\ ~workerParse /\ ~workerPublish /\ gen' = gen
    BY <1>2, PendingKept, GenKept, Zenon
  <2>2. gen \in Gens
    BY <2>1, Zenon DEF Dated
  <2>3. ~readerJoin
    BY Zenon DEF readerJoin
  <2>4. ~closed
    <3>1. /\ workerRecv => closed' = closed
          /\ \A g : debounceStart(g) \/ debounceSend(g) \/ elapse(g) => closed' = closed
      BY Zenon DEF workerRecv, debounceStart, debounceSend, elapse, bounceVars, jobVars
    <3> QED
      BY <1>2, <2>3, <3>1, ChannelKept, Zenon
  <2>5. Scheduled(gen) /\ Timely
    BY <1>2, <2>4, Zenon DEF Arms
  <2>6. CASE UNCHANGED <<debounce, jobs, job, gen>>
    BY <2>1, <2>5, <2>6, RestScheduled, Zenon
  <2>7. CASE workerRecv
    <3>2. \A g \in Gens : Scheduled(g) => Scheduled(g)'
      BY <2>7, RecvScheduled, Zenon
    <3> QED
      BY <2>1, <2>2, <2>5, <3>2, Zenon DEF Scheduled
  <2>8. ASSUME NEW h \in Gens, debounceStart(h) \/ debounceSend(h) \/ elapse(h)
        PROVE  Scheduled(gen)'
    <3>1. CASE elapse(h)
      BY <2>6, <3>1, Zenon DEF elapse, jobVars, localVars
    <3> QED
      BY <2>2, <2>4, <2>5, <2>8, <3>1, StartScheduled, SendScheduled, Zenon
  <2> QED
    BY <1>2, <2>3, <2>6, <2>7, <2>8, ChannelKept, Zenon
<1> QED
  BY <1>1, <1>2, Zenon

\* What a step leaves pending, and did not make so, was pending.
LEMMA PendingBefore ==
    ASSUME Types, Dated, Next, ~Arms, shared'.pending
    PROVE  shared.pending /\ shared.tier = shared'.tier /\ gen' = gen
<1>1. CASE process_message
  BY <1>1, ProcessCases, Zenon DEF Arms, Unarmed
<1>2. CASE ~process_message
  <2>1. shared.pending /\ ~workerParse /\ ~workerPublish /\ gen' = gen
    BY <1>2, PendingKept, GenKept, Zenon
  <2>2. workerAnalyze => shared' = shared
    BY Zenon DEF workerAnalyze
  <2> QED
    BY <1>2, <2>1, <2>2, StateKept, Zenon
<1> QED
  BY <1>1, <1>2, Zenon

LEMMA ScheduledNext ==
    ASSUME Types, Dated, Elapsed, PendingIsScheduled, Next
    PROVE  PendingIsScheduled'
<1> SUFFICES ASSUME shared'.pending, ~closed' PROVE Scheduled(gen)'
  BY Zenon DEF PendingIsScheduled, Scheduled
<1>1. Arms \/ closed \/ Scheduled(gen)
  BY PendingBefore, Zenon DEF PendingIsScheduled, Scheduled
<1>2. Timely
  BY Zenon DEF Elapsed, Timely
<1> QED
  BY <1>1, <1>2, ScheduledKept, Zenon

\* A full run is due at once, so no early wake can lose it.
FullScheduled ==
    /\ shared.pending /\ shared.tier = "Full" => gen \in elapsed
    /\ shared.pending /\ shared.tier = "Full" /\ ~closed => Scheduled(gen)

LEMMA FullScheduledNext ==
    ASSUME Types, Dated, FullScheduled, Next
    PROVE  FullScheduled'
<1> SUFFICES ASSUME shared'.pending, shared'.tier = "Full"
             PROVE  gen' \in elapsed' /\ (~closed' => Scheduled(gen)')
  BY Zenon DEF FullScheduled, Scheduled
<1>1. CASE Arms
  BY <1>1, ScheduledKept, Zenon DEF Arms, Armed
<1>2. CASE ~Arms
  <2>1. shared.pending /\ shared.tier = "Full" /\ gen' = gen
    BY <1>2, PendingBefore, Zenon
  <2>2. gen \in elapsed /\ Timely /\ (closed \/ Scheduled(gen))
    BY <2>1, Zenon DEF FullScheduled, Timely
  <2> QED
    BY <2>1, <2>2, ElapsedGrows, ScheduledKept, Zenon
<1> QED
  BY <1>1, <1>2, Zenon

\* The generations, the deadlines and what is queued.
Scheduling == Dated /\ Elapsed /\ PendingIsScheduled

LEMMA SchedulingInit == Init => Scheduling
<1> SUFFICES ASSUME Init PROVE Scheduling
  OBVIOUS
<1>1. shared.pending = FALSE /\ shared.deadline = 0
  BY DEF Init, initial_state
<1>2. worker = "loop" /\ "loop" \notin {"job", "analyzing"} /\ "loop" # "analyzing"
  BY DEF Init
<1>3. gen = 0 /\ FALSE # TRUE
  BY DEF Init
<1>4. Dated
  BY <1>1, <1>2, <1>3, Zenon DEF Dated
<1>5. PendingIsScheduled
  BY <1>1, Zenon DEF PendingIsScheduled
<1>6. Bounced(ready, debounce, elapsed, gen)
  <2>1. ready = <<Dispatcher, Worker>>
    BY DEF Init
  <2>2. \A i \in DOMAIN ready : ready[i] = Dispatcher \/ ready[i] = Worker
    BY <2>1
  <2>3. \A i \in DOMAIN ready : ready[i].task # "debounce"
    BY <2>2, TaskFields, Zenon
  <2> QED
    BY <2>3, Zenon DEF Bounced
<1>7. DOMAIN jobs = {} /\ DOMAIN parked = {} /\ timers = {}
  <2>1. jobs = <<>> /\ parked = <<>> /\ timers = {}
    BY Zenon DEF Init
  <2>2. DOMAIN <<>> = {}
    OBVIOUS
  <2> QED
    BY <2>1, <2>2, Zenon
<1>8. Elapsed
  BY <1>2, <1>6, <1>7, Zenon DEF Elapsed
<1> QED
  BY <1>4, <1>5, <1>8, Zenon DEF Scheduling

LEMMA SchedulingNext ==
    ASSUME Types, Punctual, Scheduling, Next
    PROVE  Scheduling'
BY DatedNext, ElapsedNext, ScheduledNext, Zenon DEF Scheduling

LEMMA SchedulingStutter == Scheduling /\ UNCHANGED vars => Scheduling'
<1> SUFFICES ASSUME Scheduling, UNCHANGED vars PROVE Scheduling'
  OBVIOUS
<1>1. UNCHANGED <<shared, gen, worker, snapshot, job, jobs, parked, closed, elapsed, timers,
                  ready, debounce>>
  BY Zenon DEF vars, jobVars, localVars
<1> QED
  BY <1>1, Zenon DEF Scheduling, Dated, Elapsed, PendingIsScheduled

-----------------------------------------------------------------------------
(* A session: who waits for whom.                                          *)

In(q, t) == \E i \in DOMAIN q : q[i] = t

ReaderAwake == {"read", "sent", "acked", "ending", "joined", "worked"}

\* A task that is not waiting for another one is ready, or a timer is set for it.
ReaderIn == reader \in ReaderAwake => In(ready, Reader)

DispatcherIn ==
    /\ dispatcher \in {"processing", "acked"} => In(ready, Dispatcher)
    /\ dispatcher = "loop" => In(ready, Dispatcher) \/ Dispatcher \in timers

WorkerIn ==
    /\ worker \in {"loop", "job"} => In(ready, Worker)
    /\ worker = "analyzing" => In(ready, Worker) \/ Worker \in timers

DebounceIn ==
    \A g \in Gens :
        /\ debounce[g] \in {"new", "awake"} => In(ready, Debounce(g)) \/ Debounce(g) \in timers
        /\ debounce[g] = "parked" => g \in Range(parked)

\* The diagnostics channel is closed by the reader on its way out, and nobody
\* waits on a channel that has something for him.
Closing ==
    /\ worker \in {"loop", "recv", "job", "analyzing", "done"} /\ closed \in BOOLEAN
    /\ closed = TRUE <=> reader \in {"joinWorker", "worked", "done"}
    /\ worker = "done" <=> reader \in {"worked", "done"}
    /\ reader = "joinWorker" => worker # "recv"
    /\ worker = "recv" => jobs = <<>>
    /\ jobs = <<>> => parked = <<>>

\* Where the reader and the dispatcher can be at the same time.
Pairs ==
    /\ reader \in {"reading", "read", "sending", "acking", "sent", "acked", "ending",
                   "joinDispatcher", "joined", "joinWorker", "worked", "done"}
    /\ dispatcher \in {"loop", "recv", "processing", "ackSend", "acked", "done"}
    /\ reader = "acking" => dispatcher = "processing"
    /\ reader = "sent" => dispatcher \in {"processing", "ackSend"}
    /\ reader = "sending" => dispatcher # "recv"
    /\ reader \in {"reading", "read", "sending", "acked", "ending"} =>
           dispatcher \in {"loop", "recv", "acked", "done"}
    /\ reader = "joinDispatcher" => dispatcher \in {"loop", "acked"}
    /\ reader \in {"joined", "joinWorker", "worked", "done"} => dispatcher = "done"
    /\ chunk # <<>> => reader \in {"read", "sending"} \/ dispatcher = "processing"

-----------------------------------------------------------------------------
(* Tasks in the queue.                                                     *)

LEMMA InMoves ==
    ASSUME NEW q \in Seq(TaskType), NEW t
    PROVE  /\ In(q, t) => q # <<>>
           /\ \A x \in TaskType : In(Append(q, x), x) /\ (In(q, t) => In(Append(q, x), t))
           /\ q # <<>> => In(q, Head(q)) /\ (In(q, t) => t = Head(q) \/ In(Tail(q), t))
<1>1. DOMAIN <<>> = {}
  OBVIOUS
<1>2. In(q, t) => q # <<>>
  BY <1>1, Zenon DEF In
<1>3. ASSUME NEW x \in TaskType PROVE In(Append(q, x), x) /\ (In(q, t) => In(Append(q, x), t))
  <2>1. /\ Len(q) + 1 \in DOMAIN Append(q, x) /\ Append(q, x)[Len(q) + 1] = x
        /\ \A i \in DOMAIN q : i \in DOMAIN Append(q, x) /\ Append(q, x)[i] = q[i]
    OBVIOUS
  <2> QED
    BY <2>1, Zenon DEF In
<1>4. ASSUME q # <<>> PROVE In(q, Head(q)) /\ (In(q, t) => t = Head(q) \/ In(Tail(q), t))
  <2>1. /\ 1 \in DOMAIN q /\ Head(q) = q[1]
        /\ \A i \in DOMAIN q : i = 1 \/ (i - 1 \in DOMAIN Tail(q) /\ Tail(q)[i - 1] = q[i])
    BY <1>4, TailEntries
  <2> QED
    BY <2>1, Zenon DEF In
<1> QED
  BY <1>2, <1>3, <1>4, Zenon

LEMMA Stay ==
    ASSUME Types, NEW t
    PROVE  /\ run(t) => In(ready, t)
           /\ keep(<<>>) /\ In(ready, t) => In(ready', t)
           /\ \A x \in TaskType : keep(<<x>>) => In(ready', x) /\ (In(ready, t) => In(ready', t))
           /\ \A u : run(u) /\ wait(<<>>) /\ In(ready, t) => t = u \/ In(ready', t)
           /\ \A u : \A x \in TaskType : run(u) /\ wait(<<x>>) =>
                 In(ready', x) /\ (In(ready, t) => t = u \/ In(ready', t))
<1>0. TaskTypes /\ ready \in Seq(TaskType)
  BY Zenon DEF Types, TaskTypes
<1>1. ready # <<>> => Tail(ready) \in Seq(TaskType)
  BY <1>0
<1>2. /\ \A x \in TaskType : In(Append(ready, x), x) /\ (In(ready, t) => In(Append(ready, x), t))
      /\ ready # <<>> => In(ready, Head(ready)) /\ (In(ready, t) => t = Head(ready) \/ In(Tail(ready), t))
  BY <1>0, InMoves, Zenon
<1>3. ready # <<>> => \A x \in TaskType :
         In(Append(Tail(ready), x), x) /\ (In(Tail(ready), t) => In(Append(Tail(ready), x), t))
  BY <1>1, InMoves, Zenon
<1>4. ASSUME NEW x \in TaskType, keep(<<x>>) PROVE In(ready', x) /\ (In(ready, t) => In(ready', t))
  BY <1>0, <1>2, <1>4, Moves, Zenon
<1>5. ASSUME NEW u, run(u), wait(<<>>), In(ready, t) PROVE t = u \/ In(ready', t)
  BY <1>0, <1>2, <1>5, Moves, Zenon DEF run
<1>6. ASSUME NEW u, NEW x \in TaskType, run(u), wait(<<x>>)
      PROVE  In(ready', x) /\ (In(ready, t) => t = u \/ In(ready', t))
  <2>1. ready # <<>> /\ Head(ready) = u
    BY <1>6, Zenon DEF run
  <2>2. ready' = Append(Tail(ready), x)
    BY <1>0, <1>6, <2>1, Moves, Zenon
  <2> QED
    BY <1>2, <1>3, <2>1, <2>2, Zenon
<1>7. /\ run(t) => In(ready, t)
      /\ keep(<<>>) /\ In(ready, t) => In(ready', t)
  BY <1>0, <1>2, Moves, Zenon DEF run
<1> QED
  BY <1>4, <1>5, <1>6, <1>7, Zenon

\* A task leaves the queue in a step of its own.
LEMMA StayNext ==
    ASSUME Types, Next, NEW t, In(ready, t)
    PROVE  \/ In(ready', t)
           \/ t = Reader /\ ReaderStep
           \/ t = Dispatcher /\ DispatcherStep
           \/ t = Worker /\ WorkerStep
           \/ \E g \in Gens : t = Debounce(g) /\ (debounceStart(g) \/ debounceSend(g))
<1>n. Reader \in TaskType /\ Dispatcher \in TaskType /\ Worker \in TaskType
  BY TaskNames, Zenon
<1>k. /\ keep(<<>>) => In(ready', t)
      /\ \A x \in TaskType : keep(<<x>>) => In(ready', t)
      /\ \A u : run(u) /\ wait(<<>>) => t = u \/ In(ready', t)
      /\ \A u : \A x \in TaskType : run(u) /\ wait(<<x>>) => t = u \/ In(ready', t)
      /\ ready' = ready => In(ready', t)
  BY Stay, Zenon
<1>1. CASE Client
  BY <1>k, <1>1, Zenon DEF Client, clientOpen, clientChange, clientSave, clientClose, clientEnd,
                           clientEof, say
<1>2. CASE ReaderStep
  BY <1>k, <1>n, <1>2, Zenon
  DEF ReaderStep, read_chunk, readEof, readerSend, readerRecvAck, readerLoop, readerEnd,
      readerJoin, readerExit
<1>3. CASE DispatcherStep
  <2>1. process_message => ready' = ready \/ (keep(<<Debounce(gen + 1)>>) /\ gen + 1 \in Gens)
    BY Taken, Zenon DEF process_message
  <2> QED
    BY <1>k, <1>n, <1>3, <2>1, TaskNames, Zenon
    DEF DispatcherStep, dispatcherRecv, dispatcherDone, dispatcherAck, dispatcherLoop, yieldHop,
        yieldFast
<1>5. CASE DebounceStep
  BY <1>k, <1>n, <1>5, Zenon DEF DebounceStep, debounceStart, debounceSend
<1>6. CASE WorkerStep
  BY <1>k, <1>n, <1>6, Zenon
  DEF WorkerStep, workerRecv, workerSkip, workerParse, workerAnalyze, workerYield,
      workerPublish, workerSuperseded, jobDone, yieldHop, yieldFast
<1>7. CASE Time
  <2>1. \A x \in timers : x \in TaskType
    BY Zenon DEF Types, TaskTypes
  <2> QED
    BY <1>k, <1>7, <2>1, Zenon DEF Time, timerFires, elapse
<1> QED
  BY <1>1, <1>2, <1>3, <1>5, <1>6, <1>7, Zenon DEF Next

LEMMA TimerStay ==
    ASSUME Types, Next, NEW t \in timers
    PROVE  t \in timers' \/ In(ready', t)
<1>1. CASE Client
  BY <1>1, Zenon DEF Client, clientOpen, clientChange, clientSave, clientClose, clientEnd,
                     clientEof, say
<1>2. CASE ReaderStep
  BY <1>2, Zenon
  DEF ReaderStep, read_chunk, readEof, readerSend, readerRecvAck, readerLoop,
      readerEnd, readerJoin, readerExit, pipeVars
<1>3. CASE DispatcherStep
  BY <1>3, Zenon DEF DispatcherStep, dispatcherRecv, process_message, dispatcherAck,
                     dispatcherLoop, pipeVars, yieldHop, yieldFast
<1>4. CASE DebounceStep
  BY <1>4, Zenon DEF DebounceStep, debounceStart, debounceSend
<1>5. CASE WorkerStep
  BY <1>5, Zenon
  DEF WorkerStep, workerRecv, workerSkip, workerParse, workerAnalyze, workerYield,
      workerPublish, workerSuperseded, yieldHop, yieldFast
<1>6. CASE Time
  <2>1. \A x \in timers : x \in TaskType
    BY Zenon DEF Types, TaskTypes
  <2> QED
    BY <1>6, <2>1, Stay, Zenon DEF Time, timerFires, elapse
<1> QED
  BY <1>1, <1>2, <1>3, <1>4, <1>5, <1>6, Zenon DEF Next

-----------------------------------------------------------------------------
(* Awake tasks are ready.                                                  *)

LEMMA ReaderKept ==
    ASSUME Next
    PROVE  \/ reader' = reader /\ ~ReaderStep
           \/ ReaderStep \/ dispatcherRecv \/ dispatcherAck \/ dispatcherLoop \/ workerRecv
<1>1. CASE Client
  BY <1>1, Zenon DEF Client, clientOpen, clientChange, clientSave, clientClose, clientEnd,
                     clientEof, say
<1>2. CASE DispatcherStep
  BY <1>2, Zenon DEF DispatcherStep, process_message
<1>3. CASE DebounceStep
  BY <1>3, Zenon DEF DebounceStep, debounceStart, debounceSend, bounceVars
<1>4. CASE WorkerStep
  BY <1>4, Zenon
  DEF WorkerStep, workerSkip, workerParse, workerAnalyze, workerYield,
      workerPublish, workerSuperseded
<1>5. CASE Time
  BY <1>5, Zenon DEF Time, timerFires, elapse
<1> QED
  BY <1>1, <1>2, <1>3, <1>4, <1>5, Zenon DEF Next

LEMMA Awake ==
    /\ "read" \in ReaderAwake /\ "sent" \in ReaderAwake /\ "acked" \in ReaderAwake
    /\ "ending" \in ReaderAwake /\ "joined" \in ReaderAwake /\ "worked" \in ReaderAwake
    /\ "reading" \notin ReaderAwake /\ "sending" \notin ReaderAwake
    /\ "acking" \notin ReaderAwake /\ "joinDispatcher" \notin ReaderAwake
    /\ "joinWorker" \notin ReaderAwake /\ "done" \notin ReaderAwake
BY DEF ReaderAwake

LEMMA TasksDiffer ==
    /\ Reader # Dispatcher /\ Reader # Worker /\ Dispatcher # Worker
    /\ \A g : Debounce(g) # Reader /\ Debounce(g) # Dispatcher /\ Debounce(g) # Worker
BY DEF Reader, Dispatcher, Worker, Debounce

LEMMA ReaderInNext ==
    ASSUME Types, ReaderIn, Next
    PROVE  ReaderIn'
<1> DEFINE here == In(ready', Reader)
<1>n. Reader \in TaskType /\ Dispatcher \in TaskType /\ Worker \in TaskType
  BY TaskNames, Zenon
<1>k. /\ keep(<<Reader>>) => here
      /\ \A x \in TaskType : run(Reader) /\ keep(<<x>>) => here
      /\ run(Reader) /\ keep(<<>>) => here
      /\ \A u : run(u) /\ wait(<<Reader>>) => here
  BY <1>n, Stay, Zenon
<1>s. In(ready, Reader) /\ ~ReaderStep => here
  BY StayNext, TasksDiffer, Zenon
<1> SUFFICES ASSUME reader' \in ReaderAwake PROVE here
  BY Zenon DEF ReaderIn
<1> HIDE DEF here
<1>1. CASE ReaderStep
  BY <1>k, <1>n, <1>1, Awake, Zenon
  DEF ReaderStep, read_chunk, readEof, readerSend, readerRecvAck, readerLoop, readerEnd,
      readerJoin, readerExit
<1>2. CASE ~ReaderStep /\ (dispatcherRecv \/ dispatcherAck \/ dispatcherLoop)
  <2>1. reader' = reader \/ keep(<<Reader>>) \/ (run(Dispatcher) /\ wait(<<Reader>>))
    BY <1>2, Zenon DEF dispatcherRecv, dispatcherDone, dispatcherAck, dispatcherLoop
  <2> QED
    BY <1>k, <1>s, <1>2, <2>1, Zenon DEF ReaderIn
<1>3. CASE ~ReaderStep /\ workerRecv
  <2>1. reader' = reader \/ (run(Worker) /\ wait(<<Reader>>))
    BY <1>3, Zenon DEF workerRecv
  <2> QED
    BY <1>k, <1>s, <1>3, <2>1, Zenon DEF ReaderIn
<1> QED
  BY <1>s, <1>1, <1>2, <1>3, ReaderKept, Zenon DEF ReaderIn

LEMMA DispatcherKept ==
    ASSUME Next
    PROVE  \/ dispatcher' = dispatcher /\ ~DispatcherStep
           \/ DispatcherStep \/ readerSend \/ readerRecvAck \/ readerEnd
<1>1. CASE Client
  BY <1>1, Zenon DEF Client, clientOpen, clientChange, clientSave, clientClose, clientEnd,
                     clientEof, say
<1>2. CASE ReaderStep
  BY <1>2, Zenon DEF ReaderStep, read_chunk, readEof, readerLoop, readerJoin, readerExit
<1>3. CASE DebounceStep
  BY <1>3, Zenon DEF DebounceStep, debounceStart, debounceSend, bounceVars
<1>4. CASE WorkerStep
  BY <1>4, Zenon
  DEF WorkerStep, workerRecv, workerSkip, workerParse, workerAnalyze, workerYield,
      workerPublish, workerSuperseded, workerVars
<1>5. CASE Time
  BY <1>5, Zenon DEF Time, timerFires, elapse
<1> QED
  BY <1>1, <1>2, <1>3, <1>4, <1>5, Zenon DEF Next

LEMMA DispatcherInNext ==
    ASSUME Types, DispatcherIn, Next
    PROVE  DispatcherIn'
<1> DEFINE here == In(ready', Dispatcher)
           A == {"processing", "acked"}
<1>n. Reader \in TaskType /\ Dispatcher \in TaskType /\ Worker \in TaskType
  BY TaskNames, Zenon
<1>a. /\ "processing" \in A /\ "acked" \in A /\ "loop" \notin A /\ "recv" \notin A
      /\ "ackSend" \notin A /\ "done" \notin A
      /\ "loop" # "recv" /\ "loop" # "ackSend" /\ "loop" # "done"
  OBVIOUS
<1>k. /\ keep(<<Dispatcher>>) => here
      /\ \A x \in TaskType : run(Dispatcher) /\ keep(<<x>>) => here
      /\ \A u : run(u) /\ wait(<<Dispatcher>>) => here
      /\ run(Dispatcher) /\ ready' = ready => here
  BY <1>n, Stay, Zenon
<1>s. /\ In(ready, Dispatcher) /\ ~DispatcherStep => here
      /\ Dispatcher \in timers => Dispatcher \in timers' \/ here
  BY StayNext, TimerStay, TasksDiffer, Zenon
<1>i. /\ dispatcher \in A => In(ready, Dispatcher)
      /\ dispatcher = "loop" => In(ready, Dispatcher) \/ Dispatcher \in timers
  BY Zenon DEF DispatcherIn
<1> SUFFICES /\ dispatcher' \in A => here
             /\ dispatcher' = "loop" => here \/ Dispatcher \in timers'
  BY Zenon DEF DispatcherIn
<1> HIDE DEF here, A
<1>1. CASE dispatcherRecv \/ dispatcherAck
  BY <1>a, <1>k, <1>n, <1>1, Zenon DEF dispatcherRecv, dispatcherDone, dispatcherAck
<1>2. CASE dispatcherLoop
  BY <1>a, <1>k, <1>n, <1>2, Zenon
  DEF dispatcherLoop, dispatcherDone, yieldHop, yieldFast
<1>3. CASE process_message
  <2>1. run(Dispatcher)
    BY <1>3, Zenon DEF process_message
  <2>2. ready' = ready \/ (keep(<<Debounce(gen + 1)>>) /\ gen + 1 \in Gens)
    BY <1>3, Taken, Zenon DEF process_message
  <2> QED
    BY <1>k, <2>1, <2>2, TaskNames, Zenon
<1>4. CASE ~DispatcherStep /\ (readerSend \/ readerRecvAck \/ readerEnd)
  <2>1. dispatcher' = dispatcher \/ keep(<<Dispatcher>>) \/ (run(Reader) /\ wait(<<Dispatcher>>))
    BY <1>4, Zenon DEF readerSend, readerRecvAck, readerEnd
  <2> QED
    BY <1>i, <1>k, <1>s, <1>4, <2>1, Zenon
<1>5. CASE dispatcher' = dispatcher /\ ~DispatcherStep
  BY <1>i, <1>s, <1>5, Zenon
<1> QED
  BY <1>1, <1>2, <1>3, <1>4, <1>5, DispatcherKept, Zenon DEF DispatcherStep

LEMMA WorkerState ==
    ASSUME Next
    PROVE  \/ worker' = worker /\ ~WorkerStep
           \/ WorkerStep \/ readerJoin \/ \E g \in Gens : debounceSend(g)
<1>1. CASE Client
  BY <1>1, Zenon DEF Client, clientOpen, clientChange, clientSave, clientClose, clientEnd,
                     clientEof, say
<1>2. CASE ReaderStep
  BY <1>2, Zenon DEF ReaderStep, read_chunk, readEof, readerSend, readerRecvAck, readerLoop,
                     readerEnd, readerExit, pipeVars
<1>3. CASE DispatcherStep
  BY <1>3, Zenon DEF DispatcherStep, dispatcherRecv, process_message, dispatcherAck,
                     dispatcherLoop, pipeVars
<1>4. CASE DebounceStep
  BY <1>4, Zenon DEF DebounceStep, debounceStart
<1>5. CASE Time
  BY <1>5, Zenon DEF Time, timerFires, elapse
<1> QED
  BY <1>1, <1>2, <1>3, <1>4, <1>5, Zenon DEF Next

LEMMA WorkerInNext ==
    ASSUME Types, WorkerIn, Next
    PROVE  WorkerIn'
<1> DEFINE here == In(ready', Worker)
           A == {"loop", "job"}
<1>n. Reader \in TaskType /\ Worker \in TaskType
  BY TaskNames, Zenon
<1>a. /\ "loop" \in A /\ "job" \in A /\ "recv" \notin A /\ "done" \notin A /\ "analyzing" \notin A
      /\ "recv" # "analyzing" /\ "done" # "analyzing"
  OBVIOUS
<1>k. /\ run(Worker) /\ keep(<<>>) => here
      /\ \A u : run(u) /\ wait(<<Worker>>) => here
  BY <1>n, Stay, Zenon
<1>s. /\ In(ready, Worker) /\ ~WorkerStep => here
      /\ Worker \in timers => Worker \in timers' \/ here
  BY StayNext, TimerStay, TasksDiffer, Zenon
<1>i. /\ worker \in A => In(ready, Worker)
      /\ worker = "analyzing" => In(ready, Worker) \/ Worker \in timers
  BY Zenon DEF WorkerIn
<1> SUFFICES /\ worker' \in A => here
             /\ worker' = "analyzing" => here \/ Worker \in timers'
  BY Zenon DEF WorkerIn
<1> HIDE DEF here, A
<1>1. CASE WorkerStep
  BY <1>a, <1>k, <1>n, <1>1, Zenon
  DEF WorkerStep, workerRecv, workerSkip, workerParse, workerAnalyze, workerYield,
      workerPublish, workerSuperseded, jobDone, yieldHop, yieldFast
<1>2. CASE ~WorkerStep /\ readerJoin
  <2>1. worker' = worker \/ (run(Reader) /\ wait(<<Worker>>))
    BY <1>2, Zenon DEF readerJoin
  <2> QED
    BY <1>i, <1>k, <1>s, <1>2, <2>1, Zenon
<1>3. ASSUME ~WorkerStep, NEW g \in Gens, debounceSend(g)
      PROVE  /\ worker' \in A => here
             /\ worker' = "analyzing" => here \/ Worker \in timers'
  <2>1. worker' = worker \/ (run(Debounce(g)) /\ wait(<<Worker>>))
    BY <1>3, Zenon DEF debounceSend
  <2> QED
    BY <1>i, <1>k, <1>s, <1>3, <2>1, Zenon
<1>4. CASE worker' = worker /\ ~WorkerStep
  BY <1>i, <1>s, <1>4, Zenon
<1> QED
  BY <1>1, <1>2, <1>3, <1>4, WorkerState, Zenon

-----------------------------------------------------------------------------
(* The reader, the dispatcher and the worker.                              *)

LEMMA PipeKept ==
    ASSUME Next
    PROVE  \/ UNCHANGED <<reader, dispatcher, chunk>>
           \/ ReaderStep \/ DispatcherStep \/ workerRecv
<1>1. CASE Client
  BY <1>1, Zenon DEF Client, clientOpen, clientChange, clientSave, clientClose, clientEnd,
                     clientEof, say
<1>2. CASE DebounceStep
  BY <1>2, Zenon DEF DebounceStep, debounceStart, debounceSend, bounceVars
<1>3. CASE WorkerStep
  BY <1>3, Zenon
  DEF WorkerStep, workerSkip, workerParse, workerAnalyze, workerYield,
      workerPublish, workerSuperseded, workerVars
<1>4. CASE Time
  BY <1>4, Zenon DEF Time, timerFires, elapse
<1> QED
  BY <1>1, <1>2, <1>3, <1>4, Zenon DEF Next

LEMMA PairsNext ==
    ASSUME Pairs, Closing, Next
    PROVE  Pairs'
<1>1. CASE UNCHANGED <<reader, dispatcher, chunk>>
  BY <1>1 DEF Pairs
<1>2. CASE \E n \in 1..MaxMessages : read_chunk(n)
  <2>1. reader = "reading" /\ reader' = "read" /\ dispatcher' = dispatcher
    BY <1>2, Zenon DEF read_chunk
  <2> QED
    BY <2>1 DEF Pairs
<1>3. CASE readEof
  <2>1. reader = "reading" /\ reader' = "ending" /\ UNCHANGED <<dispatcher, chunk>>
    BY <1>3, Zenon DEF readEof
  <2> QED
    BY <2>1 DEF Pairs
<1>4. CASE readerSend
  <2>1. /\ reader = "read" /\ chunk' = chunk
        /\ \/ dispatcher = "recv" /\ dispatcher' = "processing" /\ reader' = "acking"
           \/ dispatcher # "recv" /\ dispatcher' = dispatcher /\ reader' = "sending"
    BY <1>4, Zenon DEF readerSend
  <2> QED
    BY <2>1 DEF Pairs
<1>5. CASE readerRecvAck
  <2>1. reader = "sent" /\ dispatcher = "ackSend" /\ dispatcher' = "acked" /\ reader' = "acked"
        /\ chunk' = chunk
    BY <1>5, Zenon DEF readerRecvAck
  <2> QED
    BY <2>1 DEF Pairs
<1>6. CASE readerLoop
  <2>1. reader = "acked" /\ (reader' = "ending" \/ reader' = "reading") /\ UNCHANGED <<dispatcher, chunk>>
    BY <1>6, Zenon DEF readerLoop
  <2> QED
    BY <2>1 DEF Pairs
<1>7. CASE readerEnd
  <2>1. /\ reader = "ending" /\ chunk' = chunk
        /\ \/ dispatcher = "recv" /\ dispatcher' = "loop" /\ reader' = "joinDispatcher"
           \/ dispatcher = "done" /\ dispatcher' = dispatcher /\ reader' = "joined"
           \/ dispatcher \notin {"recv", "done"} /\ dispatcher' = dispatcher
              /\ reader' = "joinDispatcher"
    BY <1>7, Zenon DEF readerEnd
  <2> QED
    BY <2>1 DEF Pairs
<1>8. CASE readerJoin
  <2>1. reader = "joined" /\ reader' = "joinWorker" /\ UNCHANGED <<dispatcher, chunk>>
    BY <1>8, Zenon DEF readerJoin
  <2> QED
    BY <2>1 DEF Pairs
<1>9. CASE readerExit
  <2>1. reader = "worked" /\ reader' = "done" /\ UNCHANGED <<dispatcher, chunk>>
    BY <1>9, Zenon DEF readerExit
  <2> QED
    BY <2>1 DEF Pairs
<1>d. ASSUME dispatcherDone, chunk' = chunk, dispatcher \in {"loop", "acked"} PROVE Pairs'
  <2>1. /\ dispatcher' = "done"
        /\ \/ reader = "joinDispatcher" /\ reader' = "joined"
           \/ reader # "joinDispatcher" /\ reader' = reader
    BY <1>d, Zenon DEF dispatcherDone
  <2> QED
    BY <1>d, <2>1 DEF Pairs
<1>10. CASE dispatcherRecv
  <2>1. CASE reader = "sending" /\ reader' = "sent" /\ dispatcher' = "processing"
    BY <2>1 DEF Pairs
  <2>2. CASE chunksClosed /\ dispatcherDone
    <3>1. dispatcher = "loop" /\ chunk' = chunk
      BY <1>10, Zenon DEF dispatcherRecv
    <3> QED
      BY <1>d, <2>2, <3>1
  <2>3. CASE reader # "sending" /\ ~chunksClosed /\ dispatcher' = "recv" /\ reader' = reader
    <3>1. dispatcher = "loop" /\ chunk' = chunk
      BY <1>10, Zenon DEF dispatcherRecv
    <3> QED
      BY <2>3, <3>1 DEF Pairs, chunksClosed
  <2> QED
    BY <1>10, <2>1, <2>2, <2>3, Zenon DEF dispatcherRecv
<1>11. CASE process_message
  <2>1. dispatcher = "processing" /\ UNCHANGED <<reader, dispatcher>>
    BY <1>11, Zenon DEF process_message
  <2> QED
    BY <2>1 DEF Pairs
<1>12. CASE dispatcherAck
  <2>1. /\ dispatcher = "processing" /\ chunk' = <<>>
        /\ \/ reader = "acking" /\ reader' = "acked" /\ dispatcher' = "acked"
           \/ reader # "acking" /\ dispatcher' = "ackSend" /\ reader' = reader
    BY <1>12, Zenon DEF dispatcherAck
  <2> QED
    BY <2>1 DEF Pairs
<1>13. CASE dispatcherLoop
  <2>1. dispatcher = "acked" /\ chunk' = chunk
    BY <1>13, Zenon DEF dispatcherLoop
  <2>2. CASE dispatcher' = "loop" /\ reader' = reader
    BY <2>1, <2>2 DEF Pairs
  <2>3. CASE dispatcherDone
    BY <1>d, <2>1, <2>3
  <2> QED
    BY <1>13, <2>2, <2>3, Zenon DEF dispatcherLoop
<1>14. CASE workerRecv
  <2>1. /\ worker = "loop" /\ UNCHANGED <<dispatcher, chunk>>
        /\ reader' = reader \/ (closed /\ reader' = "worked")
    BY <1>14, Zenon DEF workerRecv, workerVars
  <2> QED
    BY <2>1 DEF Pairs, Closing
<1> QED
  BY <1>1, <1>2, <1>3, <1>4, <1>5, <1>6, <1>7, <1>8, <1>9, <1>10, <1>11, <1>12, <1>13, <1>14,
     PipeKept, Zenon DEF ReaderStep, DispatcherStep

LEMMA ClosingNext ==
    ASSUME Types, Closing, Pairs, Next
    PROVE  Closing'
<1>0. jobs \in Seq(Gens) /\ parked \in Seq(Gens)
  BY Zenon DEF Types, TaskTypes
<1>1. CASE UNCHANGED <<reader, worker, closed, jobs, parked>>
  BY <1>1 DEF Closing
<1>2. ASSUME UNCHANGED <<worker, closed, jobs, parked>>,
             reader \notin {"joinWorker", "worked", "done"},
             reader' \notin {"joinWorker", "worked", "done"}
      PROVE  Closing'
  BY <1>2 DEF Closing
<1>3. CASE ReaderStep /\ ~readerJoin /\ ~readerExit
  <2>1. UNCHANGED <<worker, closed, jobs, parked>>
    BY <1>3, Zenon DEF ReaderStep, read_chunk, readEof, readerSend, readerRecvAck, readerLoop,
                       readerEnd, pipeVars, jobVars
  <2>2. /\ reader \in {"reading", "read", "sent", "acked", "ending"}
        /\ reader' \in {"read", "ending", "acking", "sending", "acked", "reading",
                        "joinDispatcher", "joined"}
    BY <1>3 DEF ReaderStep, read_chunk, readEof, readerSend, readerRecvAck, readerLoop, readerEnd
  <2> QED
    BY <1>2, <2>1, <2>2
<1>4. CASE readerExit
  <2>1. reader = "worked" /\ reader' = "done" /\ UNCHANGED <<worker, closed, jobs, parked>>
    BY <1>4, Zenon DEF readerExit, pipeVars, jobVars
  <2> QED
    BY <2>1 DEF Closing
<1>5. CASE readerJoin
  <2>1. /\ reader = "joined" /\ reader' = "joinWorker" /\ closed' = TRUE /\ parked' = <<>>
        /\ jobs' = jobs
        /\ \/ worker = "recv" /\ worker' = "loop"
           \/ worker # "recv" /\ worker' = worker
    BY <1>5, Zenon DEF readerJoin
  <2> QED
    BY <2>1 DEF Closing
<1>6. CASE DispatcherStep
  <2>1. UNCHANGED <<worker, closed, jobs, parked>>
    BY <1>6, Zenon DEF DispatcherStep, dispatcherRecv, process_message, dispatcherAck,
                       dispatcherLoop, pipeVars, jobVars
  <2>2. \/ reader' = reader
        \/ reader = "sending" /\ reader' = "sent"
        \/ reader = "joinDispatcher" /\ reader' = "joined"
        \/ reader = "acking" /\ reader' = "acked"
    BY <1>6, Zenon DEF DispatcherStep, dispatcherRecv, dispatcherDone, process_message,
                       dispatcherAck, dispatcherLoop
  <2> QED
    BY <1>1, <1>2, <2>1, <2>2
<1>7. ASSUME NEW g \in Gens, debounceSend(g) PROVE Closing'
  <2>1. UNCHANGED <<reader, closed>>
    BY <1>7, Zenon DEF debounceSend, bounceVars
  <2>2. CASE UNCHANGED <<worker, jobs, parked>>
    BY <1>1, <2>1, <2>2, Zenon
  <2>3. CASE ~closed /\ worker = "recv" /\ worker' = "job" /\ UNCHANGED <<jobs, parked>>
    BY <2>1, <2>3 DEF Closing
  <2>4. CASE ~closed /\ worker # "recv" /\ jobs' = Append(jobs, g) /\ UNCHANGED <<worker, parked>>
    <3>1. jobs' # <<>>
      BY <1>0, <2>4
    <3> QED
      BY <2>1, <2>4, <3>1 DEF Closing
  <2>5. CASE ~closed /\ worker # "recv" /\ Len(jobs) >= JobCapacity /\ UNCHANGED <<worker, jobs>>
    <3>1. jobs' # <<>>
      BY <1>0, <2>5, LoopAssumption
    <3> QED
      BY <2>1, <2>5, <3>1 DEF Closing
  <2> QED
    BY <1>7, <2>2, <2>3, <2>4, <2>5, Zenon DEF debounceSend
<1>8. CASE workerRecv
  <2>1. worker = "loop" /\ closed' = closed
    BY <1>8, Zenon DEF workerRecv
  <2>2. CASE jobs # <<>> /\ parked # <<>>
    <3>1. jobs' = Append(Tail(jobs), Head(parked)) /\ worker' = "job" /\ reader' = reader
      BY <1>8, <2>2, Zenon DEF workerRecv
    <3>2. jobs' # <<>>
      BY <1>0, <2>2, <3>1
    <3> QED
      BY <2>1, <3>1, <3>2 DEF Closing
  <2>3. CASE jobs # <<>> /\ parked = <<>>
    <3>1. parked' = <<>> /\ worker' = "job" /\ reader' = reader
      BY <1>8, <2>3, Zenon DEF workerRecv
    <3> QED
      BY <2>1, <3>1 DEF Closing
  <2>4. CASE jobs = <<>> /\ closed
    <3>1. worker' = "done" /\ reader' = "worked" /\ UNCHANGED <<jobs, parked>>
      BY <1>8, <2>4, Zenon DEF workerRecv
    <3> QED
      BY <2>1, <2>4, <3>1 DEF Closing
  <2>5. CASE jobs = <<>> /\ ~closed
    <3>1. worker' = "recv" /\ UNCHANGED <<reader, jobs, parked>>
      BY <1>8, <2>5, Zenon DEF workerRecv
    <3> QED
      BY <2>1, <2>5, <3>1 DEF Closing
  <2> QED
    BY <2>2, <2>3, <2>4, <2>5, Zenon
<1>9. CASE WorkerStep /\ ~workerRecv
  <2>1. UNCHANGED <<reader, closed, jobs, parked>>
    BY <1>9, Zenon DEF WorkerStep, workerSkip, workerParse, workerAnalyze, workerYield,
                       workerPublish, workerSuperseded, jobVars
  <2>2. worker \in {"job", "analyzing"} /\ worker' \in {"loop", "analyzing"}
    BY <1>9 DEF WorkerStep, workerSkip, workerParse, workerAnalyze, workerYield,
                workerPublish, workerSuperseded, jobDone
  <2> QED
    BY <2>1, <2>2 DEF Closing
<1>10. CASE Client \/ Time \/ \E g \in Gens : debounceStart(g)
  <2>1. UNCHANGED <<reader, worker, closed, jobs, parked>>
    BY <1>10, Zenon
    DEF Client, clientOpen, clientChange, clientSave, clientClose, clientEnd, clientEof, say,
        Time, timerFires, elapse, debounceStart, bounceVars, jobVars
  <2> QED
    BY <1>1, <2>1, Zenon
<1> QED
  BY <1>3, <1>4, <1>5, <1>6, <1>7, <1>8, <1>9, <1>10, Zenon DEF Next, DebounceStep

-----------------------------------------------------------------------------
(* The messages on their way.                                              *)

LEMMA ConcatMoves ==
    ASSUME NEW T, NEW a \in Seq(T), NEW b \in Seq(T)
    PROVE  /\ a \o b \in Seq(T)
           /\ \A n \in 1..Len(b) : SubSeq(b, 1, n) \o SubSeq(b, n + 1, Len(b)) = b
OBVIOUS

\* What the client has said and the server has not handled.
Pipe == chunk \o stdin

LEMMA PipeType ==
    ASSUME Types
    PROVE  chunk \in Seq(MessageType) /\ stdin \in Seq(MessageType) /\ Pipe \in Seq(MessageType)
BY ConcatMoves, Zenon DEF Types, PipeTypes, Pipe

\* What the client says comes last.
LEMMA Says ==
    ASSUME Types, NEW kind, NEW u, NEW v, NEW t, say(kind, u, v, t),
           Message(kind, u, v, t) \in MessageType
    PROVE  Pipe' = Append(Pipe, Message(kind, u, v, t))
<1>1. chunk' = chunk /\ stdin' = Append(stdin, Message(kind, u, v, t))
  BY Zenon DEF say
<1>2. chunk \in Seq(MessageType) /\ stdin \in Seq(MessageType)
  BY PipeType, Zenon
<1>3. \A m \in MessageType : chunk \o Append(stdin, m) = Append(chunk \o stdin, m)
  BY <1>2
<1> QED
  BY <1>1, <1>3, Zenon DEF Pipe

LEMMA ClientVersions ==
    ASSUME Types
    PROVE  \A u \in DOMAIN client : client[u].version + 1 \in Nat
<1>1. client \in Partial(DocType)
  BY PartialNames, Zenon DEF Types, PipeTypes
<1>2. \A u \in DOMAIN client : client[u] \in DocType
  BY <1>1, PartialDomain, Zenon
<1> QED
  BY <1>2 DEF DocType

\* The dispatcher takes the first message.
LEMMA PipeTaken ==
    ASSUME Types, process_message
    PROVE  /\ Pipe # <<>> /\ Head(Pipe) = Head(chunk) /\ Pipe' = Tail(Pipe)
           /\ UNCHANGED <<client, phase>>
<1>1. chunk # <<>> /\ chunk' = Tail(chunk) /\ UNCHANGED <<stdin, client, phase>>
  BY Zenon DEF process_message, clientVars
<1>2. chunk \in Seq(MessageType) /\ stdin \in Seq(MessageType)
  BY PipeType, Zenon
<1>3. /\ chunk \o stdin # <<>> /\ Head(chunk \o stdin) = Head(chunk)
      /\ Tail(chunk \o stdin) = Tail(chunk) \o stdin
  BY <1>1, <1>2
<1> QED
  BY <1>1, <1>3, Zenon DEF Pipe

\* Otherwise only the client touches what is on its way.
LEMMA PipeMoves ==
    ASSUME Types, Pairs, Next, shared.should_exit => chunk = <<>>
    PROVE  \/ Pipe' = Pipe /\ UNCHANGED <<client, phase>>
           \/ (Client /\ ~clientEof) \/ process_message
<1>0. /\ chunk \in Seq(MessageType) /\ stdin \in Seq(MessageType)
  BY PipeType, Zenon
<1>1. CASE clientEof
  BY <1>1, Zenon DEF clientEof, Pipe
<1>2. ASSUME NEW n, read_chunk(n) PROVE Pipe' = Pipe /\ UNCHANGED <<client, phase>>
  <2>1. /\ reader = "reading" /\ n \in 1..Len(stdin)
        /\ chunk' = SubSeq(stdin, 1, n) /\ stdin' = SubSeq(stdin, n + 1, Len(stdin))
        /\ UNCHANGED <<client, phase>>
    BY <1>2, Zenon DEF read_chunk, clientVars
  <2>2. chunk = <<>>
    BY <2>1 DEF Pairs
  <2>3. SubSeq(stdin, 1, n) \o SubSeq(stdin, n + 1, Len(stdin)) = stdin /\ <<>> \o stdin = stdin
    <3>1. \A k \in 1..Len(stdin) : SubSeq(stdin, 1, k) \o SubSeq(stdin, k + 1, Len(stdin)) = stdin
      BY <1>0, ConcatMoves, Zenon
    <3>2. <<>> \o stdin = stdin
      BY <1>0
    <3> QED
      BY <2>1, <3>1, <3>2, Zenon
  <2>4. Pipe' = stdin /\ Pipe = stdin
    BY <2>1, <2>2, <2>3, Zenon DEF Pipe
  <2> QED
    BY <2>1, <2>4, Zenon
<1>4. CASE dispatcherAck
  <2>1. chunk = <<>> /\ chunk' = <<>> /\ UNCHANGED <<stdin, client, phase>>
    BY <1>4, Zenon DEF dispatcherAck, pipeVars, serverVars, clientVars
  <2> QED
    BY <2>1, Zenon DEF Pipe
<1>5. CASE ReaderStep /\ ~\E n \in 1..MaxMessages : read_chunk(n)
  BY <1>5, Zenon DEF ReaderStep, readEof, readerSend, readerRecvAck, readerLoop, readerEnd,
                     readerJoin, readerExit, pipeVars, serverVars, clientVars, Pipe
<1>6. CASE dispatcherRecv \/ dispatcherLoop
  BY <1>6, Zenon DEF dispatcherRecv, dispatcherLoop, pipeVars, serverVars, clientVars, Pipe
<1>7. CASE DebounceStep
  BY <1>7, Zenon DEF DebounceStep, debounceStart, debounceSend, bounceVars, serverVars,
                     clientVars, Pipe
<1>8. CASE WorkerStep
  BY <1>8, Zenon
  DEF WorkerStep, workerRecv, workerSkip, workerParse, workerAnalyze, workerYield,
      workerPublish, workerSuperseded, workerVars, clientVars, Pipe
<1>9. CASE Time
  BY <1>9, Zenon DEF Time, timerFires, elapse, serverVars, clientVars, Pipe
<1> QED
  BY <1>1, <1>2, <1>4, <1>5, <1>6, <1>7, <1>8, <1>9, Zenon DEF Next, DispatcherStep

\* What it means for the client to say m.
Sent(m) ==
    /\ m \in MessageType /\ m.kind \in Kinds /\ Pipe' = Append(Pipe, m)
    /\ phase = "open" \/ (phase = "shutdown" /\ m.kind = "exit")
    /\ m.kind \in {"shutdown", "exit"} => phase' = m.kind
    /\ m.kind \notin {"shutdown", "exit"} => phase' = phase
    /\ UNCHANGED <<chunk, shared, snapshot, shown, worker, job, gen>>

Spoken(m) ==
    /\ Sent(m)
    /\ \/ /\ m.kind = "didOpen" /\ m.uri \notin DOMAIN client /\ m.version = 1
          /\ client' = Put(client, m.uri, DocOf(m))
       \/ /\ m.kind = "didChange" /\ m.uri \in DOMAIN client
          /\ m.version = client[m.uri].version + 1
          /\ client' = Put(client, m.uri, DocOf(m))
       \/ m.kind = "didClose" /\ m.uri \in DOMAIN client /\ client' = Drop(client, m.uri)
       \/ m.kind \in {"didSave", "shutdown", "exit"} /\ client' = client

LEMMA SaySends ==
    ASSUME Types, NEW k, NEW u, NEW v, NEW t, say(k, u, v, t),
           Message(k, u, v, t) \in MessageType
    PROVE  Sent(Message(k, u, v, t))
<1> DEFINE m == Message(k, u, v, t)
<1>1. m \in MessageType /\ Pipe' = Append(Pipe, m)
  BY Says, Zenon
<1>2. m.kind = k
  BY DEF Message
<1>3. /\ k \in Kinds /\ (phase = "open" \/ (phase = "shutdown" /\ k = "exit"))
      /\ phase' = IF k \in {"shutdown", "exit"} THEN k ELSE phase
      /\ UNCHANGED <<chunk, shared, snapshot, shown, worker, job, gen>>
  BY Zenon DEF say, localVars
<1> HIDE DEF m
<1>4. Sent(m)
  BY ONLY <1>1, <1>2, <1>3 DEF Sent
<1> QED
  BY <1>4, Zenon DEF m

LEMMA SpeaksOne ==
    ASSUME Types, Client, ~clientEof
    PROVE  \E m : Spoken(m)
<1>1. ASSUME NEW u \in Uris, NEW t \in Texts, clientOpen(u, t) PROVE \E m : Spoken(m)
  <2> DEFINE m == Message("didOpen", u, 1, t)
  <2>1. /\ say("didOpen", u, 1, t) /\ u \notin DOMAIN client
        /\ client' = Put(client, u, [version |-> 1, text |-> t])
    BY <1>1, Zenon DEF clientOpen
  <2>2. m.kind = "didOpen" /\ m.uri = u /\ m.version = 1 /\ DocOf(m) = [version |-> 1, text |-> t]
    BY DEF Message, DocOf
  <2>4. m \in MessageType
    BY DEF Message, MessageType, EditType
  <2>5. Sent(m)
    BY <2>1, <2>2, <2>4, SaySends, Zenon
  <2> HIDE DEF m
  <2>6. Spoken(m)
    BY <2>1, <2>2, <2>4, <2>5, Zenon DEF Spoken
  <2> QED
    BY <2>6, Zenon
<1>2. ASSUME NEW u \in Uris, NEW t \in Texts, clientChange(u, t) PROVE \E m : Spoken(m)
  <2> DEFINE v == client[u].version + 1
             m == Message("didChange", u, v, t)
  <2>1. /\ say("didChange", u, v, t) /\ u \in DOMAIN client
        /\ client' = Put(client, u, [version |-> v, text |-> t])
    BY <1>2, Zenon DEF clientChange
  <2>2. m.kind = "didChange" /\ m.uri = u /\ m.version = v /\ DocOf(m) = [version |-> v, text |-> t]
    BY DEF Message, DocOf
  <2>3. v \in Nat
    BY <2>1, ClientVersions, Zenon
  <2> HIDE DEF v
  <2>4. m \in MessageType
    BY <2>3 DEF Message, MessageType, EditType
  <2>5. Sent(m)
    BY <2>1, <2>2, <2>4, SaySends, Zenon
  <2> HIDE DEF m
  <2>6. Spoken(m)
    BY <2>1, <2>2, <2>4, <2>5, Zenon DEF Spoken, v
  <2> QED
    BY <2>6, Zenon
<1>3. ASSUME NEW u \in Uris, clientSave(u) PROVE \E m : Spoken(m)
  <2> DEFINE m == Message("didSave", u, 0, "")
  <2>1. say("didSave", u, 0, "") /\ client' = client
    BY <1>3, Zenon DEF clientSave
  <2>2. m.kind = "didSave" /\ m \in MessageType
    BY DEF Message, MessageType, TouchType
  <2>3. Sent(m)
    BY <2>1, <2>2, SaySends, Zenon
  <2> HIDE DEF m
  <2>4. Spoken(m)
    BY <2>1, <2>2, <2>3, Zenon DEF Spoken
  <2> QED
    BY <2>4, Zenon
<1>4. ASSUME NEW u \in Uris, clientClose(u) PROVE \E m : Spoken(m)
  <2> DEFINE m == Message("didClose", u, 0, "")
  <2>1. say("didClose", u, 0, "") /\ u \in DOMAIN client /\ client' = Drop(client, u)
    BY <1>4, Zenon DEF clientClose
  <2>2. m.kind = "didClose" /\ m.uri = u /\ m \in MessageType
    BY DEF Message, MessageType, TouchType
  <2>3. Sent(m)
    BY <2>1, <2>2, SaySends, Zenon
  <2> HIDE DEF m
  <2>4. Spoken(m)
    BY <2>1, <2>2, <2>3, Zenon DEF Spoken
  <2> QED
    BY <2>4, Zenon
<1>5. ASSUME NEW kind \in {"shutdown", "exit"}, clientEnd(kind) PROVE \E m : Spoken(m)
  <2> DEFINE m == Message(kind, "", 0, "")
  <2>1. say(kind, "", 0, "") /\ client' = client
    BY <1>5, Zenon DEF clientEnd
  <2>2. m.kind = kind /\ m \in MessageType
    BY DEF Message, MessageType, EndType
  <2>3. Sent(m)
    BY <2>1, <2>2, SaySends, Zenon
  <2> HIDE DEF m
  <2>4. Spoken(m)
    BY <2>1, <2>2, <2>3 DEF Spoken
  <2> QED
    BY <2>4, Zenon
<1> QED
  BY <1>1, <1>2, <1>3, <1>4, <1>5, Zenon DEF Client

-----------------------------------------------------------------------------
(* What is handled.                                                        *)

\* Without an exit notification nobody wants to end.
Quiet ==
    /\ shared.should_exit = FALSE /\ snapshot.should_exit = FALSE
    /\ \A i \in DOMAIN Pipe : Pipe[i].kind # "exit"

LEMMA HandledKept ==
    ASSUME Next
    PROVE  handled' = handled \/ process_message
<1>1. CASE Client
  BY <1>1, Zenon DEF Client, clientOpen, clientChange, clientSave, clientClose, clientEnd,
                     clientEof, say
<1>2. CASE ReaderStep
  BY <1>2, Zenon DEF ReaderStep, read_chunk, readEof, readerSend, readerRecvAck, readerLoop,
                     readerEnd, readerJoin, readerExit, pipeVars, serverVars
<1>3. CASE DispatcherStep
  BY <1>3, Zenon DEF DispatcherStep, dispatcherRecv, dispatcherAck, dispatcherLoop,
                     pipeVars, serverVars
<1>4. CASE DebounceStep
  BY <1>4, Zenon DEF DebounceStep, debounceStart, debounceSend, bounceVars, serverVars
<1>5. CASE WorkerStep
  BY <1>5, Zenon
  DEF WorkerStep, workerRecv, workerSkip, workerParse, workerAnalyze, workerYield,
      workerPublish, workerSuperseded, workerVars
<1>6. CASE Time
  BY <1>6, Zenon DEF Time, timerFires, elapse, serverVars
<1> QED
  BY <1>1, <1>2, <1>3, <1>4, <1>5, <1>6, Zenon DEF Next

\* What a notification does to should_exit.
LEMMA ExitTaken ==
    ASSUME Types, process_message
    PROVE  /\ Head(chunk) \in MessageType
           /\ shared'.should_exit = (shared.should_exit \/ Head(chunk).kind = "exit")
<1> DEFINE m == Head(chunk)
<1>1. /\ m \in MessageType /\ shared \in StateType
      /\ m.kind \in {"didOpen", "didChange"} => Opened(shared', shared, m)
      /\ m.kind = "didSave" => Saved(shared', shared)
      /\ m.kind = "didClose" => Closed(shared', shared, m)
      /\ m.kind \in {"shutdown", "exit"} => EndOf(shared', shared, m)
  BY Taken, Notified, Zenon
<1>2. m.kind \in {"didOpen", "didChange", "didSave", "didClose", "shutdown", "exit"}
  BY <1>1 DEF MessageType, EditType, TouchType, EndType
<1>4. shared.should_exit \in BOOLEAN
  BY <1>1 DEF StateType
<1> HIDE DEF m
<1>5. CASE m.kind \in {"shutdown", "exit"}
  BY <1>1, <1>5, Zenon DEF EndOf, m
<1>6. CASE m.kind \in {"didOpen", "didChange", "didSave", "didClose"}
  <2>1. shared'.should_exit = shared.should_exit
    BY <1>1, <1>6, Zenon DEF Opened, Saved, Closed, SameEnd
  <2>2. m.kind # "exit"
    BY <1>6
  <2>3. (shared.should_exit \/ m.kind = "exit") = shared.should_exit
    BY <1>4, <2>2
  <2> QED
    BY <1>1, <2>1, <2>3, Zenon DEF m
<1> QED
  BY <1>2, <1>5, <1>6, Zenon

\* The history of the message that the dispatcher takes.
LEMMA HandledTaken ==
    ASSUME Types, process_message
    PROVE  \E h : /\ handled' = handled \cup {h}
                  /\ h.kind = Head(chunk).kind /\ h.uri = Head(chunk).uri
                  /\ h.amid \in BOOLEAN
                  /\ h.amid = TRUE <=> worker = "analyzing" /\ gen = job /\ gen' = gen
<1> DEFINE m == Head(chunk)
           s == handle_notification(shared, m)
           rearmed == s.pending /\ s.deadline # shared.deadline
           h == applied(m, rearmed)
<1>1. handled' = handled \cup {h}
  BY Zenon DEF process_message
<1>2. /\ h.kind = m.kind /\ h.uri = m.uri /\ h.amid \in BOOLEAN
      /\ h.amid = TRUE <=> worker = "analyzing" /\ gen = job /\ ~rearmed
  BY DEF applied
<1>3. gen + 1 # gen
  BY DEF Types, PipeTypes
<1>4. (rearmed /\ gen' = gen + 1) \/ (~rearmed /\ gen' = gen)
  BY Zenon DEF process_message
<1>5. ~rearmed <=> gen' = gen
  BY <1>3, <1>4, Zenon
<1> HIDE DEF h, rearmed
<1>6. h.amid = TRUE <=> worker = "analyzing" /\ gen = job /\ gen' = gen
  BY <1>2, <1>5, Zenon
<1> QED
  BY <1>1, <1>2, <1>6, Zenon

LEMMA SnapshotKept ==
    ASSUME Next
    PROVE  snapshot' = snapshot \/ (workerAnalyze /\ snapshot' = shared)
<1>1. /\ process_message => snapshot' = snapshot
      /\ workerAnalyze => snapshot' = shared
      /\ workerParse => snapshot' = snapshot
      /\ workerPublish => snapshot' = snapshot
  BY Zenon DEF process_message, workerAnalyze, workerParse, workerPublish, localVars
<1> QED
  BY <1>1, StateKept, Zenon

\* All messages of the queue that moves.
LEMMA MovesAll ==
    ASSUME NEW q \in Seq(MessageType), NEW kind, \A i \in DOMAIN q : q[i].kind # kind
    PROVE  /\ q # <<>> => Head(q).kind # kind /\ \A i \in DOMAIN Tail(q) : Tail(q)[i].kind # kind
           /\ \A m \in MessageType : m.kind # kind =>
                 \A i \in DOMAIN Append(q, m) : Append(q, m)[i].kind # kind
<1>1. ASSUME q # <<>>
      PROVE  Head(q).kind # kind /\ \A i \in DOMAIN Tail(q) : Tail(q)[i].kind # kind
  <2>1. /\ \A i \in DOMAIN Tail(q) : i + 1 \in DOMAIN q /\ Tail(q)[i] = q[i + 1]
        /\ 1 \in DOMAIN q /\ Head(q) = q[1]
    BY <1>1, TailEntries
  <2> QED
    BY <2>1, Zenon
<1>2. ASSUME NEW m \in MessageType, m.kind # kind, NEW i \in DOMAIN Append(q, m)
      PROVE  Append(q, m)[i].kind # kind
  <2>1. \/ i \in DOMAIN q /\ Append(q, m)[i] = q[i]
        \/ Append(q, m)[i] = m
    OBVIOUS
  <2> QED
    BY <1>2, <2>1, Zenon
<1> QED
  BY <1>1, <1>2, Zenon

\* The tasks and where they are, whatever the client says.
Tasks == ReaderIn /\ DispatcherIn /\ WorkerIn /\ Closing /\ Pairs

LEMMA TasksNext ==
    ASSUME Types, Tasks, Next
    PROVE  Tasks'
BY ReaderInNext, DispatcherInNext, WorkerInNext, ClosingNext, PairsNext, Zenon DEF Tasks

LEMMA TasksInvariant == Spec => []Tasks
<1>1. Init => Tasks
  <2> SUFFICES ASSUME Init PROVE Tasks
    OBVIOUS
  <2>1. /\ ready = <<Dispatcher, Worker>> /\ reader = "reading" /\ dispatcher = "loop"
        /\ worker = "loop" /\ jobs = <<>> /\ parked = <<>> /\ closed = FALSE /\ chunk = <<>>
    BY DEF Init
  <2>2. In(ready, Dispatcher) /\ In(ready, Worker)
    <3>1. 1 \in DOMAIN ready /\ 2 \in DOMAIN ready /\ ready[1] = Dispatcher /\ ready[2] = Worker
      BY <2>1
    <3> QED
      BY <3>1, Zenon DEF In
  <2>3. ReaderIn
    BY <2>1, Awake, Zenon DEF ReaderIn
  <2>4. DispatcherIn /\ WorkerIn
    BY <2>2, Zenon DEF DispatcherIn, WorkerIn
  <2>5. Closing
    BY <2>1 DEF Closing
  <2>6. Pairs
    BY <2>1 DEF Pairs
  <2> QED
    BY <2>3, <2>4, <2>5, <2>6, Zenon DEF Tasks
<1>2. Types /\ Tasks /\ [Next]_vars => Tasks'
  <2>1. ASSUME Tasks, UNCHANGED vars PROVE Tasks'
    <3>1. UNCHANGED <<ready, timers, reader, dispatcher, worker, closed, jobs, parked, chunk>>
      BY <2>1, Zenon DEF vars, jobVars
    <3>2. ReaderIn' /\ DispatcherIn' /\ WorkerIn'
      BY <2>1, <3>1, Zenon DEF Tasks, ReaderIn, DispatcherIn, WorkerIn
    <3>3. Closing'
      BY <2>1, <3>1, Zenon DEF Tasks, Closing
    <3>4. Pairs'
      BY <2>1, <3>1, Zenon DEF Tasks, Pairs
    <3> QED
      BY <3>2, <3>3, <3>4, Zenon DEF Tasks
  <2> QED
    BY <2>1, TasksNext, Zenon
<1> QED
  BY <1>1, <1>2, TypesInvariant, PTL DEF Spec

-----------------------------------------------------------------------------
(* The debounce tasks.                                                     *)

LEMMA BounceStays ==
    ASSUME Types, Next, NEW g \in Gens,
           In(ready, Debounce(g)) \/ Debounce(g) \in timers
    PROVE  \/ In(ready', Debounce(g)) \/ Debounce(g) \in timers'
           \/ debounceStart(g) \/ debounceSend(g)
<1>1. \A h \in Gens : Debounce(g) = Debounce(h) => g = h
  BY DEF Debounce
<1> QED
  BY <1>1, StayNext, TimerStay, TasksDiffer, Zenon

\* A task that is neither starting nor sending leaves its state only for "done",
\* and a parked one is parked until then.
LEMMA BounceKept ==
    ASSUME Types, Dated, Next, NEW g \in Gens, ~debounceStart(g), ~debounceSend(g)
    PROVE  \/ debounce'[g] = "done"
           \/ debounce'[g] = "new" /\ In(ready', Debounce(g))
           \/ debounce'[g] = debounce[g] /\ (g \in Range(parked) => g \in Range(parked'))
<1>0. /\ debounce \in [Gens -> {"absent", "new", "awake", "parked", "done"}]
      /\ parked \in Seq(Gens)
  BY Zenon DEF Types, TaskTypes
<1>e. \A h, v : debounce' = [debounce EXCEPT ![h] = v] => debounce'[g] = (IF h = g THEN v ELSE debounce[g])
  BY <1>0
<1>1. CASE readerJoin
  <2>1. debounce' = [h \in Gens |-> IF h \in Range(parked) THEN "done" ELSE debounce[h]]
    BY <1>1, Zenon DEF readerJoin
  <2>2. debounce'[g] = IF g \in Range(parked) THEN "done" ELSE debounce[g]
    BY <2>1
  <2> QED
    BY <2>2, Zenon
<1>2. CASE workerRecv
  <2>1. \/ UNCHANGED <<debounce, parked>>
        \/ /\ parked # <<>> /\ debounce' = [debounce EXCEPT ![Head(parked)] = "done"]
           /\ parked' = Tail(parked)
    BY <1>2, Zenon DEF workerRecv
  <2>2. parked # <<>> => (g \in Range(parked) => g = Head(parked) \/ g \in Range(Tail(parked)))
    BY <1>0, RangeMoves, Zenon
  <2> QED
    BY <1>e, <2>1, <2>2, Zenon
<1>3. CASE process_message
  <2>1. (Armed \/ Unarmed) /\ parked' = parked
    BY <1>3, ProcessCases, Zenon DEF jobVars
  <2>2. CASE Armed
    <3>1. /\ debounce' = [debounce EXCEPT ![gen + 1] = "new"]
          /\ ready' = Append(ready, Debounce(gen + 1)) /\ gen + 1 \in Gens
      BY <1>3, <2>2, ProcessCases, Zenon DEF Armed
    <3>2. ready \in Seq(TaskType) /\ Debounce(gen + 1) \in TaskType
      BY <3>1, TaskNames, Zenon DEF Types, TaskTypes
    <3>3. In(ready', Debounce(gen + 1))
      BY <3>1, <3>2, InMoves, Zenon
    <3> QED
      BY <1>e, <2>1, <3>1, <3>3, Zenon
  <2> QED
    BY <2>1, <2>2, Zenon DEF Unarmed
<1>4. ASSUME NEW h \in Gens, debounceStart(h) \/ debounceSend(h) \/ elapse(h)
      PROVE  debounce'[g] = debounce[g] /\ (g \in Range(parked) => g \in Range(parked'))
  <2>1. CASE elapse(h)
    BY <2>1, Zenon DEF elapse, jobVars
  <2>2. CASE ~elapse(h)
    <3>1. h # g
      BY <1>4, <2>2, Zenon
    <3>2. /\ \E v : debounce' = [debounce EXCEPT ![h] = v]
          /\ parked' = parked \/ parked' = Append(parked, h)
      BY <1>4, <2>2, Zenon DEF debounceStart, debounceSend
    <3>3. g \in Range(parked) => g \in Range(Append(parked, h))
      BY <1>0, RangeMoves, Zenon
    <3> QED
      BY <1>e, <3>1, <3>2, <3>3, Zenon
  <2> QED
    BY <2>1, <2>2, Zenon
<1> QED
  BY <1>1, <1>2, <1>3, <1>4, ChannelKept, Zenon

LEMMA DebounceInNext ==
    ASSUME Types, Dated, DebounceIn, Next
    PROVE  DebounceIn'
<1> SUFFICES ASSUME NEW g \in Gens
             PROVE  /\ debounce'[g] \in {"new", "awake"} =>
                           In(ready', Debounce(g)) \/ Debounce(g) \in timers'
                    /\ debounce'[g] = "parked" => g \in Range(parked')
  BY Zenon DEF DebounceIn
<1>0. /\ debounce \in [Gens -> {"absent", "new", "awake", "parked", "done"}]
      /\ parked \in Seq(Gens)
  BY Zenon DEF Types, TaskTypes
<1>i. /\ debounce[g] \in {"new", "awake"} => In(ready, Debounce(g)) \/ Debounce(g) \in timers
      /\ debounce[g] = "parked" => g \in Range(parked)
  BY Zenon DEF DebounceIn
<1>e. \A v : debounce' = [debounce EXCEPT ![g] = v] => debounce'[g] = v
  BY <1>0
<1>d. /\ "done" \notin {"new", "awake"} /\ "done" # "parked"
      /\ "parked" \notin {"new", "awake"} /\ "awake" # "parked" /\ "new" # "parked"
  OBVIOUS
<1>1. CASE debounceStart(g)
  <2>1. /\ debounce'[g] = "awake"
        /\ run(Debounce(g)) /\ (keep(<<>>) \/ timers' = timers \cup {Debounce(g)})
    BY <1>e, <1>1, Zenon DEF debounceStart
  <2>2. run(Debounce(g)) /\ keep(<<>>) => In(ready', Debounce(g))
    BY Stay, Zenon
  <2> QED
    BY <1>d, <2>1, <2>2, Zenon
<1>2. CASE debounceSend(g)
  <2>1. \/ debounce'[g] = "done"
        \/ debounce'[g] = "parked" /\ parked' = Append(parked, g)
    BY <1>e, <1>2, Zenon DEF debounceSend
  <2>2. g \in Range(Append(parked, g))
    BY <1>0, RangeMoves, Zenon
  <2> QED
    BY <1>d, <2>1, <2>2, Zenon
<1>3. CASE ~debounceStart(g) /\ ~debounceSend(g)
  <2>1. \/ debounce'[g] = "done"
        \/ debounce'[g] = "new" /\ In(ready', Debounce(g))
        \/ debounce'[g] = debounce[g] /\ (g \in Range(parked) => g \in Range(parked'))
    BY <1>3, BounceKept, Zenon
  <2>2. In(ready, Debounce(g)) \/ Debounce(g) \in timers =>
           In(ready', Debounce(g)) \/ Debounce(g) \in timers'
    BY <1>3, BounceStays, Zenon
  <2> QED
    BY <1>d, <1>i, <2>1, <2>2, Zenon
<1> QED
  BY <1>1, <1>2, <1>3, Zenon

\* When the server is idle, everything is handled and nothing is scheduled.
LEMMA IdleIsDone ==
    ASSUME Types, Dated, Tasks, DebounceIn, Idle
    PROVE  /\ Pipe = <<>> /\ closed = FALSE
           /\ shared.pending => ~Scheduled(gen)
<1>1. \A t : ~In(ready, t) /\ t \notin timers
  <2>1. DOMAIN <<>> = {}
    OBVIOUS
  <2> QED
    BY <2>1, Zenon DEF In, Idle
<1>2. reader = "reading" /\ stdin = <<>> /\ Closing /\ Pairs
  BY Zenon DEF Idle, Tasks
<1>3. worker \notin {"loop", "job"} /\ worker # "analyzing"
  BY <1>1, Zenon DEF Tasks, WorkerIn
<1>4. jobs = <<>> /\ parked = <<>> /\ closed = FALSE /\ worker \notin {"job", "analyzing"}
  BY <1>2, <1>3 DEF Closing
<1>5. Range(<<>>) = {}
  BY DEF Range
<1>6. ASSUME shared.pending PROVE ~Scheduled(gen)
  <2>1. gen \in Gens
    <3>1. shared.pending = TRUE
      BY <1>6 DEF Types, StateTypes, StateType
    <3> QED
      BY <3>1, Zenon DEF Dated
  <2>2. debounce[gen] \notin {"new", "awake"} /\ debounce[gen] # "parked"
    BY <1>1, <1>4, <1>5, <2>1, Zenon DEF DebounceIn
  <2>3. debounce[gen] \notin {"new", "awake", "parked"}
    BY <2>2
  <2> QED
    BY <1>4, <1>5, <2>3, Zenon DEF Scheduled
<1>7. chunk = <<>>
  BY <1>2 DEF Pairs
<1>8. Pipe = <<>>
  BY <1>2, <1>7 DEF Pipe
<1> QED
  BY <1>4, <1>6, <1>8, Zenon

\* No diagnostics are pending then, when those that are pending are scheduled.
LEMMA IdleIsSettled ==
    ASSUME Types, Dated, Tasks, DebounceIn, PendingIsScheduled, Idle
    PROVE  ~shared.pending /\ Pipe = <<>>
<1>1. Pipe = <<>> /\ ~closed /\ (shared.pending => ~Scheduled(gen))
  BY IdleIsDone
<1> QED
  BY <1>1, Zenon DEF PendingIsScheduled, Scheduled

\* And no full run is, in any case.
LEMMA IdleIsPublished ==
    ASSUME Types, Tasks, Dated, FullScheduled, DebounceIn, Idle
    PROVE  Pipe = <<>> /\ ~(shared.pending = TRUE /\ shared.tier = "Full")
<1>1. Pipe = <<>> /\ ~closed /\ (shared.pending => ~Scheduled(gen))
  BY IdleIsDone
<1> QED
  BY <1>1 DEF FullScheduled

-----------------------------------------------------------------------------
(* The end of the conversation.                                            *)

\* The client says nothing after exit.
Ends ==
    /\ \A i \in DOMAIN Pipe : Pipe[i].kind = "exit" => i = Len(Pipe)
    /\ phase = "exit" \/ Quiet
    /\ shared.should_exit \/ snapshot.should_exit => Pipe = <<>>

LEMMA ExitMoves ==
    ASSUME Types, Next, ~process_message
    PROVE  shared'.should_exit \/ snapshot'.should_exit => shared.should_exit \/ snapshot.should_exit
<1>0. /\ shared \in StateType /\ snapshot \in StateType
  BY Zenon DEF Types, StateTypes
<1>1. CASE workerParse
  <2>1. publish(shared)
    BY <1>1, Zenon DEF workerParse
  <2> QED
    BY <1>0, <1>1, <2>1, SnapshotKept, Commit, Zenon DEF Published
<1>2. CASE workerPublish
  <2>1. publish(snapshot)
    BY <1>2, Zenon DEF workerPublish
  <2> QED
    BY <1>0, <1>2, <2>1, SnapshotKept, Commit, Zenon DEF Published
<1>3. CASE shared' = shared
  BY <1>3, SnapshotKept, Zenon
<1>4. workerAnalyze => shared' = shared
  BY Zenon DEF workerAnalyze
<1> QED
  BY <1>1, <1>2, <1>3, <1>4, StateKept, Zenon

LEMMA FlagTypes ==
    ASSUME Types
    PROVE  shared.should_exit \in BOOLEAN /\ snapshot.should_exit \in BOOLEAN
BY DEF Types, StateTypes, StateType

LEMMA EndsNext ==
    ASSUME Types, Types', Pairs, Ends, Next
    PROVE  Ends'
<1>0. /\ Pipe \in Seq(MessageType) /\ chunk \in Seq(MessageType) /\ stdin \in Seq(MessageType)
  BY PipeType, Zenon
<1>f. /\ shared.should_exit \in BOOLEAN /\ snapshot.should_exit \in BOOLEAN
      /\ shared'.should_exit \in BOOLEAN /\ snapshot'.should_exit \in BOOLEAN
  BY FlagTypes DEF Types, StateTypes, StateType
<1>c. shared.should_exit => chunk = <<>>
  <2>1. Pipe = <<>> => chunk = <<>>
    BY <1>0 DEF Pipe
  <2> QED
    BY <2>1, Zenon DEF Ends
<1>1. CASE process_message
  <2>1. /\ Pipe # <<>> /\ Head(Pipe) = Head(chunk) /\ Pipe' = Tail(Pipe) /\ phase' = phase
        /\ snapshot' = snapshot
        /\ shared'.should_exit = (shared.should_exit \/ Head(chunk).kind = "exit")
    BY <1>1, PipeTaken, ExitTaken, SnapshotKept, Zenon DEF process_message, localVars
  <2>2. /\ ~shared.should_exit /\ ~snapshot.should_exit
    BY <2>1, Zenon DEF Ends
  <2>3. /\ \A i \in DOMAIN Tail(Pipe) : i + 1 \in DOMAIN Pipe /\ Tail(Pipe)[i] = Pipe[i + 1]
        /\ 1 \in DOMAIN Pipe /\ Head(Pipe) = Pipe[1] /\ Len(Tail(Pipe)) = Len(Pipe) - 1
        /\ Len(Pipe) = 1 => Tail(Pipe) = <<>>
        /\ Len(Pipe) \in Nat /\ DOMAIN Tail(Pipe) \subseteq Nat
    BY <1>0, <2>1
  <2>4. \A i \in DOMAIN Pipe' : Pipe'[i].kind = "exit" => i = Len(Pipe')
    <3> SUFFICES ASSUME NEW i \in DOMAIN Pipe', Pipe'[i].kind = "exit" PROVE i = Len(Pipe')
      OBVIOUS
    <3>1. i + 1 \in DOMAIN Pipe /\ Pipe[i + 1].kind = "exit" /\ i \in Nat
      BY <2>1, <2>3, Zenon
    <3>2. i + 1 = Len(Pipe)
      BY <3>1, Zenon DEF Ends
    <3> QED
      BY <2>1, <2>3, <3>1, <3>2
  <2>5. Head(chunk).kind = "exit" => Pipe' = <<>>
    BY <2>1, <2>3, Zenon DEF Ends
  <2>6. shared'.should_exit \/ snapshot'.should_exit => Pipe' = <<>>
    BY <2>1, <2>2, <2>5, Zenon
  <2>7. phase' = "exit" \/ Quiet'
    <3>1. CASE phase = "exit"
      BY <2>1, <3>1, Zenon
    <3>2. CASE Quiet
      <4>1. Head(Pipe).kind # "exit" /\ \A i \in DOMAIN Pipe' : Pipe'[i].kind # "exit"
        BY <1>0, <2>1, <3>2, MovesAll, Zenon DEF Quiet
      <4>2. shared'.should_exit = FALSE /\ snapshot'.should_exit = FALSE
        BY <1>f, <2>1, <2>2, <3>2, <4>1, Zenon DEF Quiet
      <4> QED
        BY <4>1, <4>2, Zenon DEF Quiet
    <3> QED
      BY <3>1, <3>2, Zenon DEF Ends
  <2> QED
    BY <2>4, <2>6, <2>7, Zenon DEF Ends
<1>2. ASSUME ~process_message, Pipe' = Pipe, phase' = phase PROVE Ends'
  <2>1. shared'.should_exit \/ snapshot'.should_exit => shared.should_exit \/ snapshot.should_exit
    BY <1>2, ExitMoves, Zenon
  <2>2. Quiet => Quiet'
    <3>1. ASSUME Quiet PROVE shared'.should_exit = FALSE /\ snapshot'.should_exit = FALSE
      BY <1>f, <2>1, <3>1, Zenon DEF Quiet
    <3> QED
      BY <1>2, <3>1, Zenon DEF Quiet
  <2> QED
    BY <1>2, <2>1, <2>2, Zenon DEF Ends
<1>3. ASSUME NEW m, Spoken(m), ~process_message PROVE Ends'
  <2>1. /\ m \in MessageType /\ Pipe' = Append(Pipe, m) /\ UNCHANGED <<shared, snapshot>>
        /\ phase = "open" \/ (phase = "shutdown" /\ m.kind = "exit")
        /\ m.kind \in {"shutdown", "exit"} => phase' = m.kind
        /\ m.kind \notin {"shutdown", "exit"} => phase' = phase
    BY <1>3, Zenon DEF Spoken, Sent
  <2>2. Quiet
    <3>1. phase # "exit"
      BY <2>1
    <3> QED
      BY <3>1, Zenon DEF Ends
  <2>3. ~shared'.should_exit /\ ~snapshot'.should_exit
    BY <2>1, <2>2, Zenon DEF Quiet
  <2>4. \A i \in DOMAIN Pipe' : Pipe'[i].kind = "exit" => i = Len(Pipe')
    <3>1. \A i \in DOMAIN Append(Pipe, m) : \/ i = Len(Append(Pipe, m))
                                            \/ i \in DOMAIN Pipe /\ Append(Pipe, m)[i] = Pipe[i]
      BY <1>0
    <3> QED
      BY <2>1, <2>2, <3>1, Zenon DEF Quiet
  <2>5. phase' = "exit" \/ Quiet'
    <3>1. CASE m.kind = "exit"
      BY <2>1, <3>1
    <3>2. CASE m.kind # "exit"
      <4>0. m \in MessageType /\ Pipe' = Append(Pipe, m) /\ \A i \in DOMAIN Pipe : Pipe[i].kind # "exit"
        BY <2>1, <2>2, Zenon DEF Quiet
      <4>1. \A i \in DOMAIN Pipe' : Pipe'[i].kind # "exit"
        BY <1>0, <3>2, <4>0, MovesAll, Zenon
      <4> QED
        BY <2>1, <2>2, <4>1, Zenon DEF Quiet
    <3> QED
      BY <3>1, <3>2, Zenon
  <2> QED
    BY <2>3, <2>4, <2>5, Zenon DEF Ends
<1> QED
  BY <1>c, <1>1, <1>2, <1>3, PipeMoves, SpeaksOne, Zenon

-----------------------------------------------------------------------------
(* The documents of the client and those of the server.                    *)

Touch(m, u) == m.kind \in {"didOpen", "didChange", "didClose"} /\ m.uri = u

\* Two stores agree on u; a store is as the message m about u leaves it.
Same(c, d, u) == (u \in DOMAIN c <=> u \in DOMAIN d) /\ (u \in DOMAIN c => c[u] = d[u])
Left(c, m, u) ==
    /\ m.kind = "didClose" => u \notin DOMAIN c
    /\ m.kind # "didClose" => u \in DOMAIN c /\ c[u] = DocOf(m)

\* d becomes e by the message m.
EffectOn(e, d, m, u) == (Touch(m, u) => Left(e, m, u)) /\ (~Touch(m, u) => Same(e, d, u))
Effect(e, d, m) == \A u \in Uris : EffectOn(e, d, m, u)

\* The client's document is the server's, and what is in the pipe; unless it is
\* closed and in A, where a commit may have brought it back.
FlowOf(q, c, d, A, u) ==
    /\ (\A i \in DOMAIN q : ~Touch(q[i], u)) /\ (u \in DOMAIN c \/ u \notin A) => Same(c, d, u)
    /\ \A i \in DOMAIN q :
           Touch(q[i], u) /\ (\A j \in DOMAIN q : j > i => ~Touch(q[j], u)) => Left(c, q[i], u)

Flow(q, c, d, A) == \A u \in Uris : FlowOf(q, c, d, A, u)

LEMMA FlowTail ==
    ASSUME NEW q \in Seq(MessageType), q # <<>>, NEW c, NEW d, NEW e, NEW u, NEW A, NEW B,
           FlowOf(q, c, d, A, u), EffectOn(e, d, Head(q), u),
           Touch(Head(q), u) \/ (u \in A => u \in B)
    PROVE  FlowOf(Tail(q), c, e, B, u)
<1> DEFINE r == Tail(q)
<1>1. /\ \A i \in DOMAIN r : i + 1 \in DOMAIN q /\ r[i] = q[i + 1]
      /\ 1 \in DOMAIN q /\ Head(q) = q[1]
      /\ \A i \in DOMAIN q : i = 1 \/ (i - 1 \in DOMAIN r /\ r[i - 1] = q[i])
      /\ \A i \in DOMAIN r : ~(1 > i)
      /\ \A i \in DOMAIN r : \A j \in DOMAIN q : j > i + 1 => j # 1 /\ j - 1 > i
      /\ ~(1 > 1)
  BY TailEntries
<1> HIDE DEF r
<1>2. /\ (\A i \in DOMAIN q : ~Touch(q[i], u)) /\ (u \in DOMAIN c \/ u \notin A) => Same(c, d, u)
      /\ \A i \in DOMAIN q :
             Touch(q[i], u) /\ (\A j \in DOMAIN q : j > i => ~Touch(q[j], u)) => Left(c, q[i], u)
  BY Zenon DEF FlowOf
<1>3. (Touch(q[1], u) => Left(e, q[1], u)) /\ (~Touch(q[1], u) => Same(e, d, u))
  BY <1>1, Zenon DEF EffectOn
<1>4. ASSUME \A i \in DOMAIN r : ~Touch(r[i], u), u \in DOMAIN c \/ u \notin B
      PROVE  Same(c, e, u)
  <2>1. \A i \in DOMAIN q : i # 1 => ~Touch(q[i], u)
    BY <1>1, <1>4, Zenon
  <2>2. CASE Touch(q[1], u)
    <3>1. Left(c, q[1], u) /\ Left(e, q[1], u)
      BY <1>1, <1>2, <1>3, <2>1, <2>2, Zenon
    <3> QED
      BY <3>1, Zenon DEF Left, Same
  <2>3. CASE ~Touch(q[1], u)
    <3>1. u \in DOMAIN c \/ u \notin A
      BY <1>1, <1>4, <2>3, Zenon
    <3>2. Same(c, d, u) /\ Same(e, d, u)
      BY <1>2, <1>3, <2>1, <2>3, <3>1, Zenon
    <3> QED
      BY <3>2, Zenon DEF Same
  <2> QED
    BY <2>2, <2>3, Zenon
<1>5. ASSUME NEW i \in DOMAIN r, Touch(r[i], u), \A j \in DOMAIN r : j > i => ~Touch(r[j], u)
      PROVE  Left(c, r[i], u)
  <2>1. \A j \in DOMAIN q : j > i + 1 => ~Touch(q[j], u)
    BY <1>1, <1>5, Zenon
  <2> QED
    BY <1>1, <1>2, <1>5, <2>1, Zenon
<1> QED
  BY <1>4, <1>5, Zenon DEF FlowOf, r

LEMMA FlowAppend ==
    ASSUME NEW q \in Seq(MessageType), NEW m \in MessageType, NEW b, NEW c, NEW d, NEW u, NEW A,
           FlowOf(q, c, d, A, u), EffectOn(b, c, m, u)
    PROVE  FlowOf(Append(q, m), b, d, A, u)
<1> DEFINE r == Append(q, m)
           n == Len(q) + 1
<1>1. /\ \A i \in DOMAIN r : i = n \/ (i \in DOMAIN q /\ r[i] = q[i])
      /\ \A i \in DOMAIN q : i \in DOMAIN r /\ r[i] = q[i] /\ n > i
      /\ n \in DOMAIN r /\ r[n] = m
  OBVIOUS
<1> HIDE DEF r, n
<1>2. /\ (\A i \in DOMAIN q : ~Touch(q[i], u)) /\ (u \in DOMAIN c \/ u \notin A) => Same(c, d, u)
      /\ \A i \in DOMAIN q :
             Touch(q[i], u) /\ (\A j \in DOMAIN q : j > i => ~Touch(q[j], u)) => Left(c, q[i], u)
  BY Zenon DEF FlowOf
<1>3. (Touch(m, u) => Left(b, m, u)) /\ (~Touch(m, u) => Same(b, c, u))
  BY Zenon DEF EffectOn
<1>4. ASSUME \A i \in DOMAIN r : ~Touch(r[i], u), u \in DOMAIN b \/ u \notin A
      PROVE  Same(b, d, u)
  <2>1. Same(b, c, u) /\ \A i \in DOMAIN q : ~Touch(q[i], u)
    BY <1>1, <1>3, <1>4, Zenon
  <2>2. Same(c, d, u)
    BY <1>2, <1>4, <2>1, Zenon DEF Same
  <2> QED
    BY <2>1, <2>2, Zenon DEF Same
<1>5. ASSUME NEW i \in DOMAIN r, Touch(r[i], u), \A j \in DOMAIN r : j > i => ~Touch(r[j], u)
      PROVE  Left(b, r[i], u)
  <2>1. CASE i = n
    BY <1>1, <1>3, <1>5, <2>1, Zenon
  <2>2. CASE i # n
    <3>1. i \in DOMAIN q /\ r[i] = q[i] /\ ~Touch(m, u)
      BY <1>1, <1>5, <2>2, Zenon
    <3>2. Left(c, q[i], u) /\ Same(b, c, u)
      BY <1>1, <1>2, <1>3, <1>5, <3>1, Zenon
    <3> QED
      BY <3>1, <3>2, Zenon DEF Left, Same
  <2> QED
    BY <2>1, <2>2, Zenon
<1> QED
  BY <1>4, <1>5, Zenon DEF FlowOf, r

\* A message does to the server's documents what it did to the client's.
LEMMA PutEffect ==
    ASSUME NEW d, NEW m, m.kind = "didOpen" \/ m.kind = "didChange"
    PROVE  Effect(Put(d, m.uri, DocOf(m)), d, m)
<1>1. m.kind # "didClose" /\ m.kind \in {"didOpen", "didChange", "didClose"}
  OBVIOUS
<1>2. /\ DOMAIN Put(d, m.uri, DocOf(m)) = DOMAIN d \cup {m.uri}
      /\ \A x \in DOMAIN d \cup {m.uri} :
             Put(d, m.uri, DocOf(m))[x] = IF x = m.uri THEN DocOf(m) ELSE d[x]
  BY DEF Put
<1> QED
  BY <1>1, <1>2, Zenon DEF Effect, EffectOn, Touch, Left, Same

LEMMA DropEffect ==
    ASSUME NEW d, NEW m, m.kind = "didClose"
    PROVE  Effect(Drop(d, m.uri), d, m)
<1>1. m.kind \in {"didOpen", "didChange", "didClose"}
  OBVIOUS
<1>2. /\ DOMAIN Drop(d, m.uri) = DOMAIN d \ {m.uri}
      /\ \A x \in DOMAIN d \ {m.uri} : Drop(d, m.uri)[x] = d[x]
  BY DEF Drop, Restrict
<1> QED
  BY <1>1, <1>2, Zenon DEF Effect, EffectOn, Touch, Left, Same

LEMMA NoEffect ==
    ASSUME NEW d, NEW m, m.kind = "didSave" \/ m.kind = "shutdown" \/ m.kind = "exit"
    PROVE  Effect(d, d, m)
<1>1. m.kind \notin {"didOpen", "didChange", "didClose"}
  OBVIOUS
<1> QED
  BY <1>1, Zenon DEF Effect, EffectOn, Touch, Same

LEMMA ServerEffect ==
    ASSUME Types, process_message
    PROVE  Effect(shared'.documents, shared.documents, Head(chunk))
<1> DEFINE m == Head(chunk)
<1>1. /\ m \in MessageType
      /\ m.kind \in {"didOpen", "didChange"} => Opened(shared', shared, m)
      /\ m.kind = "didSave" => Saved(shared', shared)
      /\ m.kind = "didClose" => Closed(shared', shared, m)
      /\ m.kind \in {"shutdown", "exit"} => EndOf(shared', shared, m)
  BY Taken, Notified, Zenon
<1>2. \/ m.kind \in {"didOpen", "didChange"} \/ m.kind = "didClose"
      \/ m.kind \in {"didSave", "shutdown", "exit"}
  BY <1>1 DEF MessageType, EditType, TouchType, EndType
<1> SUFFICES Effect(shared'.documents, shared.documents, m)
  OBVIOUS
<1> HIDE DEF m
<1>3. CASE m.kind \in {"didOpen", "didChange"}
  <2>1. shared'.documents = Put(shared.documents, m.uri, DocOf(m))
    BY <1>1, <1>3, Zenon DEF Opened
  <2> QED
    BY <1>3, <2>1, PutEffect, Zenon
<1>4. CASE m.kind = "didClose"
  <2>1. shared'.documents = Drop(shared.documents, m.uri)
    BY <1>1, <1>4, Zenon DEF Closed
  <2> QED
    BY <1>4, <2>1, DropEffect, Zenon
<1>5. CASE m.kind \in {"didSave", "shutdown", "exit"}
  <2>1. shared'.documents = shared.documents
    BY <1>1, <1>5, Zenon DEF Saved, EndOf
  <2> QED
    BY <1>5, <2>1, NoEffect, Zenon
<1> QED
  BY <1>2, <1>3, <1>4, <1>5, Zenon

LEMMA ClientEffect ==
    ASSUME NEW m, Spoken(m)
    PROVE  Effect(client', client, m)
<1>1. \/ m.kind \in {"didOpen", "didChange"} /\ client' = Put(client, m.uri, DocOf(m))
      \/ m.kind = "didClose" /\ client' = Drop(client, m.uri)
      \/ m.kind \in {"didSave", "shutdown", "exit"} /\ client' = client
  BY Zenon DEF Spoken
<1>2. /\ m.kind \in {"didOpen", "didChange"} => Effect(Put(client, m.uri, DocOf(m)), client, m)
      /\ m.kind = "didClose" => Effect(Drop(client, m.uri), client, m)
      /\ m.kind \in {"didSave", "shutdown", "exit"} => Effect(client, client, m)
  BY PutEffect, DropEffect, NoEffect, Zenon
<1> QED
  BY <1>1, <1>2, Zenon

\* A commit of the current generation does not bring old documents back.
Committed == worker = "analyzing" /\ job = gen => snapshot.documents = shared.documents

LEMMA DocumentsKept ==
    ASSUME Types, Committed, Next, ~process_message
    PROVE  shared'.documents = shared.documents
<1>0. /\ shared \in StateType /\ snapshot \in StateType
  BY Zenon DEF Types, StateTypes
<1>1. CASE workerParse
  <2>1. publish(shared)
    BY <1>1, Zenon DEF workerParse
  <2> QED
    BY <1>0, <2>1, Commit, Zenon DEF Published
<1>2. CASE workerPublish
  <2>1. publish(snapshot) /\ worker = "analyzing" /\ job = gen
    BY <1>2, Zenon DEF workerPublish
  <2> QED
    BY <1>0, <2>1, Commit, Zenon DEF Published, Committed
<1>3. workerAnalyze => shared' = shared
  BY Zenon DEF workerAnalyze
<1> QED
  BY <1>1, <1>2, <1>3, StateKept, Zenon

LEMMA EndsEmpties ==
    ASSUME Types, Ends
    PROVE  shared.should_exit => chunk = <<>>
<1>0. chunk \in Seq(MessageType) /\ stdin \in Seq(MessageType)
  BY PipeType, Zenon
<1>1. Pipe = <<>> => chunk = <<>>
  BY <1>0 DEF Pipe
<1> QED
  BY <1>1, Zenon DEF Ends

\* The documents that a commit may have brought back.
ClosedAmid == {u \in Uris : Applied("didClose", u, {TRUE})}

\* e is d, but for what is closed in d and in A.
Kept(e, d, A) == \A u \in Uris : u \in DOMAIN d \/ u \notin A => Same(e, d, u)

\* A commit of the current generation brings back only what was closed amid its run.
Restored ==
    worker = "analyzing" =>
        /\ job <= gen
        /\ job = gen => Kept(snapshot.documents, shared.documents, ClosedAmid)

Flows == Flow(Pipe, client, shared.documents, ClosedAmid)

LEMMA AppliedGrows ==
    ASSUME Types, Next, NEW k, NEW u, NEW S, Applied(k, u, S)
    PROVE  Applied(k, u, S)'
<1>1. handled \subseteq handled'
  <2>1. CASE process_message
    <3>1. PICK h : handled' = handled \cup {h}
      BY <2>1, HandledTaken, Zenon
    <3> QED
      BY <3>1, Zenon
  <2> QED
    BY <2>1, HandledKept, Zenon
<1> QED
  BY <1>1, Zenon DEF Applied

LEMMA RestoredKept ==
    ASSUME Types, Restored, Next, ~process_message
    PROVE  /\ Kept(shared'.documents, shared.documents, ClosedAmid)
           /\ ClosedAmid' = ClosedAmid
<1>0. /\ shared \in StateType /\ snapshot \in StateType
  BY Zenon DEF Types, StateTypes
<1>s. Kept(shared.documents, shared.documents, ClosedAmid)
  BY Zenon DEF Kept, Same
<1>a. ClosedAmid' = ClosedAmid
  BY HandledKept, Zenon DEF ClosedAmid, Applied
<1>1. CASE workerParse
  <2>1. publish(shared)
    BY <1>1, Zenon DEF workerParse
  <2>2. shared'.documents = shared.documents
    BY <1>0, <2>1, Commit, Zenon DEF Published
  <2> QED
    BY <1>a, <1>s, <2>2, Zenon
<1>2. CASE workerPublish
  <2>1. publish(snapshot) /\ worker = "analyzing" /\ job = gen
    BY <1>2, Zenon DEF workerPublish
  <2>2. shared'.documents = snapshot.documents
    BY <1>0, <2>1, Commit, Zenon DEF Published
  <2> QED
    BY <1>a, <2>1, <2>2, Zenon DEF Restored
<1>3. CASE shared' = shared
  BY <1>a, <1>s, <1>3, Zenon
<1>4. workerAnalyze => shared' = shared
  BY Zenon DEF workerAnalyze
<1> QED
  BY <1>1, <1>2, <1>3, <1>4, StateKept, Zenon

\* What is handled amid a run and does not outdate it is the close of the last
\* document, or the end.
LEMMA RestoredTaken ==
    ASSUME Types, Dated, Restored, process_message
    PROVE  Restored'
<1> DEFINE m == Head(chunk)
           d == shared.documents
           e == snapshot.documents
<1> SUFFICES ASSUME worker' = "analyzing"
             PROVE  job' <= gen' /\ (job' = gen' => Kept(e', d', ClosedAmid'))
  BY Zenon DEF Restored
<1>0. /\ worker = "analyzing" /\ UNCHANGED <<job, snapshot>>
      /\ m \in MessageType
      /\ m.kind \in {"didOpen", "didChange"} => Opened(shared', shared, m)
      /\ m.kind = "didSave" => Saved(shared', shared)
      /\ m.kind = "didClose" => Closed(shared', shared, m)
      /\ m.kind \in {"shutdown", "exit"} => EndOf(shared', shared, m)
  BY Taken, Notified, Zenon DEF process_message, localVars
<1>1. gen \in Nat /\ job \in Nat /\ job <= gen /\ (job = gen => Kept(e, d, ClosedAmid))
  <2>1. gen \in Nat /\ job \in 0..MaxMessages
    BY Zenon DEF Types, PipeTypes, TaskTypes
  <2> QED
    BY <1>0, <2>1, LoopAssumption DEF Restored
<1>2. (gen' = gen + 1) \/ (gen' = gen /\ shared'.deadline = shared.deadline)
  BY ProcessCases, Zenon DEF Armed, Unarmed
<1>3. CASE gen' = gen + 1
  <2>1. job <= gen + 1 /\ job # gen + 1
    BY <1>1
  <2> QED
    BY <1>0, <1>3, <2>1, Zenon
<1>4. CASE gen' = gen /\ shared'.deadline = shared.deadline
  <2>1. job' <= gen'
    BY <1>0, <1>1, <1>4, Zenon
  <2> SUFFICES ASSUME job = gen PROVE Kept(e', d', ClosedAmid')
    BY <1>0, <1>4, <2>1, Zenon
  <2>2. gen + 1 # gen /\ shared.deadline = gen
    <3>1. gen + 1 # gen
      BY <1>1
    <3> QED
      BY <3>1, Zenon DEF Dated
  <2>3. \/ m.kind = "didClose" /\ d' = Drop(d, m.uri) /\ DOMAIN d' = {}
        \/ m.kind \in {"shutdown", "exit"} /\ d' = d
    <3>1. m.kind \in {"didOpen", "didChange"} \/ m.kind = "didSave" \/ m.kind = "didClose"
          \/ m.kind \in {"shutdown", "exit"}
      BY <1>0 DEF MessageType, EditType, TouchType, EndType
    <3>2. shared'.deadline # gen + 1
      BY <1>4, <2>2, Zenon
    <3> HIDE DEF m
    <3> QED
      BY <1>0, <3>1, <3>2, Zenon DEF Opened, Saved, Closed, EndOf, Rearmed
  <2>4. PICK h : /\ handled' = handled \cup {h} /\ h.kind = m.kind /\ h.uri = m.uri
                 /\ h.amid = TRUE
    BY <1>0, <1>4, HandledTaken, Zenon
  <2>5. \A u \in Uris : u \in ClosedAmid => u \in ClosedAmid'
    BY <2>4, Zenon DEF ClosedAmid, Applied
  <2> HIDE DEF m, d, e
  <2>6. CASE m.kind = "didClose" /\ d' = Drop(d, m.uri) /\ DOMAIN d' = {}
    <3>1. m.uri \in Uris => m.uri \in ClosedAmid'
      BY <2>4, <2>6, Zenon DEF ClosedAmid, Applied
    <3>2. \A u \in DOMAIN d : u = m.uri
      <4>1. DOMAIN Drop(d, m.uri) = DOMAIN d \ {m.uri}
        BY DEF Drop, Restrict
      <4> QED
        BY <2>6, <4>1, Zenon
    <3>3. ASSUME NEW u \in Uris, u \in DOMAIN d' \/ u \notin ClosedAmid' PROVE Same(e, d', u)
      <4>1. u \notin DOMAIN d' /\ u \notin ClosedAmid /\ u \notin DOMAIN d
        BY <2>5, <2>6, <3>1, <3>2, <3>3, Zenon
      <4> QED
        BY <1>1, <4>1, Zenon DEF Kept, Same
    <3>4. e' = e
      BY <1>0, Zenon DEF e
    <3> QED
      BY <3>3, <3>4, Zenon DEF Kept
  <2>7. CASE d' = d
    <3>1. e' = e
      BY <1>0, Zenon DEF e
    <3> QED
      BY <1>1, <2>5, <2>7, <3>1, Zenon DEF Kept
  <2> QED
    BY <2>3, <2>6, <2>7, Zenon
<1> QED
  BY <1>2, <1>3, <1>4, Zenon

LEMMA RestoredNext ==
    ASSUME Types, Dated, Restored, Next
    PROVE  Restored'
<1>1. CASE process_message
  BY <1>1, RestoredTaken, Zenon
<1>2. CASE ~process_message
  <2> SUFFICES ASSUME worker' = "analyzing"
               PROVE  /\ job' <= gen'
                      /\ job' = gen' => Kept(snapshot'.documents, shared'.documents, ClosedAmid')
    BY Zenon DEF Restored
  <2>1. gen' = gen /\ gen \in Nat /\ ClosedAmid' = ClosedAmid
    BY <1>2, GenKept, RestoredKept, Zenon DEF Types, PipeTypes
  <2>2. CASE workerAnalyze
    <3>1. snapshot' = shared /\ shared' = shared /\ job' = job /\ job = gen
      BY <2>2, Zenon DEF workerAnalyze
    <3>2. gen <= gen
      BY <2>1
    <3> QED
      BY <2>1, <3>1, <3>2, Zenon DEF Kept, Same
  <2>3. CASE ~workerAnalyze
    <3>1. worker = "analyzing" /\ UNCHANGED <<snapshot, job>>
      BY <2>3, AnalyzingKept, Zenon
    <3>2. shared' = shared
      <4>1. "loop" # "analyzing"
        OBVIOUS
      <4>2. ~workerParse /\ ~workerPublish
        BY <4>1, Zenon DEF workerParse, workerPublish, jobDone
      <4> QED
        BY <1>2, <2>3, <4>2, StateKept, Zenon
    <3> QED
      BY <2>1, <3>1, <3>2, Zenon DEF Restored
  <2> QED
    BY <2>2, <2>3, Zenon
<1> QED
  BY <1>1, <1>2, Zenon

LEMMA FlowsNext ==
    ASSUME Types, Pairs, Ends, Restored, Flows, Next
    PROVE  Flows'
<1>0. Pipe \in Seq(MessageType)
  BY PipeType, Zenon
<1> SUFFICES ASSUME NEW u \in Uris
             PROVE  FlowOf(Pipe', client', shared'.documents, ClosedAmid', u)
  BY Zenon DEF Flows, Flow
<1>f. FlowOf(Pipe, client, shared.documents, ClosedAmid, u)
  BY Zenon DEF Flows, Flow
<1>a. u \in ClosedAmid => u \in ClosedAmid'
  BY AppliedGrows, Zenon DEF ClosedAmid
<1>1. CASE process_message
  <2>1. Pipe # <<>> /\ Head(Pipe) = Head(chunk) /\ Pipe' = Tail(Pipe) /\ client' = client
    BY <1>1, PipeTaken, Zenon
  <2>2. EffectOn(shared'.documents, shared.documents, Head(Pipe), u)
    BY <1>1, <2>1, ServerEffect, Zenon DEF Effect
  <2>3. FlowOf(Tail(Pipe), client, shared'.documents, ClosedAmid', u)
    BY <1>0, <1>a, <1>f, <2>1, <2>2, FlowTail, Zenon
  <2> QED
    BY <2>1, <2>3, Zenon
<1>2. ASSUME ~process_message, Pipe' = Pipe, client' = client
      PROVE  FlowOf(Pipe', client', shared'.documents, ClosedAmid', u)
  <2>1. /\ u \in DOMAIN shared.documents \/ u \notin ClosedAmid =>
               Same(shared'.documents, shared.documents, u)
        /\ ClosedAmid' = ClosedAmid
    BY <1>2, RestoredKept, Zenon DEF Kept
  <2> QED
    BY <1>2, <1>f, <2>1, Zenon DEF FlowOf, Same
<1>3. ASSUME NEW m, Spoken(m), ~process_message
      PROVE  FlowOf(Pipe', client', shared'.documents, ClosedAmid', u)
  <2>1. m \in MessageType /\ Pipe' = Append(Pipe, m) /\ shared' = shared
    BY <1>3, Zenon DEF Spoken, Sent
  <2>2. EffectOn(client', client, m, u)
    BY <1>3, ClientEffect, Zenon DEF Effect
  <2>3. FlowOf(Append(Pipe, m), client', shared.documents, ClosedAmid, u)
    BY <1>0, <1>f, <2>1, <2>2, FlowAppend, Zenon
  <2>4. ClosedAmid' = ClosedAmid
    BY <1>3, RestoredKept, Zenon
  <2> QED
    BY <2>1, <2>3, <2>4, Zenon
<1> QED
  BY <1>1, <1>2, <1>3, EndsEmpties, PipeMoves, SpeaksOne, Zenon

\* Without didClose, nothing is opened twice.
Open(q, c, d) ==
    /\ \A i \in DOMAIN q : q[i].kind # "didClose"
    /\ \A u \in DOMAIN d : u \in DOMAIN c
    /\ \A i \in DOMAIN q : \A u \in Uris : Touch(q[i], u) => u \in DOMAIN c
    /\ \A i \in DOMAIN q : \A u \in Uris : q[i].kind = "didOpen" /\ q[i].uri = u =>
           u \notin DOMAIN d /\ \A j \in DOMAIN q : j < i => ~Touch(q[j], u)

LEMMA OpenTail ==
    ASSUME NEW q \in Seq(MessageType), q # <<>>, NEW c, NEW d, NEW e,
           Open(q, c, d), Effect(e, d, Head(q)), DOMAIN e \subseteq Uris
    PROVE  Open(Tail(q), c, e)
<1> DEFINE r == Tail(q)
<1>1. /\ \A i \in DOMAIN r : i + 1 \in DOMAIN q /\ r[i] = q[i + 1] /\ 1 < i + 1
      /\ 1 \in DOMAIN q /\ Head(q) = q[1]
      /\ \A i, j \in DOMAIN r : j < i => j + 1 < i + 1
  BY TailEntries
<1> HIDE DEF r
<1>2. \A u \in Uris : u \in DOMAIN e => u \in DOMAIN d \/ Touch(q[1], u)
  BY <1>1, Zenon DEF Effect, EffectOn, Same
<1>3. \A u \in DOMAIN e : u \in DOMAIN c
  BY <1>1, <1>2, Zenon DEF Open
<1>4. ASSUME NEW i \in DOMAIN r, NEW u \in Uris, r[i].kind = "didOpen", r[i].uri = u
      PROVE  u \notin DOMAIN e /\ \A j \in DOMAIN r : j < i => ~Touch(r[j], u)
  <2>1. u \notin DOMAIN d /\ \A j \in DOMAIN q : j < i + 1 => ~Touch(q[j], u)
    BY <1>1, <1>4, Zenon DEF Open
  <2> QED
    BY <1>1, <1>2, <2>1, Zenon
<1>5. \A i \in DOMAIN r : r[i].kind # "didClose" /\ \A u \in Uris : Touch(r[i], u) => u \in DOMAIN c
  BY <1>1, Zenon DEF Open
<1> QED
  BY <1>3, <1>4, <1>5, Zenon DEF Open, r

LEMMA OpenAppend ==
    ASSUME NEW q \in Seq(MessageType), NEW m \in MessageType, NEW b, NEW c, NEW d,
           Open(q, c, d), Effect(b, c, m), DOMAIN c \subseteq Uris,
           m.kind # "didClose", m.kind = "didOpen" => m.uri \notin DOMAIN c
    PROVE  Open(Append(q, m), b, d)
<1> DEFINE r == Append(q, m)
           n == Len(q) + 1
<1>1. /\ \A i \in DOMAIN r : i = n \/ (i \in DOMAIN q /\ r[i] = q[i])
      /\ \A i \in DOMAIN q : ~(n < i)
      /\ n \in DOMAIN r /\ r[n] = m /\ ~(n < n)
  OBVIOUS
<1> HIDE DEF r, n
<1>2. /\ \A u \in DOMAIN c : u \in DOMAIN b
      /\ \A u \in Uris : Touch(m, u) => u \in DOMAIN b
  BY Zenon DEF Effect, EffectOn, Same, Left
<1>3. \A u \in DOMAIN d : u \in DOMAIN b
  BY <1>2, Zenon DEF Open
<1>4. \A i \in DOMAIN r : r[i].kind # "didClose" /\ \A u \in Uris : Touch(r[i], u) => u \in DOMAIN b
  BY <1>1, <1>2, Zenon DEF Open
<1>5. ASSUME NEW i \in DOMAIN r, NEW u \in Uris, r[i].kind = "didOpen", r[i].uri = u
      PROVE  u \notin DOMAIN d /\ \A j \in DOMAIN r : j < i => ~Touch(r[j], u)
  <2>1. CASE i = n
    <3>1. u \notin DOMAIN c
      BY <1>1, <1>5, <2>1, Zenon
    <3>2. u \notin DOMAIN d /\ \A j \in DOMAIN q : ~Touch(q[j], u)
      BY <3>1, Zenon DEF Open
    <3> QED
      BY <1>1, <2>1, <3>2, Zenon
  <2>2. CASE i # n
    <3>1. i \in DOMAIN q /\ q[i].kind = "didOpen" /\ q[i].uri = u
      BY <1>1, <1>5, <2>2, Zenon
    <3>2. u \notin DOMAIN d /\ \A j \in DOMAIN q : j < i => ~Touch(q[j], u)
      BY <3>1, Zenon DEF Open
    <3> QED
      BY <1>1, <3>1, <3>2, Zenon
  <2> QED
    BY <2>1, <2>2, Zenon
<1> QED
  BY <1>3, <1>4, <1>5, Zenon DEF Open, r

Opening == Open(Pipe, client, shared.documents)

LEMMA OpeningNext ==
    ASSUME "didClose" \notin Kinds, Types, Types', Pairs, Ends, Committed, Opening, Next
    PROVE  Opening'
<1>0. Pipe \in Seq(MessageType)
  BY PipeType, Zenon
<1>d. DOMAIN client \subseteq Uris /\ DOMAIN shared'.documents \subseteq Uris
  <2>1. client \in Partial(DocType)
    BY PartialNames, Zenon DEF Types, PipeTypes
  <2>2. shared'.documents \in Partial(DocType)
    BY PartialNames DEF Types, StateTypes, StateType
  <2> QED
    BY <2>1, <2>2, PartialDomain, Zenon
<1>1. CASE process_message
  <2>1. Pipe # <<>> /\ Head(Pipe) = Head(chunk) /\ Pipe' = Tail(Pipe) /\ client' = client
    BY <1>1, PipeTaken, Zenon
  <2>2. Effect(shared'.documents, shared.documents, Head(Pipe))
    BY <1>1, <2>1, ServerEffect, Zenon
  <2>3. Open(Tail(Pipe), client, shared'.documents)
    BY <1>0, <1>d, <2>1, <2>2, OpenTail, Zenon DEF Opening
  <2> QED
    BY <2>1, <2>3, Zenon DEF Opening
<1>2. ASSUME ~process_message, Pipe' = Pipe, client' = client PROVE Opening'
  BY <1>2, DocumentsKept, Zenon DEF Opening
<1>3. ASSUME NEW m, Spoken(m), ~process_message PROVE Opening'
  <2>1. m \in MessageType /\ m.kind \in Kinds /\ Pipe' = Append(Pipe, m) /\ shared' = shared
    BY <1>3, Zenon DEF Spoken, Sent
  <2>2. m.kind # "didClose"
    BY <2>1, Zenon
  <2>3. m.kind = "didOpen" => m.uri \notin DOMAIN client
    <3>1. \/ m.uri \notin DOMAIN client \/ m.kind = "didChange" \/ m.kind = "didClose"
          \/ m.kind \in {"didSave", "shutdown", "exit"}
      BY <1>3, Zenon DEF Spoken
    <3> QED
      BY <3>1
  <2>4. Open(Append(Pipe, m), client', shared.documents)
    BY <1>0, <1>d, <1>3, <2>1, <2>2, <2>3, ClientEffect, OpenAppend, Zenon DEF Opening
  <2> QED
    BY <2>1, <2>4, Zenon DEF Opening
<1> QED
  BY <1>1, <1>2, <1>3, EndsEmpties, PipeMoves, SpeaksOne, Zenon

LEMMA InitPipe == Init => Pipe = <<>>
<1>1. Init => chunk = <<>> /\ stdin = <<>>
  BY DEF Init
<1> QED
  BY <1>1 DEF Pipe

LEMMA EndsInvariant == Spec => []Ends
<1>1. Init => Ends
  <2> SUFFICES ASSUME Init PROVE Ends
    OBVIOUS
  <2>1. Pipe = <<>> /\ DOMAIN <<>> = {}
    BY InitPipe
  <2>2. shared.should_exit = FALSE /\ snapshot.should_exit = FALSE
    BY DEF Init, initial_state
  <2> QED
    BY <2>1, <2>2, Zenon DEF Ends, Quiet
<1>2. Types /\ Types' /\ Tasks /\ Ends /\ [Next]_vars => Ends'
  <2>1. Ends /\ UNCHANGED vars => Ends'
    BY Zenon DEF Ends, Quiet, Pipe, vars, clientVars, localVars
  <2> QED
    BY <2>1, EndsNext, Zenon DEF Tasks
<1> QED
  BY <1>1, <1>2, TypesInvariant, TasksInvariant, PTL DEF Spec

-----------------------------------------------------------------------------
(* What holds of any client.                                               *)

Settling == Dated /\ FullScheduled /\ DebounceIn

LEMMA SettlingInvariant == Spec => []Settling
<1>1. Init => Settling
  <2> SUFFICES ASSUME Init PROVE Settling
    OBVIOUS
  <2>1. Dated
    BY SchedulingInit, Zenon DEF Scheduling
  <2>2. FullScheduled
    BY DEF Init, initial_state, FullScheduled
  <2>3. ASSUME NEW g \in Gens PROVE debounce[g] \notin {"new", "awake"} /\ debounce[g] # "parked"
    BY <2>3 DEF Init
  <2> QED
    BY <2>1, <2>2, <2>3, Zenon DEF Settling, DebounceIn
<1>2. Types /\ Settling /\ [Next]_vars => Settling'
  <2>1. ASSUME Settling, UNCHANGED vars PROVE Settling'
    <3>1. UNCHANGED <<shared, gen, worker, snapshot, job, jobs, parked, closed, elapsed, timers,
                      ready, debounce>>
      BY <2>1, Zenon DEF vars, jobVars, localVars
    <3> QED
      BY <2>1, <3>1, Zenon DEF Settling, Dated, FullScheduled, Scheduled, DebounceIn
  <2> QED
    BY <2>1, DatedNext, FullScheduledNext, DebounceInNext, Zenon DEF Settling
<1> QED
  BY <1>1, <1>2, TypesInvariant, PTL DEF Spec

LEMMA FlowsInvariant == Spec => [](Restored /\ Flows)
<1>1. Init => Restored /\ Flows
  <2> SUFFICES ASSUME Init PROVE Restored /\ Flows
    OBVIOUS
  <2>1. Pipe = <<>> /\ DOMAIN <<>> = {}
    BY InitPipe
  <2>2. DOMAIN client = {} /\ DOMAIN shared.documents = {}
    BY NothingType DEF Init, initial_state
  <2>3. worker # "analyzing"
    BY DEF Init
  <2> QED
    BY <2>1, <2>2, <2>3, Zenon DEF Restored, Flows, Flow, FlowOf, Same
<1>2. Types /\ Tasks /\ Ends /\ Settling /\ Restored /\ Flows /\ [Next]_vars => (Restored /\ Flows)'
  <2>1. ASSUME Restored, Flows, UNCHANGED vars PROVE (Restored /\ Flows)'
    <3>1. UNCHANGED <<Pipe, client, shared, snapshot, worker, job, gen, handled>>
      BY <2>1, Zenon DEF vars, clientVars, localVars, Pipe
    <3>2. ClosedAmid' = ClosedAmid
      BY <3>1, Zenon DEF ClosedAmid, Applied
    <3> QED
      BY <2>1, <3>1, <3>2, Zenon DEF Restored, Flows
  <2> QED
    BY <2>1, RestoredNext, FlowsNext, Zenon DEF Settling, Tasks
<1> QED
  BY <1>1, <1>2, TypesInvariant, TasksInvariant, EndsInvariant, SettlingInvariant, PTL DEF Spec

-----------------------------------------------------------------------------
(* ExitReachesReader.                                                      *)

\* Once an exit is handled the client has nothing more to say.
Said == Handled("exit") => phase = "exit" /\ Pipe = <<>>

LEMMA SaidNext ==
    ASSUME Types, Pairs, Ends, Said, Next
    PROVE  Said'
<1>0. Pipe \in Seq(MessageType)
  BY PipeType, Zenon
<1>1. CASE process_message
  <2>1. Pipe # <<>> /\ Head(Pipe) = Head(chunk) /\ Pipe' = Tail(Pipe) /\ phase' = phase
    BY <1>1, PipeTaken, Zenon
  <2>2. ~Handled("exit")
    BY <2>1, Zenon DEF Said
  <2>3. PICK h : handled' = handled \cup {h} /\ h.kind = Head(Pipe).kind
    BY <1>1, <2>1, HandledTaken, Zenon
  <2>4. Handled("exit")' => Head(Pipe).kind = "exit"
    BY <2>2, <2>3, Zenon DEF Handled
  <2>5. /\ 1 \in DOMAIN Pipe /\ Head(Pipe) = Pipe[1]
        /\ Len(Pipe) = 1 => Tail(Pipe) = <<>>
    BY <1>0, <2>1
  <2>6. Head(Pipe).kind = "exit" => phase = "exit" /\ Tail(Pipe) = <<>>
    BY <2>5, Zenon DEF Ends, Quiet
  <2> QED
    BY <2>1, <2>4, <2>6, Zenon DEF Said
<1>2. CASE ~process_message
  <2>1. Handled("exit")' <=> Handled("exit")
    BY <1>2, HandledKept, Zenon DEF Handled
  <2>2. \/ Pipe' = Pipe /\ phase' = phase
        \/ \E m : Spoken(m)
    BY <1>2, EndsEmpties, PipeMoves, SpeaksOne, Zenon
  <2>3. ASSUME NEW m, Spoken(m) PROVE phase # "exit"
    BY <2>3 DEF Spoken, Sent
  <2> QED
    BY <2>1, <2>2, <2>3, Zenon DEF Said
<1> QED
  BY <1>1, <1>2, Zenon

\* The reader and the dispatcher agree on the end.  An exit that no run took out of
\* the state is in it, and in every snapshot that may replace it.
Exiting ==
    /\ reader \in {"reading", "read", "sending"} => shared.should_exit = FALSE
    /\ reader \in {"read", "sending"} => chunk # <<>>
    /\ dispatcher = "done" => Handled("exit") \/ chunksClosed
    /\ shared.should_exit = TRUE => Handled("exit")
    /\ worker = "analyzing" /\ snapshot.should_exit = TRUE => shared.should_exit = TRUE
    /\ HandledAlone("exit") =>
           /\ shared.should_exit = TRUE
           /\ worker = "analyzing" /\ job = gen => snapshot.should_exit = TRUE

\* What a step that handles nothing does to the flag.
LEMMA ExitKept ==
    ASSUME Types, Exiting, Next, ~process_message
    PROVE  /\ shared'.should_exit = shared.should_exit \/ shared'.should_exit = FALSE
           /\ HandledAlone("exit") => shared'.should_exit = TRUE
           /\ worker' = "analyzing" => shared'.should_exit = shared.should_exit
           /\ worker' = "analyzing" =>
                 \/ worker = "analyzing" /\ snapshot' = snapshot /\ job' = job
                 \/ snapshot' = shared
<1>0. /\ shared \in StateType /\ snapshot \in StateType /\ "loop" # "analyzing"
  BY Zenon DEF Types, StateTypes
<1>b. shared.should_exit \in BOOLEAN /\ snapshot.should_exit \in BOOLEAN
  BY FlagTypes, Zenon
<1>1. CASE workerParse
  <2>1. publish(shared) /\ worker' = "loop"
    BY <1>1, Zenon DEF workerParse, jobDone
  <2>2. shared'.should_exit = shared.should_exit
    BY <1>0, <2>1, Commit, Zenon DEF Published
  <2> QED
    BY <1>0, <2>1, <2>2, Zenon DEF Exiting
<1>2. CASE workerPublish
  <2>1. publish(snapshot) /\ worker' = "loop" /\ worker = "analyzing" /\ job = gen
    BY <1>2, Zenon DEF workerPublish, jobDone
  <2>2. shared'.should_exit = snapshot.should_exit
    BY <1>0, <2>1, Commit, Zenon DEF Published
  <2> QED
    BY <1>0, <1>b, <2>1, <2>2, Zenon DEF Exiting
<1>3. CASE shared' = shared
  <2>1. worker' = "analyzing" =>
            \/ worker = "analyzing" /\ snapshot' = snapshot /\ job' = job
            \/ snapshot' = shared
    BY AnalyzingKept, Zenon DEF workerAnalyze
  <2> QED
    BY <1>3, <2>1, Zenon DEF Exiting
<1>4. workerAnalyze => shared' = shared
  BY Zenon DEF workerAnalyze
<1> QED
  BY <1>1, <1>2, <1>3, <1>4, StateKept, Zenon

\* Where the reader and the dispatcher go.
LEMMA PairsMove ==
    ASSUME Pairs, Closing, Next, ~process_message
    PROVE  /\ reader' \in {"reading", "read", "sending"} =>
                 \/ reader = reader'
                 \/ reader = "reading" /\ reader' = "read" /\ chunk' # <<>>
                 \/ reader = "read" /\ reader' = "sending" /\ chunk' = chunk
                 \/ reader' = "reading" /\ ~shared.should_exit
           /\ reader' = reader /\ reader \in {"read", "sending"} => chunk' = chunk
           /\ dispatcher' = "done" =>
                 dispatcher = "done" \/ chunksClosed \/ shared.should_exit
           /\ chunksClosed => chunksClosed'
<1>1. CASE UNCHANGED <<reader, dispatcher, chunk>>
  BY <1>1 DEF chunksClosed
<1>2. CASE ReaderStep
  <2>1. ASSUME NEW n, read_chunk(n)
        PROVE  reader = "reading" /\ reader' = "read" /\ chunk' # <<>> /\ dispatcher' = dispatcher
    <3>1. /\ reader = "reading" /\ reader' = "read" /\ dispatcher' = dispatcher
          /\ n \in 1..Len(stdin) /\ chunk' = SubSeq(stdin, 1, n)
      BY <2>1, Zenon DEF read_chunk
    <3>2. chunk' # <<>>
      BY <3>1
    <3> QED
      BY <3>1, <3>2, Zenon
  <2>2. CASE ~\E n \in 1..MaxMessages : read_chunk(n)
    <3>1. \/ reader = "read" /\ reader' = "acking" /\ dispatcher' # "done"
          \/ reader = "read" /\ reader' = "sending" /\ UNCHANGED <<dispatcher, chunk>>
          \/ reader' = "acked" /\ dispatcher' = "acked" /\ reader = "sent"
          \/ reader = "acked" /\ reader' = "reading" /\ ~shared.should_exit /\ dispatcher' = dispatcher
          \/ reader \in {"reading", "acked"} /\ reader' = "ending" /\ dispatcher' = dispatcher
          \/ reader = "ending" /\ reader' = "joinDispatcher" /\ dispatcher' = "loop"
          \/ reader = "ending" /\ reader' \in {"joinDispatcher", "joined"} /\ dispatcher' = dispatcher
          \/ reader = "joined" /\ reader' = "joinWorker" /\ dispatcher' = dispatcher
          \/ reader = "worked" /\ reader' = "done" /\ dispatcher' = dispatcher
      <4>1. CASE readEof \/ readerSend \/ readerRecvAck
        BY <4>1 DEF readEof, readerSend, readerRecvAck, pipeVars
      <4>2. CASE readerLoop
        BY <4>2 DEF readerLoop, pipeVars
      <4>3. CASE readerEnd \/ readerJoin \/ readerExit
        BY <4>3 DEF readerEnd, readerJoin, readerExit, pipeVars
      <4> QED
        BY <1>2, <2>2, <4>1, <4>2, <4>3, Zenon DEF ReaderStep
    <3> QED
      BY <3>1 DEF chunksClosed
  <2> QED
    BY <1>2, <2>1, <2>2 DEF chunksClosed
<1>3. CASE DispatcherStep
  <2>1. \/ reader = "sending" /\ reader' = "sent" /\ dispatcher' = "processing"
        \/ reader = "joinDispatcher" /\ reader' = "joined" /\ dispatcher' = "done"
        \/ reader = "acking" /\ reader' = "acked" /\ dispatcher' = "acked"
        \/ reader' = reader /\ dispatcher' = "ackSend" /\ dispatcher = "processing"
        \/ reader' = reader /\ dispatcher' # "done" /\ chunk' = chunk
        \/ reader' = reader /\ dispatcher' = "done" /\ chunk' = chunk /\ (chunksClosed \/ shared.should_exit)
    <3>1. CASE dispatcherLoop
      BY <3>1 DEF dispatcherLoop, dispatcherDone
    <3>2. CASE dispatcherRecv
      BY <3>2 DEF dispatcherRecv, dispatcherDone, pipeVars
    <3>3. CASE dispatcherAck
      BY <3>3 DEF dispatcherAck
    <3> QED
      BY <1>3, <3>1, <3>2, <3>3, Zenon DEF DispatcherStep
  <2> QED
    BY <2>1 DEF chunksClosed, Pairs
<1>4. CASE workerRecv
  <2>1. UNCHANGED <<dispatcher, chunk>> /\ (reader' = reader \/ (reader' = "worked" /\ closed))
    BY <1>4, Zenon DEF workerRecv, workerVars
  <2> QED
    BY <2>1 DEF chunksClosed
<1> QED
  BY <1>1, <1>2, <1>3, <1>4, PipeKept, Zenon

LEMMA ExitingTaken ==
    ASSUME Types, Pairs, Ends, Said, Exiting, process_message
    PROVE  Exiting'
<1> DEFINE m == Head(chunk)
<1>1. /\ dispatcher = "processing" /\ UNCHANGED <<reader, dispatcher, worker, job, snapshot>>
      /\ chunk # <<>> /\ ~shared.should_exit
  BY Zenon DEF process_message, localVars
<1>2. shared'.should_exit = (shared.should_exit \/ m.kind = "exit")
  BY ExitTaken, Zenon
<1>3. PICK h : /\ handled' = handled \cup {h} /\ h.kind = m.kind /\ h.amid \in BOOLEAN
               /\ h.amid = TRUE <=> worker = "analyzing" /\ gen = job /\ gen' = gen
  BY HandledTaken, Zenon
<1>4. ~Handled("exit") /\ snapshot.should_exit \in BOOLEAN
  BY PipeTaken, FlagTypes, Zenon DEF Said
<1>5. reader \notin {"reading", "read", "sending"} /\ dispatcher # "done"
  BY <1>1 DEF Pairs
<1>6. ~snapshot.should_exit
  BY PipeTaken, Zenon DEF Ends
<1>9. m.kind = "exit" => gen' = gen
  <2>1. ASSUME m.kind = "exit" PROVE gen' = gen
    <3>1. m.kind \in {"shutdown", "exit"}
      BY <2>1
    <3>2. EndOf(shared', shared, m)
      BY <3>1, Taken, Notified, Zenon
    <3>3. shared'.deadline = shared.deadline
      BY <3>2, Zenon DEF EndOf
    <3> QED
      BY <3>3, Zenon DEF process_message
  <2> QED
    BY <2>1, Zenon
<1> HIDE DEF m
<1>7. Handled("exit")' <=> m.kind = "exit"
  BY <1>3, <1>4, Zenon DEF Handled
<1>8. HandledAlone("exit")' => m.kind = "exit" /\ ~h.amid
  BY <1>3, <1>7, Zenon DEF HandledAlone
<1>10. HandledAlone("exit")' => shared'.should_exit = TRUE /\ ~(worker = "analyzing" /\ job = gen')
  <2>1. m.kind = "exit" => shared'.should_exit = TRUE
    BY <1>2
  <2> QED
    BY <1>3, <1>8, <1>9, <2>1, Zenon
<1>11. shared'.should_exit = TRUE => Handled("exit")'
  <2>1. shared'.should_exit = TRUE => m.kind = "exit"
    BY <1>1, <1>2
  <2> QED
    BY <1>7, <2>1, Zenon
<1> QED
  BY <1>1, <1>4, <1>5, <1>6, <1>10, <1>11, Zenon DEF Exiting

LEMMA ExitingNext ==
    ASSUME Types, Pairs, Closing, Ends, Said, Exiting, Next
    PROVE  Exiting'
<1>1. CASE process_message
  BY <1>1, ExitingTaken, Zenon
<1>2. CASE ~process_message
  <2>0. /\ shared.should_exit \in BOOLEAN /\ snapshot.should_exit \in BOOLEAN
        /\ gen' = gen /\ handled' = handled
    BY <1>2, FlagTypes, GenKept, HandledKept, Zenon
  <2>1. /\ Handled("exit")' <=> Handled("exit")
        /\ HandledAlone("exit")' <=> HandledAlone("exit")
    BY <2>0, Zenon DEF Handled, HandledAlone
  <2>m. /\ reader' \in {"reading", "read", "sending"} =>
                 \/ reader = reader'
                 \/ reader = "reading" /\ reader' = "read" /\ chunk' # <<>>
                 \/ reader = "read" /\ reader' = "sending" /\ chunk' = chunk
                 \/ reader' = "reading" /\ ~shared.should_exit
        /\ reader' = reader /\ reader \in {"read", "sending"} => chunk' = chunk
    BY <1>2, PairsMove, Zenon
  <2>x. /\ reader \in {"reading", "read", "sending"} => shared.should_exit = FALSE
        /\ reader \in {"read", "sending"} => chunk # <<>>
    BY Zenon DEF Exiting
  <2>2. reader' \in {"reading", "read", "sending"} => shared'.should_exit = FALSE
    <3>1. reader' \in {"reading", "read", "sending"} => shared.should_exit = FALSE
      BY <2>0, <2>m, <2>x
    <3> QED
      BY <1>2, <3>1, ExitKept, Zenon
  <2>3. reader' \in {"read", "sending"} => chunk' # <<>>
    BY <2>m, <2>x
  <2>4. dispatcher' = "done" => Handled("exit")' \/ chunksClosed'
    <3>1. shared.should_exit => shared.should_exit = TRUE
      BY <2>0
    <3> QED
      BY <1>2, <2>1, <3>1, PairsMove, Zenon DEF Exiting
  <2>5. shared'.should_exit = TRUE => Handled("exit")'
    <3>0. shared'.should_exit = shared.should_exit \/ shared'.should_exit = FALSE
      BY <1>2, ExitKept, Zenon
    <3>1. shared'.should_exit = TRUE => shared.should_exit = TRUE
      BY <3>0
    <3> QED
      BY <2>1, <3>1, Zenon DEF Exiting
  <2>6. worker' = "analyzing" /\ snapshot'.should_exit = TRUE => shared'.should_exit = TRUE
    BY <1>2, ExitKept, Zenon DEF Exiting
  <2>7. HandledAlone("exit")' =>
           /\ shared'.should_exit = TRUE
           /\ worker' = "analyzing" /\ job' = gen' => snapshot'.should_exit = TRUE
    BY <1>2, <2>0, <2>1, ExitKept, Zenon DEF Exiting
  <2> QED
    BY <2>2, <2>3, <2>4, <2>5, <2>6, <2>7, Zenon DEF Exiting
<1> QED
  BY <1>1, <1>2, Zenon

\* When no task can run, the reader waits for input or is done: nobody waits for
\* somebody who waits.
LEMMA NobodyWaits ==
    ASSUME Tasks, ready = <<>>, timers = {},
           reader \in {"read", "sending"} => dispatcher # "done"
    PROVE  reader \in {"reading", "done"}
<1>1. \A t : ~In(ready, t) /\ t \notin timers
  <2>1. DOMAIN <<>> = {}
    OBVIOUS
  <2> QED
    BY <2>1, Zenon DEF In
<1>2. /\ reader \notin ReaderAwake
      /\ dispatcher \notin {"processing", "acked"} /\ dispatcher # "loop"
      /\ worker \notin {"loop", "job"} /\ worker # "analyzing"
  BY <1>1, Zenon DEF Tasks, ReaderIn, DispatcherIn, WorkerIn
<1>3. Closing /\ Pairs
  BY Zenon DEF Tasks
<1> QED
  BY <1>2, <1>3 DEF Closing, Pairs, ReaderAwake

\* "an `exit` notification cannot leave the reader asleep on stdin"
\* (lsp.tw:51-52), and the reader, the dispatcher and the worker never all wait
\* for one another (chunks, chunk_acks, diagnostics and the two awaits of
\* lsp.tw:73-77): for any client, any yields of the analyses and any interleaving,
\* when no task can run and no timer is set the reader waits for input or is done,
\* and it does not wait for input once an exit was handled, unless amid a run whose
\* commit then undoes should_exit (lsp.tw:354).
THEOREM ExitReachesReaderHolds == Spec => []ExitReachesReader
<1> DEFINE Inv == Said /\ Exiting
<1>1. Init => Inv
  <2> SUFFICES ASSUME Init PROVE Inv
    OBVIOUS
  <2>1. /\ shared.should_exit = FALSE /\ snapshot.should_exit = FALSE /\ handled = {}
        /\ dispatcher = "loop" /\ reader = "reading" /\ worker = "loop"
    BY DEF Init, initial_state
  <2>2. ~Handled("exit") /\ ~HandledAlone("exit")
    BY <2>1 DEF Handled, HandledAlone
  <2> QED
    BY <2>1, <2>2 DEF Said, Exiting
<1>2. Types /\ Tasks /\ Ends /\ Inv /\ [Next]_vars => Inv'
  <2>1. ASSUME Inv, UNCHANGED vars PROVE Inv'
    <3>1. UNCHANGED <<shared, snapshot, reader, dispatcher, worker, handled, chunk, Pipe,
                      phase, job, gen>>
      BY <2>1, Zenon DEF vars, clientVars, localVars, Pipe
    <3>2. /\ Handled("exit")' <=> Handled("exit")
          /\ HandledAlone("exit")' <=> HandledAlone("exit")
          /\ chunksClosed' <=> chunksClosed
      BY <3>1, Zenon DEF Handled, HandledAlone, chunksClosed
    <3> QED
      BY <2>1, <3>1, <3>2, Zenon DEF Said, Exiting
  <2> QED
    BY <2>1, SaidNext, ExitingNext, Zenon DEF Tasks
<1>3. Types /\ Tasks /\ Inv => ExitReachesReader
  <2> SUFFICES ASSUME Types, Tasks, Inv, ready = <<>>, timers = {}
               PROVE  reader \in {"reading", "done"} /\ (HandledAlone("exit") => reader # "reading")
    BY Zenon DEF ExitReachesReader
  <2>1. reader \in {"read", "sending"} => dispatcher # "done"
    <3>1. ASSUME reader \in {"read", "sending"}, dispatcher = "done" PROVE FALSE
      <4>1. chunk # <<>> /\ Handled("exit")
        BY <3>1 DEF Exiting, chunksClosed
      <4>2. Pipe = <<>> => chunk = <<>>
        <5>1. chunk \in Seq(MessageType) /\ stdin \in Seq(MessageType)
          BY PipeType, Zenon
        <5> QED
          BY <5>1 DEF Pipe
      <4> QED
        BY <4>1, <4>2, Zenon DEF Said
    <3> QED
      BY <3>1, Zenon
  <2>2. reader \in {"reading", "done"}
    BY <2>1, NobodyWaits, Zenon
  <2>3. HandledAlone("exit") => reader # "reading"
    BY DEF Exiting
  <2> QED
    BY <2>2, <2>3, Zenon
<1> QED
  BY <1>1, <1>2, <1>3, TypesInvariant, TasksInvariant, EndsInvariant, PTL DEF Spec

-----------------------------------------------------------------------------
(* PendingIsScheduled.                                                     *)

\* Without didChange every run is a full one.
FullRuns ==
    /\ shared.tier = "Full"
    /\ \A i \in DOMAIN Pipe : Pipe[i].kind # "didChange"

LEMMA FullRunsNext ==
    ASSUME "didChange" \notin Kinds, Types, Pairs, Ends, Clean, FullRuns, Next
    PROVE  FullRuns'
<1>0. Pipe \in Seq(MessageType) /\ shared \in StateType /\ snapshot \in StateType
  BY PipeType, Zenon DEF Types, StateTypes
<1>1. CASE process_message
  <2> DEFINE m == Head(chunk)
  <2>1. Pipe # <<>> /\ Head(Pipe) = m /\ Pipe' = Tail(Pipe)
    BY <1>1, PipeTaken, Zenon
  <2>2. m.kind # "didChange" /\ \A i \in DOMAIN Pipe' : Pipe'[i].kind # "didChange"
    BY <1>0, <2>1, MovesAll, Zenon DEF FullRuns
  <2>3. /\ m \in MessageType
        /\ m.kind \in {"didOpen", "didChange"} => Opened(shared', shared, m)
        /\ m.kind = "didSave" => Saved(shared', shared)
        /\ m.kind = "didClose" => Closed(shared', shared, m)
        /\ m.kind \in {"shutdown", "exit"} => EndOf(shared', shared, m)
    BY <1>1, Taken, Notified, Zenon
  <2>4. m.kind \in {"didOpen", "didSave", "didClose", "shutdown", "exit"}
    BY <2>2, <2>3 DEF MessageType, EditType, TouchType, EndType
  <2> HIDE DEF m
  <2>5. shared'.tier = "Full" \/ shared'.tier = shared.tier
    BY <2>3, <2>4, Zenon DEF Opened, Saved, Closed, EndOf, Rearmed
  <2> QED
    BY <2>2, <2>5, Zenon DEF FullRuns
<1>2. shared'.tier = "Full" \/ process_message
  <2>1. CASE workerPublish
    <3>1. publish(snapshot) /\ snapshot.tier = "Full"
      BY <2>1, Zenon DEF workerPublish, Clean
    <3> QED
      BY <1>0, <3>1, Commit, Zenon DEF Published
  <2>2. CASE workerParse
    <3>1. publish(shared)
      BY <2>2, Zenon DEF workerParse
    <3> QED
      BY <1>0, <3>1, Commit, Zenon DEF Published, FullRuns
  <2>3. workerAnalyze => shared' = shared
    BY Zenon DEF workerAnalyze
  <2> QED
    BY <2>1, <2>2, <2>3, StateKept, Zenon DEF FullRuns
<1>3. CASE Pipe' = Pipe /\ ~process_message
  BY <1>2, <1>3, Zenon DEF FullRuns
<1>4. ASSUME NEW m, Spoken(m), ~process_message PROVE FullRuns'
  <2>1. m \in MessageType /\ m.kind # "didChange" /\ Pipe' = Append(Pipe, m)
    BY <1>4, Zenon DEF Spoken, Sent
  <2>a. \A i \in DOMAIN Pipe : Pipe[i].kind # "didChange"
    BY Zenon DEF FullRuns
  <2>b. \A i \in DOMAIN Append(Pipe, m) : Append(Pipe, m)[i].kind # "didChange"
    BY <1>0, <2>1, <2>a, MovesAll, Zenon
  <2>2. \A i \in DOMAIN Pipe' : Pipe'[i].kind # "didChange"
    BY <2>1, <2>b, Zenon
  <2> QED
    BY <1>2, <1>4, <2>2, Zenon DEF FullRuns
<1> QED
  BY <1>1, <1>3, <1>4, EndsEmpties, PipeMoves, SpeaksOne, Zenon

\* A full deadline has passed when the debounce starts: it never sleeps.
Prompt ==
    /\ \A g \in Gens : debounce[g] = "new" => g \in elapsed
    /\ \A t \in timers : t.task = "debounce" => t.gen \in elapsed

LEMMA PromptNext ==
    ASSUME Types, Dated, Elapsed, FullRuns', Prompt, Next
    PROVE  Prompt'
<1>1. ASSUME NEW g \in Gens, debounce'[g] = "new" PROVE g \in elapsed'
  <2>0. debounce \in [Gens -> {"absent", "new", "awake", "parked", "done"}]
    BY Zenon DEF Types, TaskTypes
  <2>1. CASE process_message
    <3>1. /\ shared'.tier = "Full"
          /\ \/ /\ debounce' = [debounce EXCEPT ![gen + 1] = "new"]
                /\ elapsed' = IF shared'.tier = "Full" THEN elapsed \cup {gen + 1} ELSE elapsed
             \/ debounce' = debounce /\ elapsed' = elapsed
      BY <2>1, Zenon DEF process_message, FullRuns
    <3>2. g = gen + 1 \/ debounce'[g] = debounce[g]
      BY <2>0, <3>1
    <3> QED
      BY <1>1, <3>1, <3>2, Zenon DEF Prompt
  <2>2. CASE debounceStart(g)
    <3>1. debounce[g] = "new"
      BY <2>2, Zenon DEF debounceStart
    <3> QED
      BY <3>1, ElapsedGrows, Zenon DEF Prompt
  <2> QED
    BY <1>1, <2>1, <2>2, DebounceKept, ElapsedGrows, Zenon DEF Prompt
<1>2. ASSUME NEW t \in timers', t.task = "debounce" PROVE t.gen \in elapsed'
  <2>1. ASSUME NEW g \in Gens, debounceStart(g), t = Debounce(g) PROVE t.gen \in elapsed
    <3>1. debounce[g] = "new" /\ t.gen = g
      BY <2>1, TaskFields, Zenon DEF debounceStart
    <3> QED
      BY <3>1, Zenon DEF Prompt
  <2>2. CASE t \in {Dispatcher, Worker}
    BY <1>2, <2>2, TaskFields, Zenon
  <2> QED
    BY <1>2, <2>1, <2>2, TimersKept, ElapsedGrows, Zenon DEF Prompt
<1> QED
  BY <1>1, <1>2, Zenon DEF Prompt

LEMMA SchedulingInvariant ==
    ASSUME ~EarlyWakes \/ "didChange" \notin Kinds
    PROVE  Spec => []Scheduling
<1> DEFINE Inv == Scheduling /\ ("didChange" \notin Kinds => FullRuns /\ Prompt)
<1>1. Init => Inv
  <2> SUFFICES ASSUME Init PROVE Inv
    OBVIOUS
  <2>1. Pipe = <<>> /\ DOMAIN <<>> = {}
    BY InitPipe
  <2>2. timers = {} /\ shared.tier = "Full" /\ \A g \in Gens : debounce[g] # "new"
    BY DEF Init, initial_state
  <2>3. FullRuns /\ Prompt
    BY <2>1, <2>2, Zenon DEF FullRuns, Prompt
  <2> QED
    BY <2>3, SchedulingInit, Zenon
<1>2. Types /\ Tasks /\ Clean /\ Ends /\ Inv /\ [Next]_vars => Inv'
  <2>1. Inv /\ UNCHANGED vars => Inv'
    <3> SUFFICES ASSUME Inv, UNCHANGED vars PROVE Inv'
      OBVIOUS
    <3>1. UNCHANGED <<Pipe, shared, debounce, timers, elapsed>>
      BY Zenon DEF vars, Pipe
    <3> QED
      BY <3>1, SchedulingStutter, Zenon DEF FullRuns, Prompt
  <2>2. ASSUME Types, Tasks, Clean, Ends, Inv, Next PROVE Inv'
    <3>1. Pairs /\ Dated /\ Elapsed
      BY <2>2, Zenon DEF Tasks, Scheduling
    <3>2. "didChange" \notin Kinds => FullRuns' /\ Prompt'
      BY <2>2, <3>1, FullRunsNext, PromptNext, Zenon
    <3>3. Punctual
      BY <2>2, Zenon DEF Punctual, Prompt
    <3> QED
      BY <2>2, <3>2, <3>3, SchedulingNext, Zenon
  <2> QED
    BY <2>1, <2>2, Zenon
<1> QED
  BY <1>1, <1>2, TypesInvariant, TasksInvariant, CleanInvariant, EndsInvariant, PTL DEF Spec

\* "the worker publishes once the client falls idle" (lsp.tw:253): for any
\* notifications, deadlines and interleavings, diagnostics that are pending have a
\* debounce task, a queued job or a run under way, so no job that the generation
\* checks drop (lsp.tw:285 and 295) was the last one.  A debounce that wakes in the
\* last millisecond before the deadline of an edit, to_int() of a fractional wait,
\* queues a job that is not due; the theorem is about the others, and about clients
\* that edit nothing.
THEOREM PendingIsScheduledHolds ==
    ASSUME ~EarlyWakes \/ "didChange" \notin Kinds
    PROVE  Spec => []PendingIsScheduled
<1>1. Scheduling => PendingIsScheduled
  BY Zenon DEF Scheduling
<1>2. Spec => []Scheduling
  BY SchedulingInvariant
<1> QED
  BY <1>1, <1>2, PTL

-----------------------------------------------------------------------------
(* ShownIsCurrent.                                                         *)

\* What one of the tiers finds in the document d.
Matches(r, d) ==
    /\ r.version = d.version
    /\ r.diags \in {found(tier, d.text) : tier \in {"Parse", "Full"}}

\* What is shown is what was published, and out of date only while diagnostics
\* are pending for it; a run in progress that will be committed began with the
\* documents as they are.
Shown ==
    /\ shared.last_published = shown
    /\ DOMAIN shown \subseteq DOMAIN shared.documents
    /\ \A u \in DOMAIN shown :
           \/ Matches(shown[u], shared.documents[u])
           \/ shared.pending = TRUE /\ u \in shared.parse_dirty
    /\ worker = "analyzing" => snapshot.last_published = shown /\ job <= gen
    /\ Committed

\* The documents of a parse run.
LEMMA DirtyFields ==
    ASSUME NEW s \in StateType, NEW m \in MessageType, m.kind # "didClose"
    PROVE  LET r == handle_notification(s, m)
           IN  /\ s.parse_dirty \subseteq r.parse_dirty
               /\ m.kind = "didChange" => m.uri \in r.parse_dirty
<1>0. m.kind \in {"didOpen", "didChange", "didSave", "shutdown", "exit"}
  BY DEF MessageType, EditType, TouchType, EndType
<1>1. CASE m.kind = "didOpen"
  BY <1>1 DEF StateType, handle_notification, handle_did_open, mark_diagnostics_pending
<1>2. CASE m.kind = "didChange"
  BY <1>2 DEF StateType, handle_notification, handle_did_change, mark_diagnostics_pending
<1>3. CASE m.kind = "didSave"
  BY <1>3 DEF StateType, handle_notification, handle_did_save, mark_diagnostics_pending
<1>4. CASE m.kind \in {"shutdown", "exit"}
  BY <1>4 DEF StateType, handle_notification
<1> QED
  BY <1>0, <1>1, <1>2, <1>3, <1>4

\* A run that covers what is out of date brings everything up to date.
LEMMA RunCovers ==
    ASSUME NEW s \in StateType, NEW f, s.last_published = f,
           DOMAIN f \subseteq DOMAIN s.documents,
           \A u \in DOMAIN f : u \in covered(s) \/ Matches(f[u], s.documents[u])
    PROVE  /\ DOMAIN Merged(f, s) \subseteq DOMAIN s.documents
           /\ \A u \in DOMAIN Merged(f, s) : Matches(Merged(f, s)[u], s.documents[u])
<1>1. /\ DOMAIN Merged(f, s) = DOMAIN f \cup news(s)
      /\ \A u \in DOMAIN f \cup news(s) :
             Merged(f, s)[u] = IF u \in news(s) THEN report(s, u) ELSE f[u]
  BY DEF Merged
<1>2. news(s) \subseteq DOMAIN s.documents
  BY ReportTypes
<1>3. \A u \in covered(s) : u \in DOMAIN f /\ u \notin news(s) => f[u] = report(s, u)
  BY Zenon DEF news
<1>4. \A u \in DOMAIN s.documents : Matches(report(s, u), s.documents[u])
  <2>1. s.tier \in {"Parse", "Full"}
    BY DEF StateType
  <2> QED
    BY <2>1 DEF Matches, report
<1>5. ASSUME NEW u \in DOMAIN f \cup news(s) PROVE Matches(Merged(f, s)[u], s.documents[u])
  <2>1. CASE u \in news(s)
    <3>1. Merged(f, s)[u] = report(s, u) /\ u \in DOMAIN s.documents
      BY <1>1, <1>2, <2>1, Zenon
    <3> QED
      BY <1>4, <3>1, Zenon
  <2>2. CASE u \notin news(s)
    <3>1. Merged(f, s)[u] = f[u] /\ u \in DOMAIN f /\ u \in DOMAIN s.documents
      BY <1>1, <2>2, Zenon
    <3> QED
      BY <1>3, <1>4, <2>2, <3>1, Zenon
  <2> QED
    BY <2>1, <2>2, Zenon
<1> QED
  BY <1>1, <1>2, <1>5, Zenon

\* A notification makes diagnostics pending for what it puts out of date.
LEMMA ShownTaken ==
    ASSUME Types, Types', Dated, Dated', Opening, Shown, process_message
    PROVE  Shown'
<1> DEFINE m == Head(chunk)
<1>0. gen \in Nat /\ job \in Nat
  <2>1. gen \in Nat /\ job \in 0..MaxMessages
    BY Zenon DEF Types, PipeTypes, TaskTypes
  <2> QED
    BY <2>1, LoopAssumption
<1>1. /\ m \in MessageType /\ gen + 1 \in Gens /\ shared \in StateType
      /\ shared' = handle_notification(shared, m)
      /\ m.kind \in {"didOpen", "didChange"} => Opened(shared', shared, m)
      /\ m.kind = "didSave" => Saved(shared', shared)
      /\ m.kind \in {"shutdown", "exit"} => EndOf(shared', shared, m)
  BY Taken, Notified, Zenon
<1>2. /\ m.kind # "didClose"
      /\ \A u \in Uris : m.kind = "didOpen" /\ m.uri = u => u \notin DOMAIN shared.documents
  <2>1. Pipe \in Seq(MessageType) /\ Pipe # <<>> /\ Head(Pipe) = m
    BY PipeType, PipeTaken, Zenon
  <2>2. 1 \in DOMAIN Pipe /\ Pipe[1] = m
    BY <2>1, TailEntries, Zenon
  <2> QED
    BY <2>2, Zenon DEF Opening, Open
<1>3. UNCHANGED <<shown, snapshot, worker, job>>
  BY <1>2, Zenon DEF process_message, localVars
<1>4. /\ shared.parse_dirty \subseteq shared'.parse_dirty
      /\ m.kind = "didChange" => m.uri \in shared'.parse_dirty
  BY <1>1, <1>2, DirtyFields, Zenon
<1>5. Effect(shared'.documents, shared.documents, m)
  BY ServerEffect, Zenon
<1>k. m.kind \in {"didOpen", "didChange"} \/ m.kind = "didSave" \/ m.kind \in {"shutdown", "exit"}
  BY <1>1, <1>2 DEF MessageType, EditType, TouchType, EndType
<1>n. "shutdown" \notin {"didOpen", "didChange", "didClose"} /\ "exit" \notin {"didOpen", "didChange", "didClose"}
  OBVIOUS
<1> HIDE DEF m
<1>6. shared'.last_published = shared.last_published
  BY <1>1, <1>k, Zenon DEF Opened, Saved, EndOf, SameEnd
<1>7. \/ shared'.pending = TRUE /\ shared'.deadline = gen + 1
      \/ /\ shared'.pending = shared.pending /\ shared'.deadline = shared.deadline
         /\ shared'.documents = shared.documents
  BY <1>1, <1>k, Zenon DEF Opened, Saved, EndOf, Rearmed
<1>8. \/ shared'.pending = TRUE /\ gen' = gen + 1
      \/ shared'.pending = shared.pending /\ gen' = gen /\ shared'.documents = shared.documents
  BY <1>7, Zenon DEF Dated
<1>9. \A u \in DOMAIN shown : u \in Uris /\ u \in DOMAIN shared.documents
  <2>1. shown \in Partial(ReportType)
    BY PartialNames, Zenon DEF Types, StateTypes
  <2> QED
    BY <2>1, PartialDomain, Zenon DEF Shown
<1>10. DOMAIN shown' \subseteq DOMAIN shared'.documents
  <2> SUFFICES ASSUME NEW u \in DOMAIN shown PROVE u \in DOMAIN shared'.documents
    BY <1>3, Zenon
  <2> QED
    BY <1>2, <1>5, <1>9, Zenon DEF Effect, EffectOn, Same, Left
<1>11. ASSUME NEW u \in DOMAIN shown
       PROVE  \/ Matches(shown[u], shared'.documents[u])
              \/ shared'.pending = TRUE /\ u \in shared'.parse_dirty
  <2>1. CASE Touch(m, u)
    <3>1. m.kind = "didOpen" \/ m.kind = "didChange"
      BY <1>2, <2>1, Zenon DEF Touch
    <3>2. m.uri = u /\ m.kind # "didOpen"
      BY <1>2, <1>9, <2>1, Zenon DEF Touch
    <3>3. m.kind = "didChange" /\ m.kind \in {"didOpen", "didChange"}
      BY <3>1, <3>2
    <3>4. shared'.pending = TRUE
      BY <1>1, <3>3, Zenon DEF Opened, Rearmed
    <3> QED
      BY <1>4, <3>2, <3>3, <3>4, Zenon
  <2>2. CASE ~Touch(m, u)
    <3>1. u \in DOMAIN shared.documents /\ shared'.documents[u] = shared.documents[u]
      BY <1>5, <1>9, <1>10, <1>3, <2>2, Zenon DEF Effect, EffectOn, Same
    <3>2. shared.pending = TRUE => shared'.pending = TRUE
      BY <1>8, Zenon
    <3>3. u \in shared.parse_dirty => u \in shared'.parse_dirty
      BY <1>4
    <3>4. \/ Matches(shown[u], shared.documents[u])
          \/ shared.pending = TRUE /\ u \in shared.parse_dirty
      BY Zenon DEF Shown
    <3> QED
      BY <3>1, <3>2, <3>3, <3>4, Zenon
  <2> QED
    BY <2>1, <2>2, Zenon
<1>12. ASSUME worker' = "analyzing"
       PROVE  /\ snapshot'.last_published = shown' /\ job' <= gen'
              /\ job' = gen' => snapshot'.documents = shared'.documents
  <2>1. /\ snapshot.last_published = shown /\ job <= gen
        /\ job = gen => snapshot.documents = shared.documents
    BY <1>3, <1>12, Zenon DEF Shown, Committed
  <2>2. CASE gen' = gen + 1
    <3>1. job <= gen + 1 /\ job # gen + 1
      BY <1>0, <2>1
    <3> QED
      BY <1>3, <2>1, <2>2, <3>1, Zenon
  <2>3. CASE gen' = gen /\ shared'.documents = shared.documents
    BY <1>3, <2>1, <2>3, Zenon
  <2> QED
    BY <1>8, <2>2, <2>3, Zenon
<1>13. \A u \in DOMAIN shown' :
          \/ Matches(shown'[u], shared'.documents[u])
          \/ shared'.pending = TRUE /\ u \in shared'.parse_dirty
  BY <1>3, <1>11, Zenon
<1>14. shared'.last_published = shown'
  BY <1>3, <1>6, Zenon DEF Shown
<1> QED
  BY <1>10, <1>12, <1>13, <1>14, Zenon DEF Shown, Committed

LEMMA ShownNext ==
    ASSUME Types, Types', Dated, Dated', Clean, Opening, Shown, Next
    PROVE  Shown'
<1>0. /\ shared \in StateType /\ snapshot \in StateType /\ "loop" # "analyzing"
  BY Zenon DEF Types, StateTypes
<1>1. CASE process_message
  BY <1>1, ShownTaken, Zenon
<1>2. ASSUME NEW s \in StateType, publish(s), worker' = "loop", s.last_published = shown,
             DOMAIN shown \subseteq DOMAIN s.documents,
             \A u \in DOMAIN shown : u \in covered(s) \/ Matches(shown[u], s.documents[u])
      PROVE  Shown'
  <2>1. Published(shared', s) /\ shown' = Merged(shown, s)
    BY <1>2, Commit, Zenon
  <2>2. /\ shared'.documents = s.documents
        /\ shared'.last_published = shown'
    BY <1>2, <2>1, Zenon DEF Published
  <2>3. /\ DOMAIN shown' \subseteq DOMAIN shared'.documents
        /\ \A u \in DOMAIN shown' : Matches(shown'[u], shared'.documents[u])
    BY <1>2, <2>1, <2>2, RunCovers, Zenon
  <2> QED
    BY <1>0, <1>2, <2>2, <2>3, Zenon DEF Shown, Committed
<1>3. CASE workerParse
  <2>1. publish(shared) /\ worker' = "loop" /\ shared.tier = "Parse"
    BY <1>3, Zenon DEF workerParse, jobDone
  <2>2. covered(shared) = DOMAIN shared.documents \cap shared.parse_dirty
    BY <2>1 DEF covered
  <2>3. /\ DOMAIN shown \subseteq DOMAIN shared.documents /\ shared.last_published = shown
        /\ \A u \in DOMAIN shown : u \in covered(shared) \/ Matches(shown[u], shared.documents[u])
    BY <2>2, Zenon DEF Shown
  <2> QED
    BY <1>0, <1>2, <2>1, <2>3, Zenon
<1>4. CASE workerPublish
  <2>1. publish(snapshot) /\ worker' = "loop" /\ worker = "analyzing" /\ job = gen
    BY <1>4, Zenon DEF workerPublish, jobDone
  <2>2. snapshot.tier = "Full" /\ snapshot.documents = shared.documents /\ snapshot.last_published = shown
    BY <2>1, Zenon DEF Clean, Shown, Committed
  <2>3. DOMAIN snapshot.documents \subseteq Uris
    BY <1>0, ReportTypes, Zenon
  <2>4. covered(snapshot) = DOMAIN snapshot.documents
    BY <2>2, <2>3 DEF covered
  <2>5. /\ DOMAIN shown \subseteq DOMAIN snapshot.documents
        /\ \A u \in DOMAIN shown : u \in covered(snapshot)
    BY <2>2, <2>4, Zenon DEF Shown
  <2> QED
    BY <1>0, <1>2, <2>1, <2>2, <2>5, Zenon
<1>5. CASE workerAnalyze
  <2>1. /\ UNCHANGED <<shared, shown, job, gen>> /\ snapshot' = shared /\ gen = job
    BY <1>5, Zenon DEF workerAnalyze, workerVars
  <2>2. job <= gen
    <3>1. gen \in Nat
      BY Zenon DEF Types, PipeTypes
    <3> QED
      BY <2>1, <3>1
  <2> QED
    BY <2>1, <2>2, Zenon DEF Shown, Committed
<1>6. CASE ~process_message /\ UNCHANGED <<shared, snapshot, shown, analyzed>> /\ ~workerAnalyze
  <2>1. gen' = gen
    BY <1>6, GenKept, Zenon
  <2>2. worker' = "analyzing" => worker = "analyzing" /\ job' = job
    BY <1>6, AnalyzingKept, Zenon
  <2> QED
    BY <1>6, <2>1, <2>2, Zenon DEF Shown, Committed
<1> QED
  BY <1>1, <1>3, <1>4, <1>5, <1>6, StateKept, Zenon

Screen == Opening /\ Shown

LEMMA ScreenInvariant ==
    ASSUME ~EarlyWakes \/ "didChange" \notin Kinds, "didClose" \notin Kinds
    PROVE  Spec => []Screen
<1>1. Init => Screen
  <2> SUFFICES ASSUME Init PROVE Screen
    OBVIOUS
  <2>1. Pipe = <<>> /\ DOMAIN <<>> = {}
    BY InitPipe
  <2>2. DOMAIN shared.documents = {} /\ DOMAIN shown = {}
    BY NothingType DEF Init, initial_state
  <2>3. Opening
    BY <2>1, <2>2, Zenon DEF Opening, Open
  <2>4. worker # "analyzing" /\ shared.last_published = shown
    BY DEF Init, initial_state
  <2>5. Shown
    BY <2>2, <2>4, Zenon DEF Shown, Committed
  <2> QED
    BY <2>3, <2>5, Zenon DEF Screen
<1>2. /\ Types /\ Types' /\ Tasks /\ Scheduling /\ Scheduling' /\ Clean /\ Ends /\ Screen
      /\ [Next]_vars
      => Screen'
  <2>1. Screen /\ UNCHANGED vars => Screen'
    <3> SUFFICES ASSUME Screen, UNCHANGED vars PROVE Screen'
      OBVIOUS
    <3>1. UNCHANGED <<Pipe, client, shared, shown, snapshot, worker, job, gen>>
      BY Zenon DEF vars, clientVars, localVars, Pipe
    <3> QED
      BY <3>1, Zenon DEF Screen, Opening, Shown, Committed
  <2>2. ASSUME Types, Types', Tasks, Scheduling, Scheduling', Clean, Ends, Screen, Next PROVE Screen'
    <3>1. Pairs /\ Dated /\ Dated' /\ Committed
      BY <2>2, Zenon DEF Screen, Tasks, Scheduling, Shown
    <3>3. Opening'
      BY <2>2, <3>1, OpeningNext, Zenon DEF Screen
    <3>4. Shown'
      BY <2>2, <3>1, ShownNext, Zenon DEF Screen
    <3> QED
      BY <3>3, <3>4, Zenon DEF Screen
  <2> QED
    BY <2>1, <2>2, Zenon
<1>s. Spec => []Scheduling
  BY SchedulingInvariant
<1> QED
  BY <1>1, <1>2, <1>s, TypesInvariant, TasksInvariant, CleanInvariant, EndsInvariant,
     PTL DEF Spec

\* "no stale squiggle is left at a wrong position on changed text"
\* (docs/plans/archive/lsp-save-vs-edit-gating.md:36-37): for any edits and saves of
\* any documents, any texts and any interleaving of the analysis with them, when the
\* server is idle what the client shows for an open document is what one of the
\* tiers finds in its current version.  The theorem is about clients that close no
\* document: last_published outlives a document that is closed
\* (server_core.tw:1193) and suppresses its diagnostics when it is opened again at
\* the same version.  And either no debounce wakes before its deadline or
\* nothing is edited, as in PendingIsScheduledHolds.
THEOREM ShownIsCurrentHolds ==
    ASSUME ~EarlyWakes \/ "didChange" \notin Kinds, "didClose" \notin Kinds
    PROVE  Spec => []ShownIsCurrent
<1>1. Types /\ Tasks /\ Scheduling /\ Settling /\ Restored /\ Flows /\ Screen => ShownIsCurrent
  <2> SUFFICES ASSUME Types, Tasks, Scheduling, Settling, Flows, Screen, Idle,
                      NEW u \in DOMAIN client \cap DOMAIN shown
               PROVE  /\ shown[u].version = client[u].version
                      /\ shown[u].diags \in {found(tier, client[u].text) : tier \in {"Parse", "Full"}}
    BY Zenon DEF ShownIsCurrent
  <2>1. ~shared.pending /\ Pipe = <<>> /\ DOMAIN <<>> = {}
    BY IdleIsSettled DEF Scheduling, Settling
  <2>2. u \in Uris
    <3>1. client \in Partial(DocType)
      BY PartialNames, Zenon DEF Types, PipeTypes
    <3> QED
      BY <3>1, PartialDomain, Zenon
  <2>3. Same(client, shared.documents, u)
    BY <2>1, <2>2, Zenon DEF Flows, Flow, FlowOf
  <2>4. client[u] = shared.documents[u]
    BY <2>3, Zenon DEF Same
  <2>5. Matches(shown[u], shared.documents[u])
    BY <2>1, Zenon DEF Screen, Shown
  <2> QED
    BY <2>4, <2>5, Zenon DEF Matches
<1>s. /\ Spec => []Scheduling
      /\ Spec => []Screen
  BY SchedulingInvariant, ScreenInvariant
<1> QED
  BY <1>1, <1>s, TypesInvariant, TasksInvariant, SettlingInvariant, FlowsInvariant, PTL

-----------------------------------------------------------------------------
(* ShownIsOpen.                                                            *)

\* An edit has a version of its own.
Versions ==
    /\ \A i \in DOMAIN Pipe : Pipe[i].kind = "didChange" => Pipe[i].version > 1
    /\ \A u \in DOMAIN client : client[u].version >= 1

LEMMA VersionsNext ==
    ASSUME Types, Pairs, Ends, Versions, Next
    PROVE  Versions'
<1>0. Pipe \in Seq(MessageType)
  BY PipeType, Zenon
<1>1. CASE process_message
  <2>1. Pipe # <<>> /\ Pipe' = Tail(Pipe) /\ client' = client
    BY <1>1, PipeTaken, Zenon
  <2>2. \A i \in DOMAIN Tail(Pipe) : i + 1 \in DOMAIN Pipe /\ Tail(Pipe)[i] = Pipe[i + 1]
    BY <1>0, <2>1, TailEntries, Zenon
  <2> QED
    BY <2>1, <2>2, Zenon DEF Versions
<1>2. ASSUME Pipe' = Pipe, client' = client PROVE Versions'
  BY <1>2, Zenon DEF Versions
<1>3. ASSUME NEW m, Spoken(m) PROVE Versions'
  <2>1. m \in MessageType /\ Pipe' = Append(Pipe, m)
    BY <1>3, Zenon DEF Spoken, Sent
  <2>2. /\ m.kind = "didOpen" => m.version = 1 /\ client' = Put(client, m.uri, DocOf(m))
        /\ m.kind = "didChange" =>
               /\ m.uri \in DOMAIN client /\ m.version = client[m.uri].version + 1
               /\ client' = Put(client, m.uri, DocOf(m))
        /\ m.kind = "didClose" => client' = Drop(client, m.uri)
        /\ m.kind \in {"didOpen", "didChange", "didClose"} \/ client' = client
    BY <1>3 DEF Spoken
  <2>3. \A u \in DOMAIN client : client[u].version \in Nat
    <3>1. client \in Partial(DocType)
      BY PartialNames, Zenon DEF Types, PipeTypes
    <3>2. \A u \in DOMAIN client : client[u] \in DocType
      BY <3>1, PartialDomain, Zenon
    <3> QED
      BY <3>2 DEF DocType
  <2>4. m.kind = "didChange" => m.version > 1
    BY <2>2, <2>3 DEF Versions
  <2>5. \A i \in DOMAIN Append(Pipe, m) :
            Append(Pipe, m)[i] = m \/ (i \in DOMAIN Pipe /\ Append(Pipe, m)[i] = Pipe[i])
    BY <1>0
  <2>6. m.kind \in {"didOpen", "didChange"} => DocOf(m).version >= 1
    <3>1. m.kind \in {"didOpen", "didChange"} => m.version \in Nat
      BY <2>1 DEF MessageType, EditType, TouchType, EndType
    <3>2. m.kind \in {"didOpen", "didChange"} => m.version >= 1
      BY <2>2, <2>4, <3>1
    <3>3. DocOf(m).version = m.version
      BY DEF DocOf
    <3> QED
      BY <3>2, <3>3, Zenon
  <2>7. \A u \in DOMAIN client' : client'[u].version >= 1
    <3>1. CASE m.kind \in {"didOpen", "didChange"}
      <4>1. client' = Put(client, m.uri, DocOf(m))
        BY <2>2, <3>1
      <4>2. \A u \in DOMAIN client' : \/ u \in DOMAIN client /\ client'[u] = client[u]
                                      \/ client'[u] = DocOf(m)
        BY <4>1 DEF Put
      <4> QED
        BY <2>6, <3>1, <4>2, Zenon DEF Versions
    <3>2. CASE m.kind = "didClose"
      <4>1. \A u \in DOMAIN client' : u \in DOMAIN client /\ client'[u] = client[u]
        BY <2>2, <3>2 DEF Drop, Restrict
      <4> QED
        BY <4>1, Zenon DEF Versions
    <3>3. CASE client' = client
      BY <3>3, Zenon DEF Versions
    <3> QED
      BY <2>2, <3>1, <3>2, <3>3
  <2> QED
    BY <2>1, <2>4, <2>5, <2>7, Zenon DEF Versions
<1> QED
  BY <1>1, <1>2, <1>3, EndsEmpties, PipeMoves, SpeaksOne, Zenon

\* What a full run reports of the document d.
FullReport(d) == [version |-> d.version, diags |-> found("Full", d.text)]

\* A clean workspace has been published as a full run finds it, and a parse run of
\* it has nothing to cover.
Workspace ==
    /\ shared.full_dirty = FALSE => \A u \in DOMAIN shared.documents :
           /\ u \in DOMAIN shared.last_published
           /\ shared.last_published[u] = FullReport(shared.documents[u])
    /\ shared.full_dirty = FALSE /\ shared.tier = "Parse" => DOMAIN shared.documents = {}

LEMMA WorkspaceTaken ==
    ASSUME Types, Workspace, process_message
    PROVE  Workspace'
<1> DEFINE m == Head(chunk)
<1>1. /\ m \in MessageType
      /\ m.kind \in {"didOpen", "didChange"} => Opened(shared', shared, m)
      /\ m.kind = "didSave" => Saved(shared', shared)
      /\ m.kind = "didClose" => Closed(shared', shared, m)
      /\ m.kind \in {"shutdown", "exit"} => EndOf(shared', shared, m)
  BY Taken, Notified, Zenon
<1>k. m.kind \in {"didOpen", "didChange"} \/ m.kind = "didSave" \/ m.kind \in {"shutdown", "exit"} \/ m.kind = "didClose"
  BY <1>1 DEF MessageType, EditType, TouchType, EndType
<1>n. TRUE # FALSE /\ "Full" # "Parse"
  OBVIOUS
<1> HIDE DEF m
<1>2. CASE m.kind \in {"didOpen", "didChange"}
  BY <1>1, <1>2, <1>n, Zenon DEF Opened, Workspace
<1>3. CASE m.kind = "didSave"
  BY <1>1, <1>3, <1>n, Zenon DEF Saved, SameEnd, Rearmed, Workspace
<1>4. CASE m.kind \in {"shutdown", "exit"}
  BY <1>1, <1>4, Zenon DEF EndOf, Workspace
<1>5. CASE m.kind = "didClose"
  <2>1. Closed(shared', shared, m)
    BY <1>1, <1>5, Zenon
  <2>2. /\ DOMAIN shared'.documents = DOMAIN shared.documents \ {m.uri}
        /\ \A u \in DOMAIN shared'.documents : shared'.documents[u] = shared.documents[u]
    <3>1. shared'.documents = Drop(shared.documents, m.uri)
      BY <2>1, Zenon DEF Closed
    <3> QED
      BY <3>1 DEF Drop, Restrict
  <2>3. CASE DOMAIN shared'.documents = {}
    BY <2>3, Zenon DEF Workspace
  <2>4. CASE DOMAIN shared'.documents # {}
    <3>1. /\ shared'.full_dirty = shared.full_dirty /\ shared'.tier = "Full"
          /\ shared'.last_published = shared.last_published
      BY <2>1, <2>4, Zenon DEF Closed, SameEnd, Rearmed
    <3> QED
      BY <1>n, <2>2, <3>1, Zenon DEF Workspace
  <2> QED
    BY <2>3, <2>4, Zenon
<1> QED
  BY <1>k, <1>2, <1>3, <1>4, <1>5, Zenon

LEMMA WorkspaceNext ==
    ASSUME Types, Clean, Workspace, Next
    PROVE  Workspace'
<1>0. shared \in StateType /\ snapshot \in StateType /\ "Full" # "Parse"
  BY Zenon DEF Types, StateTypes
<1>1. CASE process_message
  BY <1>1, WorkspaceTaken, Zenon
<1>2. CASE workerParse
  <2>1. publish(shared) /\ shared.tier = "Parse"
    BY <1>2, Zenon DEF workerParse
  <2>2. /\ shared'.documents = shared.documents
        /\ shared'.full_dirty = (shared.full_dirty /\ shared.tier = "Parse")
    BY <1>0, <2>1, Commit, Zenon DEF Published
  <2>3. shared'.full_dirty = FALSE => shared.full_dirty = FALSE
    <3>1. shared.full_dirty \in BOOLEAN
      BY <1>0 DEF StateType
    <3> QED
      BY <2>1, <2>2, <3>1
  <2> QED
    BY <2>1, <2>2, <2>3, Zenon DEF Workspace
<1>3. CASE workerPublish
  <2>1. publish(snapshot) /\ snapshot.tier = "Full"
    BY <1>3, Zenon DEF workerPublish, Clean
  <2> DEFINE s == snapshot
             f == snapshot.last_published
  <2>2. /\ shared'.documents = s.documents /\ shared'.tier = "Full"
        /\ shared'.last_published = Merged(f, s)
    BY <1>0, <2>1, Commit, Zenon DEF Published
  <2>3. \A u \in DOMAIN s.documents : u \in covered(s) /\ report(s, u) = FullReport(s.documents[u])
    <3>1. DOMAIN s.documents \subseteq Uris
      BY <1>0, ReportTypes, Zenon
    <3> QED
      BY <2>1, <3>1 DEF covered, report, FullReport
  <2> HIDE DEF s, f
  <2>4. /\ DOMAIN Merged(f, s) = DOMAIN f \cup news(s)
        /\ \A u \in DOMAIN f \cup news(s) :
               Merged(f, s)[u] = IF u \in news(s) THEN report(s, u) ELSE f[u]
    BY DEF Merged
  <2>5. \A u \in covered(s) : u \notin news(s) => u \in DOMAIN f /\ f[u] = report(s, u)
    BY Zenon DEF news, s, f
  <2>6. \A u \in DOMAIN s.documents :
            u \in DOMAIN Merged(f, s) /\ Merged(f, s)[u] = FullReport(s.documents[u])
    BY <2>3, <2>4, <2>5, Zenon
  <2> QED
    BY <1>0, <2>2, <2>6, Zenon DEF Workspace
<1>4. workerAnalyze => shared' = shared
  BY Zenon DEF workerAnalyze
<1>5. CASE shared' = shared
  BY <1>5, Zenon DEF Workspace
<1> QED
  BY <1>1, <1>2, <1>3, <1>4, <1>5, StateKept, Zenon

\* A workspace is dirty until a full run that is pending, or because of an edit of
\* a document that is open: no commit may have brought that one back.
Edited ==
    shared.full_dirty = TRUE =>
        \/ shared.pending = TRUE /\ shared.tier = "Full"
        \/ \E u \in Uris : /\ u \in DOMAIN shared.documents /\ shared.documents[u].version > 1
                           /\ FlowOf(Pipe, client, shared.documents, {}, u)

LEMMA EditedTaken ==
    ASSUME Types, Versions, Flows, Edited, process_message
    PROVE  Edited'
<1> DEFINE m == Head(chunk)
           d == shared.documents
<1>0. Pipe \in Seq(MessageType)
  BY PipeType, Zenon
<1>1. /\ m \in MessageType
      /\ m.kind \in {"didOpen", "didChange"} => Opened(shared', shared, m)
      /\ m.kind = "didSave" => Saved(shared', shared)
      /\ m.kind = "didClose" => Closed(shared', shared, m)
      /\ m.kind \in {"shutdown", "exit"} => EndOf(shared', shared, m)
  BY Taken, Notified, Zenon
<1>2. Pipe # <<>> /\ Head(Pipe) = m /\ Pipe' = Tail(Pipe) /\ client' = client
  BY PipeTaken, Zenon
<1>3. Effect(d', d, Head(Pipe))
  BY <1>2, ServerEffect, Zenon
<1>k. \/ m.kind = "didOpen" \/ m.kind = "didSave" \/ m.kind = "didClose" \/ m.kind = "didChange"
      \/ m.kind \in {"shutdown", "exit"}
  BY <1>1 DEF MessageType, EditType, TouchType, EndType
<1>n. /\ TRUE # FALSE /\ "didOpen" \in {"didOpen", "didChange"} /\ "didChange" \in {"didOpen", "didChange"}
      /\ "didChange" # "didOpen" /\ "didChange" \in {"didOpen", "didChange", "didClose"}
      /\ "shutdown" \notin {"didOpen", "didChange", "didClose"}
      /\ "exit" \notin {"didOpen", "didChange", "didClose"}
  OBVIOUS
<1> HIDE DEF m
<1>4. CASE m.kind = "didOpen" \/ m.kind = "didSave"
  <2>1. shared'.pending = TRUE /\ shared'.tier = "Full"
    BY <1>1, <1>4, <1>n, Zenon DEF Opened, Saved, Rearmed
  <2> QED
    BY <2>1, Zenon DEF Edited
<1>5. CASE m.kind = "didClose"
  <2>1. shared'.full_dirty = FALSE \/ (shared'.pending = TRUE /\ shared'.tier = "Full")
    BY <1>1, <1>5, Zenon DEF Closed, Rearmed
  <2> QED
    BY <1>n, <2>1, Zenon DEF Edited
<1>6. CASE m.kind = "didChange"
  <2>1. d' = Put(d, m.uri, DocOf(m))
    BY <1>1, <1>6, <1>n, Zenon DEF Opened
  <2>2. m.uri \in DOMAIN d' /\ d'[m.uri] = DocOf(m)
    BY <2>1 DEF Put
  <2>3. DocOf(m).version > 1
    <3>1. 1 \in DOMAIN Pipe /\ Head(Pipe) = Pipe[1]
      BY <1>0, <1>2
    <3>2. m.version > 1
      BY <1>2, <1>6, <3>1, Zenon DEF Versions
    <3>3. DocOf(m).version = m.version
      BY DEF DocOf
    <3> QED
      BY <3>2, <3>3, Zenon
  <2>4. m.uri \in Uris
    BY <1>1, <1>6 DEF MessageType, EditType, TouchType, EndType
  <2>5. Touch(Head(Pipe), m.uri)
    BY <1>2, <1>6, <1>n, Zenon DEF Touch
  <2>6. FlowOf(Pipe, client, d, ClosedAmid, m.uri) /\ EffectOn(d', d, Head(Pipe), m.uri)
    BY <1>3, <2>4, Zenon DEF Flows, Flow, Effect
  <2> HIDE DEF d
  <2>7. FlowOf(Tail(Pipe), client, d', {}, m.uri)
    BY <1>0, <1>2, <2>5, <2>6, FlowTail, Zenon
  <2>8. FlowOf(Pipe', client', d', {}, m.uri)
    BY <1>2, <2>7, Zenon
  <2> QED
    BY <2>2, <2>3, <2>4, <2>8, Zenon DEF Edited, d
<1>7. CASE m.kind \in {"shutdown", "exit"}
  <2>1. /\ d' = d /\ shared'.full_dirty = shared.full_dirty
        /\ shared'.pending = shared.pending /\ shared'.tier = shared.tier
    BY <1>1, <1>7, Zenon DEF EndOf
  <2>2. ASSUME NEW u \in Uris, FlowOf(Pipe, client, d, {}, u)
        PROVE  FlowOf(Pipe', client', d', {}, u)
    <3>1. EffectOn(d', d, Head(Pipe), u)
      BY <1>3, Zenon DEF Effect
    <3> HIDE DEF d
    <3>2. FlowOf(Tail(Pipe), client, d', {}, u)
      BY <1>0, <1>2, <2>2, <3>1, FlowTail, Zenon
    <3> QED
      BY <1>2, <3>2, Zenon
  <2> QED
    BY <2>1, <2>2, Zenon DEF Edited
<1> QED
  BY <1>k, <1>4, <1>5, <1>6, <1>7, Zenon

LEMMA EditedNext ==
    ASSUME Types, Pairs, Ends, Clean, Versions, Flows, Edited, Next
    PROVE  Edited'
<1>0. /\ shared \in StateType /\ snapshot \in StateType /\ "Full" # "Parse"
      /\ Pipe \in Seq(MessageType)
  BY PipeType, Zenon DEF Types, StateTypes
<1>1. CASE process_message
  BY <1>1, EditedTaken, Zenon
<1>2. CASE workerParse
  <2>1. publish(shared) /\ shared.tier = "Parse" /\ UNCHANGED <<chunk, stdin, client>>
    BY <1>2, Zenon DEF workerParse, workerVars, clientVars
  <2>2. /\ shared'.documents = shared.documents
        /\ shared'.full_dirty = (shared.full_dirty /\ shared.tier = "Parse")
    BY <1>0, <2>1, Commit, Zenon DEF Published
  <2>3. shared'.full_dirty = TRUE => shared.full_dirty = TRUE
    <3>1. shared.full_dirty \in BOOLEAN
      BY <1>0 DEF StateType
    <3> QED
      BY <2>2, <3>1
  <2> QED
    BY <1>0, <2>1, <2>2, <2>3, Zenon DEF Edited, Pipe
<1>3. CASE workerPublish
  <2>1. publish(snapshot) /\ snapshot.tier = "Full"
    BY <1>3, Zenon DEF workerPublish, Clean
  <2>2. shared'.full_dirty = (snapshot.full_dirty /\ snapshot.tier = "Parse")
    BY <1>0, <2>1, Commit, Zenon DEF Published
  <2>3. shared'.full_dirty # TRUE
    BY <2>1, <2>2
  <2> QED
    BY <2>3, Zenon DEF Edited
<1>4. workerAnalyze => shared' = shared
  BY Zenon DEF workerAnalyze
<1>5. CASE shared' = shared /\ Pipe' = Pipe /\ client' = client
  BY <1>5, Zenon DEF Edited
<1>6. ASSUME NEW m, Spoken(m), shared' = shared PROVE Edited'
  <2>1. m \in MessageType /\ Pipe' = Append(Pipe, m)
    BY <1>6, Zenon DEF Spoken, Sent
  <2>2. ASSUME NEW u \in Uris, FlowOf(Pipe, client, shared.documents, {}, u)
        PROVE  FlowOf(Pipe', client', shared.documents, {}, u)
    <3>1. EffectOn(client', client, m, u)
      BY <1>6, ClientEffect, Zenon DEF Effect
    <3>2. FlowOf(Append(Pipe, m), client', shared.documents, {}, u)
      BY <1>0, <2>1, <2>2, <3>1, FlowAppend, Zenon
    <3> QED
      BY <2>1, <3>2, Zenon
  <2> QED
    BY <1>6, <2>2, Zenon DEF Edited
<1> QED
  BY <1>1, <1>2, <1>3, <1>4, <1>5, <1>6, StateKept, EndsEmpties, PipeMoves, SpeaksOne, Zenon

\* What is published is shown, until its document is closed; and what is shown of a
\* closed one is that it is fine, unless it was closed amid a run.
Remembered ==
    /\ worker = "analyzing" => snapshot.last_published = shared.last_published
    /\ DOMAIN shared.last_published \subseteq DOMAIN shown
    /\ \A u \in DOMAIN shared.last_published :
           ~Applied("didClose", u, BOOLEAN) => shown[u] = shared.last_published[u]
    /\ \A u \in DOMAIN shown : u \notin DOMAIN shared.documents =>
           shown[u].diags = "fine" \/ Applied("didClose", u, {TRUE})

LEMMA RememberedTaken ==
    ASSUME Types, Remembered, Next, process_message
    PROVE  Remembered'
<1> DEFINE m == Head(chunk)
<1>1. /\ m \in MessageType
      /\ m.kind \in {"didOpen", "didChange"} => Opened(shared', shared, m)
      /\ m.kind = "didSave" => Saved(shared', shared)
      /\ m.kind = "didClose" => Closed(shared', shared, m)
      /\ m.kind \in {"shutdown", "exit"} => EndOf(shared', shared, m)
  BY Taken, Notified, Zenon
<1>2. /\ m.kind = "didClose" => shown' = Put(shown, m.uri, cleared(shared, m.uri))
      /\ m.kind # "didClose" => shown' = shown
      /\ UNCHANGED <<worker, snapshot>>
  BY Zenon DEF process_message, localVars
<1>3. PICK h : handled' = handled \cup {h} /\ h.kind = m.kind /\ h.uri = m.uri /\ h.amid \in BOOLEAN
  BY HandledTaken, Zenon
<1>k. m.kind \in {"didOpen", "didChange"} \/ m.kind = "didSave" \/ m.kind \in {"shutdown", "exit"} \/ m.kind = "didClose"
  BY <1>1 DEF MessageType, EditType, TouchType, EndType
<1>a. /\ \A u : Applied("didClose", u, BOOLEAN) => Applied("didClose", u, BOOLEAN)'
      /\ \A u : Applied("didClose", u, {TRUE}) => Applied("didClose", u, {TRUE})'
  BY <1>3, Zenon DEF Applied
<1> HIDE DEF m
<1>4. shared'.last_published = shared.last_published
  BY <1>1, <1>k, Zenon DEF Opened, Saved, Closed, EndOf, SameEnd
<1>5. worker' = "analyzing" => snapshot'.last_published = shared'.last_published
  BY <1>2, <1>4, Zenon DEF Remembered
<1>6. CASE m.kind = "didClose"
  <2>1. /\ DOMAIN shown' = DOMAIN shown \cup {m.uri}
        /\ \A u \in DOMAIN shown : u # m.uri => shown'[u] = shown[u]
        /\ shown'[m.uri] = cleared(shared, m.uri)
    BY <1>2, <1>6 DEF Put
  <2>2. DOMAIN shared'.documents = DOMAIN shared.documents \ {m.uri}
    <3>1. shared'.documents = Drop(shared.documents, m.uri)
      BY <1>1, <1>6, Zenon DEF Closed
    <3> QED
      BY <3>1 DEF Drop, Restrict
  <2>3. cleared(shared, m.uri).diags = "fine"
    BY DEF cleared
  <2>4. \A u : u = m.uri => Applied("didClose", u, BOOLEAN)'
    <3>1. h \in handled' /\ h.kind = "didClose" /\ h.uri = m.uri /\ h.amid \in BOOLEAN
      BY <1>3, <1>6, Zenon
    <3> QED
      BY <3>1 DEF Applied
  <2>5. ASSUME NEW u \in DOMAIN shared'.last_published, ~Applied("didClose", u, BOOLEAN)'
        PROVE  shown'[u] = shared'.last_published[u]
    <3>1. u # m.uri /\ ~Applied("didClose", u, BOOLEAN)
      BY <1>a, <2>4, <2>5, Zenon
    <3> QED
      BY <1>4, <2>1, <3>1, Zenon DEF Remembered
  <2>6. ASSUME NEW u \in DOMAIN shown', u \notin DOMAIN shared'.documents
        PROVE  shown'[u].diags = "fine" \/ Applied("didClose", u, {TRUE})'
    BY <1>a, <2>1, <2>2, <2>3, <2>6, Zenon DEF Remembered
  <2>7. DOMAIN shared'.last_published \subseteq DOMAIN shown'
    BY <1>4, <2>1, Zenon DEF Remembered
  <2> QED
    BY <1>5, <2>5, <2>6, <2>7, Zenon DEF Remembered
<1>7. CASE m.kind # "didClose"
  <2>1. \A u \in DOMAIN shared.documents : u \in DOMAIN shared'.documents
    <3>1. CASE m.kind \in {"didOpen", "didChange"}
      <4>1. shared'.documents = Put(shared.documents, m.uri, DocOf(m))
        BY <1>1, <3>1, Zenon DEF Opened
      <4> QED
        BY <4>1 DEF Put
    <3>2. CASE m.kind = "didSave" \/ m.kind \in {"shutdown", "exit"}
      BY <1>1, <3>2, Zenon DEF Saved, EndOf
    <3> QED
      BY <1>7, <1>k, <3>1, <3>2, Zenon
  <2> QED
    BY <1>2, <1>4, <1>5, <1>7, <1>a, <2>1, Zenon DEF Remembered
<1> QED
  BY <1>6, <1>7, Zenon

LEMMA RememberedNext ==
    ASSUME Types, Restored, Remembered, Next
    PROVE  Remembered'
<1>0. shared \in StateType /\ snapshot \in StateType /\ "loop" # "analyzing"
  BY Zenon DEF Types, StateTypes
<1>1. CASE process_message
  BY <1>1, RememberedTaken, Zenon
<1>a. ~process_message => \A u : /\ Applied("didClose", u, BOOLEAN)' <=> Applied("didClose", u, BOOLEAN)
                                 /\ Applied("didClose", u, {TRUE})' <=> Applied("didClose", u, {TRUE})
  BY HandledKept, Zenon DEF Applied
<1>2. ASSUME NEW s \in StateType, publish(s), worker' = "loop", ~process_message,
             s.last_published = shared.last_published
      PROVE  Remembered'
  <2> DEFINE f == shared.last_published
  <2>1. /\ shown' = Merged(shown, s) /\ shared'.documents = s.documents
        /\ shared'.last_published = Merged(f, s)
    BY <1>2, Commit, Zenon DEF Published
  <2>2. \A g : /\ DOMAIN Merged(g, s) = DOMAIN g \cup news(s)
               /\ \A u \in DOMAIN g \cup news(s) :
                      Merged(g, s)[u] = IF u \in news(s) THEN report(s, u) ELSE g[u]
    BY DEF Merged
  <2>3. news(s) \subseteq DOMAIN shared'.documents
    BY <2>1, ReportTypes
  <2>4. DOMAIN shown \subseteq Uris
    <3>1. shown \in Partial(ReportType)
      BY PartialNames, Zenon DEF Types, StateTypes
    <3> QED
      BY <3>1, PartialDomain, Zenon
  <2>5. \A u \in DOMAIN shown : u \in DOMAIN shared.documents => u \in DOMAIN shared'.documents
    <3>1. Kept(shared'.documents, shared.documents, ClosedAmid)
      BY <1>2, RestoredKept, Zenon
    <3> QED
      BY <2>4, <3>1, Zenon DEF Kept, Same
  <2>6. DOMAIN shared'.last_published \subseteq DOMAIN shown'
    BY <2>1, <2>2, Zenon DEF Remembered
  <2>7. \A u \in DOMAIN shared'.last_published :
            ~Applied("didClose", u, BOOLEAN)' => shown'[u] = shared'.last_published[u]
    <3> SUFFICES ASSUME NEW u \in DOMAIN shared'.last_published, ~Applied("didClose", u, BOOLEAN)
                 PROVE  shown'[u] = shared'.last_published[u]
      BY <1>2, <1>a, Zenon
    <3>1. CASE u \in news(s)
      BY <2>1, <2>2, <3>1, Zenon
    <3>2. CASE u \notin news(s)
      <4>1. u \in DOMAIN f /\ u \in DOMAIN shown /\ shown[u] = f[u]
        BY <2>1, <2>2, <3>2, Zenon DEF Remembered
      <4> QED
        BY <2>1, <2>2, <3>2, <4>1, Zenon
    <3> QED
      BY <3>1, <3>2, Zenon
  <2>8. \A u \in DOMAIN shown' : u \notin DOMAIN shared'.documents =>
            shown'[u].diags = "fine" \/ Applied("didClose", u, {TRUE})'
    <3> SUFFICES ASSUME NEW u \in DOMAIN shown', u \notin DOMAIN shared'.documents
                 PROVE  shown'[u].diags = "fine" \/ Applied("didClose", u, {TRUE})
      BY <1>2, <1>a, Zenon
    <3>1. u \notin news(s) /\ u \in DOMAIN shown /\ u \notin DOMAIN shared.documents
      BY <2>1, <2>2, <2>3, <2>5, Zenon
    <3>2. shown'[u] = shown[u]
      BY <2>1, <2>2, <3>1, Zenon
    <3> QED
      BY <3>1, <3>2, Zenon DEF Remembered
  <2> QED
    BY <1>0, <1>2, <2>6, <2>7, <2>8, Zenon DEF Remembered
<1>3. CASE workerParse /\ ~process_message
  BY <1>0, <1>2, <1>3, Zenon DEF workerParse, jobDone
<1>4. CASE workerPublish /\ ~process_message
  BY <1>0, <1>2, <1>4, Zenon DEF workerPublish, jobDone, Remembered
<1>5. CASE workerAnalyze /\ ~process_message
  <2>1. snapshot' = shared /\ shared' = shared /\ shown' = shown
    BY <1>5, Zenon DEF workerAnalyze
  <2> QED
    BY <1>5, <1>a, <2>1, Zenon DEF Remembered
<1>6. CASE UNCHANGED <<shared, snapshot, shown, analyzed>> /\ ~workerAnalyze /\ ~process_message
  BY <1>6, <1>a, AnalyzingKept, Zenon DEF Remembered
<1> QED
  BY <1>1, <1>3, <1>4, <1>5, <1>6, StateKept, Zenon

\* "all open docs, full diagnostics" and "clear closed URI"
\* (docs/plans/archive/lsp-save-vs-edit-gating.md:22 and 25) as far as the code
\* keeps them: for any client, documents and texts, any yields of the analyses, any
\* wakes of the debounces and any interleaving, an idle server has left the workspace
\* dirty only after an edit of a document that is open.  If it is clean, the client
\* shows the full diagnostics of every open document at its version, but that of one
\* it had closed before may be older; and what is left on the screen for a closed
\* document is an empty list, unless it was closed amid a run, whose commit brings
\* the document back (lsp.tw:354).
THEOREM ShownIsOpenHolds == Spec => []ShownIsOpen
<1> DEFINE Inv == Versions /\ Workspace /\ Edited /\ Remembered
<1>1. Init => Inv
  <2> SUFFICES ASSUME Init PROVE Inv
    OBVIOUS
  <2>1. Pipe = <<>> /\ DOMAIN <<>> = {}
    BY InitPipe
  <2>2. /\ DOMAIN client = {} /\ DOMAIN shared.documents = {} /\ DOMAIN shown = {}
        /\ DOMAIN shared.last_published = {}
    BY NothingType DEF Init, initial_state
  <2>3. shared.full_dirty # TRUE /\ worker # "analyzing"
    BY DEF Init, initial_state
  <2>4. Versions /\ Workspace
    BY <2>1, <2>2, Zenon DEF Versions, Workspace
  <2>5. Edited /\ Remembered
    BY <2>2, <2>3, Zenon DEF Edited, Remembered
  <2> QED
    BY <2>4, <2>5, Zenon
<1>2. Types /\ Tasks /\ Clean /\ Ends /\ Restored /\ Flows /\ Inv /\ [Next]_vars => Inv'
  <2>1. ASSUME Inv, UNCHANGED vars PROVE Inv'
    <3>1. UNCHANGED <<Pipe, client, shared, snapshot, worker, shown, handled>>
      BY <2>1, Zenon DEF vars, clientVars, localVars, Pipe
    <3>2. Versions' /\ Workspace' /\ Edited'
      BY <2>1, <3>1, Zenon DEF Versions, Workspace, Edited
    <3>3. Remembered'
      BY <2>1, <3>1, Zenon DEF Remembered, Applied
    <3> QED
      BY <3>2, <3>3, Zenon
  <2>2. ASSUME Types, Tasks, Clean, Ends, Restored, Flows, Inv, Next PROVE Inv'
    <3>1. Pairs
      BY <2>2, Zenon DEF Tasks
    <3> QED
      BY <2>2, <3>1, VersionsNext, WorkspaceNext, EditedNext, RememberedNext, Zenon
  <2> QED
    BY <2>1, <2>2, Zenon
<1>3. Types /\ Tasks /\ Settling /\ Flows /\ Inv => ShownIsOpen
  <2> SUFFICES ASSUME Types, Tasks, Settling, Flows, Inv, Idle
               PROVE  /\ shared.full_dirty => \E u \in DOMAIN client : client[u].version > 1
                      /\ ~shared.full_dirty => \A u \in DOMAIN client :
                             /\ u \in DOMAIN shown
                             /\ ~Applied("didClose", u, BOOLEAN) =>
                                   shown[u] = FullReport(client[u])
                      /\ \A u \in DOMAIN shown \ DOMAIN client :
                             shown[u].diags = "fine" \/ Applied("didClose", u, {TRUE})
    BY Zenon DEF ShownIsOpen, FullReport
  <2>0. DOMAIN <<>> = {}
    OBVIOUS
  <2>1. /\ Pipe = <<>> /\ DOMAIN <<>> = {}
        /\ ~(shared.pending = TRUE /\ shared.tier = "Full")
    BY <2>0, IdleIsPublished, Zenon DEF Settling
  <2>2. DOMAIN client \subseteq Uris /\ DOMAIN shown \subseteq Uris
    <3>1. client \in Partial(DocType) /\ shown \in Partial(ReportType)
      BY PartialNames, Zenon DEF Types, PipeTypes, StateTypes
    <3> QED
      BY <3>1, PartialDomain, Zenon
  <2>3. shared.full_dirty \in BOOLEAN
    BY DEF Types, StateTypes, StateType
  <2>4. \A u \in Uris : /\ FlowOf(<<>>, client, shared.documents, ClosedAmid, u)
    BY <2>1, Zenon DEF Flows, Flow
  <2>5. \A u \in Uris : u \in DOMAIN client \/ u \notin ClosedAmid => Same(client, shared.documents, u)
    BY <2>1, <2>4, Zenon DEF FlowOf
  <2>6. ASSUME shared.full_dirty PROVE \E u \in DOMAIN client : client[u].version > 1
    <3>1. PICK u \in Uris : /\ u \in DOMAIN shared.documents /\ shared.documents[u].version > 1
                            /\ FlowOf(<<>>, client, shared.documents, {}, u)
      BY <2>1, <2>3, <2>6, Zenon DEF Edited
    <3>2. Same(client, shared.documents, u)
      BY <2>1, <3>1, Zenon DEF FlowOf
    <3> QED
      BY <3>1, <3>2, Zenon DEF Same
  <2>7. ASSUME ~shared.full_dirty, NEW u \in DOMAIN client
        PROVE  u \in DOMAIN shown /\ (~Applied("didClose", u, BOOLEAN) => shown[u] = FullReport(client[u]))
    <3>1. u \in DOMAIN shared.documents /\ client[u] = shared.documents[u]
      BY <2>2, <2>5, <2>7, Zenon DEF Same
    <3>2. shared.full_dirty = FALSE
      BY <2>3, <2>7
    <3>3. /\ u \in DOMAIN shared.last_published
          /\ shared.last_published[u] = FullReport(shared.documents[u])
      BY <3>1, <3>2, Zenon DEF Workspace
    <3> QED
      BY <3>1, <3>3, Zenon DEF Remembered
  <2>8. ASSUME NEW u \in DOMAIN shown \ DOMAIN client
        PROVE  shown[u].diags = "fine" \/ Applied("didClose", u, {TRUE})
    <3>1. u \in Uris /\ u \notin DOMAIN client /\ u \in DOMAIN shown
      BY <2>2, <2>8, Zenon
    <3>2. u \notin ClosedAmid => u \notin DOMAIN shared.documents
      BY <2>5, <3>1, Zenon DEF Same
    <3> QED
      BY <3>1, <3>2, Zenon DEF Remembered, ClosedAmid
  <2> QED
    BY <2>6, <2>7, <2>8, Zenon
<1> QED
  BY <1>1, <1>2, <1>3, TypesInvariant, TasksInvariant, CleanInvariant, EndsInvariant,
     SettlingInvariant, FlowsInvariant, PTL DEF Spec
=============================================================================
