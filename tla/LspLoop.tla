------------------------------ MODULE LspLoop ------------------------------
(***************************************************************************)
(* The language server: the task loop of boot/commands/lsp.tw over the     *)
(* state of boot/lib/lsp/server_core.tw.                                   *)
(*                                                                         *)
(* The top level reads stdin and hands chunks to the dispatcher, which     *)
(* applies them to the shared state.  A notification that (re)arms the     *)
(* diagnostics spawns a debounce task, which queues a job for the worker.  *)
(* Tasks are cooperative: the task at the head of `ready' runs until it    *)
(* waits, and timers fire when nobody is ready (TaskScheduler).            *)
(*                                                                         *)
(* A chunk is a sequence of messages and `now' is unique to a call, so     *)
(* the deadline of a notification is named by the generation it starts.    *)
(***************************************************************************)
EXTENDS Integers, Sequences, Functions

CONSTANTS
    Uris,           \* the documents of the client
    Texts,          \* what it may put in them
    Kinds,          \* the notifications it uses, and "eof" if it may close the pipe
    MaxMessages,    \* bound on the messages it sends
    MaxYields,      \* bound on the yields of one analysis of some document
    JobCapacity,    \* capacity of the diagnostics channel
    EarlyWakes      \* may the debounce wake in the last millisecond before its
                    \* deadline (it sleeps wait.to_int() of a fractional wait)?

ASSUME LoopAssumption ==
    /\ MaxMessages \in Nat /\ {MaxYields, JobCapacity} \subseteq Nat \ {0}
    /\ EarlyWakes \in BOOLEAN
    /\ Texts \subseteq {"fine", "ill_typed", "ill_formed"}

VARIABLES
    client,         \* the documents as the client has them
    shown,          \* the diagnostics the client shows
    phase, eof,     \* how far the client's session is
    sent,           \* how many messages it has sent
    stdin,          \* messages the server has not read
    ready, timers,  \* tasks that can run; tasks that a timer will make ready
    hopped,         \* the task that yielded last, "" before the first yield
    reader, dispatcher, worker, debounce,   \* where each task is
    chunk,          \* messages read and not handled
    jobs, parked,   \* the diagnostics channel: buffer and parked senders
    closed,         \* is it closed?
    job, snapshot, yields,   \* locals of run_diagnostics_job
    shared, gen,    \* the cells of LoopCtx
    elapsed,        \* generations whose deadline has passed
    analyzed,       \* history: the documents of the last committed full run
    handled,        \* history: the notifications applied to the state
    status          \* of the process

clientVars == <<client, phase, eof, sent>>
jobVars == <<jobs, parked, closed>>
localVars == <<job, snapshot, yields>>
vars == <<clientVars, shown, stdin, ready, timers, hopped, reader, dispatcher, worker,
          debounce, chunk, jobVars, localVars, shared, gen, elapsed, analyzed,
          handled, status>>

Gens == 1..MaxMessages
Put(f, x, v) == [y \in DOMAIN f \cup {x} |-> IF y = x THEN v ELSE f[y]]
Drop(f, x) == Restrict(f, DOMAIN f \ {x})
Nothing == [x \in {} |-> 0]

Reader == [task |-> "reader", gen |-> 0]
Dispatcher == [task |-> "dispatcher", gen |-> 0]
Worker == [task |-> "worker", gen |-> 0]
Debounce(g) == [task |-> "debounce", gen |-> g]

initial_state ==
    [documents |-> Nothing, shutdown_requested |-> FALSE, should_exit |-> FALSE,
     pending |-> FALSE, deadline |-> 0, tier |-> "Full", parse_dirty |-> {},
     full_dirty |-> FALSE, last_published |-> Nothing]

\* The top level has spawned its tasks and waits for input.
Init ==
    /\ client = Nothing /\ shown = Nothing
    /\ phase = "open" /\ eof = FALSE /\ sent = 0
    /\ stdin = <<>> /\ chunk = <<>>
    /\ ready = <<Dispatcher, Worker>> /\ timers = {} /\ hopped = ""
    /\ reader = "reading" /\ dispatcher = "loop" /\ worker = "loop"
    /\ debounce = [g \in Gens |-> "absent"]
    /\ jobs = <<>> /\ parked = <<>> /\ closed = FALSE
    /\ job = 0 /\ snapshot = initial_state /\ yields = 0
    /\ shared = initial_state /\ gen = 0
    /\ elapsed = {}
    /\ analyzed = Nothing /\ handled = {}
    /\ status = "running"

-----------------------------------------------------------------------------
(* The client.                                                             *)

Message(kind, uri, version, text) ==
    [kind |-> kind, uri |-> uri, version |-> version, text |-> text]

\* Protocol order: nothing but exit after shutdown, nothing after exit.
say(kind, uri, version, text) ==
    /\ kind \in Kinds
    /\ phase = "open" \/ (phase = "shutdown" /\ kind = "exit")
    /\ ~eof
    /\ sent < MaxMessages
    /\ sent' = sent + 1
    /\ phase' = IF kind \in {"shutdown", "exit"} THEN kind ELSE phase
    /\ stdin' = Append(stdin, Message(kind, uri, version, text))
    /\ UNCHANGED <<eof, shown, ready, timers, hopped, reader, dispatcher, worker, debounce,
                   chunk, jobVars, localVars, shared, gen, elapsed, analyzed,
                   handled, status>>

clientOpen(u, t) ==
    /\ u \notin DOMAIN client
    /\ client' = Put(client, u, [version |-> 1, text |-> t])
    /\ say("didOpen", u, 1, t)

clientChange(u, t) ==
    /\ u \in DOMAIN client
    /\ client' = Put(client, u, [version |-> client[u].version + 1, text |-> t])
    /\ say("didChange", u, client[u].version + 1, t)

clientSave(u) ==
    /\ u \in DOMAIN client
    /\ UNCHANGED client
    /\ say("didSave", u, 0, "")

clientClose(u) ==
    /\ u \in DOMAIN client
    /\ client' = Drop(client, u)
    /\ say("didClose", u, 0, "")

clientEnd(kind) ==
    /\ UNCHANGED client
    /\ say(kind, "", 0, "")

clientEof ==
    /\ "eof" \in Kinds
    /\ ~eof
    /\ eof' = TRUE
    /\ UNCHANGED <<client, phase, sent, shown, stdin, ready, timers, hopped,
                   reader, dispatcher, worker, debounce, chunk, jobVars, localVars, shared,
                   gen, elapsed, analyzed, handled, status>>

-----------------------------------------------------------------------------
(* server_core: the state after a notification.                            *)

mark_diagnostics_pending(s, tier, dirty) ==
    [s EXCEPT !.pending = TRUE, !.tier = tier, !.deadline = gen + 1,
              !.parse_dirty = @ \cup dirty]

handle_did_open(s, m) ==
    mark_diagnostics_pending(
        [s EXCEPT !.documents = Put(@, m.uri, [version |-> m.version, text |-> m.text]),
                  !.full_dirty = TRUE],
        "Full", {})

\* Mutant: the edit does not make the workspace dirty.
handle_did_changeClean(s, m) ==
    mark_diagnostics_pending(
        [s EXCEPT !.documents = Put(@, m.uri, [version |-> m.version, text |-> m.text])],
        "Parse", {m.uri})

handle_did_change(s, m) ==
    mark_diagnostics_pending(
        [s EXCEPT !.documents = Put(@, m.uri, [version |-> m.version, text |-> m.text]),
                  !.full_dirty = TRUE],
        "Parse", {m.uri})

handle_did_save(s, m) == mark_diagnostics_pending(s, "Full", {})

\* Mutant: the closed document stays in the store.
handle_did_closeKeeps(s, m) ==
    mark_diagnostics_pending([s EXCEPT !.parse_dirty = @ \ {m.uri}], "Full", {})

handle_did_close(s, m) ==
    LET c == [s EXCEPT !.documents = Drop(@, m.uri), !.parse_dirty = @ \ {m.uri}]
    IN  IF DOMAIN c.documents = {} THEN [c EXCEPT !.full_dirty = FALSE]
        ELSE mark_diagnostics_pending(c, "Full", {})

\* What the client is sent for a document that it closes.
cleared(s, u) ==
    [version |-> IF u \in DOMAIN s.documents THEN s.documents[u].version ELSE 0,
     diags |-> "fine"]

handle_notification(s, m) ==
    CASE m.kind = "didOpen"   -> handle_did_open(s, m)
      [] m.kind = "didChange" -> handle_did_change(s, m)
      [] m.kind = "didSave"   -> handle_did_save(s, m)
      [] m.kind = "didClose"  -> handle_did_close(s, m)
      [] m.kind = "shutdown"  -> [s EXCEPT !.shutdown_requested = TRUE]
      [] m.kind = "exit"      -> [s EXCEPT !.should_exit = TRUE]

\* What the analysis of a tier finds in a text.  (What a full run finds in one
\* document is taken to depend on that document only.)
found(tier, text) ==
    IF text = "ill_formed" \/ (text = "ill_typed" /\ tier = "Full") THEN text ELSE "fine"

\* diagnostics_signature, and what the client is sent.
report(s, u) ==
    [version |-> s.documents[u].version, diags |-> found(s.tier, s.documents[u].text)]

\* The documents a due run covers, and those it has something new to say about.
covered(s) == DOMAIN s.documents \cap (IF s.tier = "Full" THEN Uris ELSE s.parse_dirty)

news(s) ==
    {u \in covered(s) :
        u \in DOMAIN s.last_published => s.last_published[u] # report(s, u)}

\* The state after publish_due_diagnostics of a due state.
publish_due_diagnostics(s) ==
    [s EXCEPT !.pending = FALSE, !.parse_dirty = {},
              !.full_dirty = @ /\ s.tier = "Parse",
              !.last_published =
                  [u \in DOMAIN @ \cup news(s) |->
                      IF u \in news(s) THEN report(s, u) ELSE @[u]]]

due(s) == s.pending /\ s.deadline \in elapsed

-----------------------------------------------------------------------------
(* Tasks.  A step of the task at the head of `ready' either keeps it there *)
(* (it has not waited yet) or moves on; wake(ts) makes others ready.       *)

run(t) == status # "failed" /\ ready # <<>> /\ Head(ready) = t
keep(ts) == ready' = ready \o ts
wait(ts) == ready' = Tail(ready) \o ts

chunksClosed == reader \in {"joinDispatcher", "joined", "joinWorker", "worked", "done"}

serverVars == <<clientVars, shown, stdin, elapsed, analyzed, handled, gen>>
pipeVars == <<serverVars, worker, debounce, jobVars, localVars, shared, timers, hopped>>

\* stdin.read_chunk: some of what there is, or the end of the input.
read_chunk(n) ==
    /\ status # "failed" /\ reader = "reading"
    /\ n \in 1..Len(stdin)
    /\ chunk' = SubSeq(stdin, 1, n)
    /\ stdin' = SubSeq(stdin, n + 1, Len(stdin))
    /\ reader' = "read"
    /\ keep(<<Reader>>)
    /\ UNCHANGED <<clientVars, shown, timers, hopped, dispatcher, worker, debounce,
                   jobVars, localVars, shared, gen, elapsed, analyzed, handled, status>>

readEof ==
    /\ status # "failed" /\ reader = "reading"
    /\ stdin = <<>> /\ eof
    /\ reader' = "ending"
    /\ keep(<<Reader>>)
    /\ UNCHANGED <<pipeVars, dispatcher, chunk, status>>

\* ctx.chunks.send, on a channel without a buffer.
readerSend ==
    /\ run(Reader) /\ reader = "read"
    /\ \/ /\ dispatcher = "recv"
          /\ dispatcher' = "processing"
          /\ reader' = "acking"
          /\ wait(<<Dispatcher>>)
       \/ /\ dispatcher # "recv"
          /\ reader' = "sending"
          /\ wait(<<>>)
          /\ UNCHANGED dispatcher
    /\ UNCHANGED <<pipeVars, chunk, status>>

\* ctx.chunk_acks.recv, when the chunk was taken while the reader waited: the
\* dispatcher has come to its send by then.
readerRecvAck ==
    /\ run(Reader) /\ reader = "sent"
    /\ dispatcher = "ackSend"
    /\ dispatcher' = "acked"
    /\ reader' = "acked"
    /\ keep(<<Dispatcher>>)
    /\ UNCHANGED <<pipeVars, chunk, status>>

\* Mutant: the reader does not look at should_exit.
readerLoopForever ==
    /\ run(Reader) /\ reader = "acked"
    /\ reader' = "reading" /\ wait(<<>>)
    /\ UNCHANGED <<pipeVars, dispatcher, chunk, status>>

readerLoop ==
    /\ run(Reader) /\ reader = "acked"
    /\ IF shared.should_exit THEN reader' = "ending" /\ keep(<<>>)
       ELSE reader' = "reading" /\ wait(<<>>)
    /\ UNCHANGED <<pipeVars, dispatcher, chunk, status>>

\* ctx.chunks.close and dispatcher.await.
readerEnd ==
    /\ run(Reader) /\ reader = "ending"
    /\ \/ /\ dispatcher = "recv"
          /\ dispatcher' = "loop"
          /\ reader' = "joinDispatcher"
          /\ wait(<<Dispatcher>>)
       \/ /\ dispatcher = "done"
          /\ reader' = "joined"
          /\ wait(<<Reader>>)
          /\ UNCHANGED dispatcher
       \/ /\ dispatcher \notin {"recv", "done"}
          /\ reader' = "joinDispatcher"
          /\ wait(<<>>)
          /\ UNCHANGED dispatcher
    /\ UNCHANGED <<pipeVars, chunk, status>>

\* ctx.diagnostics.close, which refuses the parked senders, and
\* diagnostics.await.
readerJoin ==
    /\ run(Reader) /\ reader = "joined"
    /\ closed' = TRUE /\ parked' = <<>>
    /\ debounce' = [g \in Gens |-> IF g \in Range(parked) THEN "done" ELSE debounce[g]]
    /\ \/ /\ worker = "recv"
          /\ worker' = "loop"
          /\ reader' = "joinWorker"
          /\ wait(<<Worker>>)
       \/ /\ worker # "recv"
          /\ reader' = "joinWorker"
          /\ wait(<<>>)
          /\ UNCHANGED worker
    /\ UNCHANGED <<serverVars, timers, hopped, dispatcher, chunk, jobs, localVars, shared,
                   status>>

\* Mutant: any exit is a failure.
readerExitFails ==
    /\ run(Reader) /\ reader = "worked"
    /\ reader' = "done"
    /\ status' = IF shared.should_exit THEN "failed" ELSE "ended"
    /\ wait(<<>>)
    /\ UNCHANGED <<pipeVars, dispatcher, chunk>>

\* The end of the program, or proc.exit(1).
readerExit ==
    /\ run(Reader) /\ reader = "worked"
    /\ reader' = "done"
    /\ status' = IF shared.should_exit /\ ~shared.shutdown_requested THEN "failed"
                 ELSE "ended"
    /\ wait(<<>>)
    /\ UNCHANGED <<pipeVars, dispatcher, chunk>>

\* The dispatcher is done: it closes chunk_acks, on which nobody waits by then,
\* and whoever awaits it goes on.
dispatcherDone ==
    /\ dispatcher' = "done"
    /\ IF reader = "joinDispatcher" THEN reader' = "joined" /\ wait(<<Reader>>)
       ELSE UNCHANGED reader /\ wait(<<>>)

\* ctx.chunks.recv.
dispatcherRecv ==
    /\ run(Dispatcher) /\ dispatcher = "loop"
    /\ \/ /\ reader = "sending"
          /\ reader' = "sent"
          /\ dispatcher' = "processing"
          /\ keep(<<Reader>>)
       \/ /\ chunksClosed
          /\ dispatcherDone
       \/ /\ reader # "sending" /\ ~chunksClosed
          /\ dispatcher' = "recv"
          /\ wait(<<>>)
          /\ UNCHANGED reader
    /\ UNCHANGED <<pipeVars, chunk, status>>

\* What the history keeps of a message.  One that is handled amid a run, during a
\* yield of the newest analysis, and that does not outdate it is handled on a
\* state that the result of the analysis will replace.
applied(m, rearmed) ==
    [kind |-> m.kind, uri |-> m.uri,
     amid |-> worker = "analyzing" /\ gen = job /\ ~rearmed]

\* Mutant: the debounce is not started again while diagnostics are pending.
process_messageOnce ==
    LET m == Head(chunk)
        s == handle_notification(shared, m)
        rearmed == s.pending /\ ~shared.pending
    IN  /\ run(Dispatcher) /\ dispatcher = "processing"
        /\ chunk # <<>> /\ ~shared.should_exit
        /\ chunk' = Tail(chunk)
        /\ shared' = s
        /\ handled' = handled \cup {applied(m, rearmed)}
        /\ shown' = IF m.kind = "didClose" THEN Put(shown, m.uri, cleared(shared, m.uri))
                    ELSE shown
        /\ \/ /\ rearmed
              /\ gen' = gen + 1
              /\ debounce' = [debounce EXCEPT ![gen + 1] = "new"]
              /\ elapsed' = IF s.tier = "Full" THEN elapsed \cup {gen + 1} ELSE elapsed
              /\ keep(<<Debounce(gen + 1)>>)
           \/ ~rearmed /\ UNCHANGED <<gen, debounce, elapsed, ready>>
        /\ UNCHANGED <<clientVars, stdin, timers, hopped, reader, dispatcher, worker,
                       jobVars, localVars, analyzed, status>>

\* One turn of process_buffer: the state after the message, the diagnostics
\* that didClose clears, and schedule_diagnostics when it refreshed the deadline.
process_message ==
    LET m == Head(chunk)
        s == handle_notification(shared, m)
        rearmed == s.pending /\ s.deadline # shared.deadline
    IN  /\ run(Dispatcher) /\ dispatcher = "processing"
        /\ chunk # <<>> /\ ~shared.should_exit
        /\ chunk' = Tail(chunk)
        /\ shared' = s
        /\ handled' = handled \cup {applied(m, rearmed)}
        /\ shown' = IF m.kind = "didClose" THEN Put(shown, m.uri, cleared(shared, m.uri))
                    ELSE shown
        /\ \/ /\ rearmed
              /\ gen' = gen + 1
              /\ debounce' = [debounce EXCEPT ![gen + 1] = "new"]
              /\ elapsed' = IF s.tier = "Full" THEN elapsed \cup {gen + 1} ELSE elapsed
              /\ keep(<<Debounce(gen + 1)>>)
           \/ ~rearmed /\ UNCHANGED <<gen, debounce, elapsed, ready>>
        /\ UNCHANGED <<clientVars, stdin, timers, hopped, reader, dispatcher, worker,
                       jobVars, localVars, analyzed, status>>

\* ctx.chunk_acks.send.
dispatcherAck ==
    /\ run(Dispatcher) /\ dispatcher = "processing"
    /\ chunk = <<>> \/ shared.should_exit
    /\ chunk' = <<>>
    /\ \/ /\ reader = "acking"
          /\ reader' = "acked"
          /\ dispatcher' = "acked"
          /\ keep(<<Reader>>)
       \/ /\ reader # "acking"
          /\ dispatcher' = "ackSend"
          /\ wait(<<>>)
          /\ UNCHANGED reader
    /\ UNCHANGED <<pipeVars, status>>

\* Task.yield: to a timer, or, within YIELD_MACROTASK_MS of the last time a
\* task went to a timer, back to the end of the queue.
yieldHop(t) == wait(<<>>) /\ timers' = timers \cup {t} /\ hopped' = t.task
yieldFast(t) == wait(<<t>>) /\ UNCHANGED timers /\ hopped' = t.task

dispatcherLoop ==
    /\ run(Dispatcher) /\ dispatcher = "acked"
    /\ \/ /\ shared.should_exit
          /\ dispatcherDone
          /\ UNCHANGED <<timers, hopped>>
       \/ /\ ~shared.should_exit
          /\ dispatcher' = "loop"
          /\ yieldHop(Dispatcher) \/ (hopped # "" /\ yieldFast(Dispatcher))
          /\ UNCHANGED reader
    /\ UNCHANGED <<serverVars, chunk, worker, debounce, jobVars, localVars, shared, status>>

-----------------------------------------------------------------------------
(* The debounce tasks.                                                     *)

bounceVars == <<serverVars, hopped, reader, dispatcher, chunk, closed, snapshot, yields, shared,
                status>>

debounceStart(g) ==
    /\ run(Debounce(g)) /\ debounce[g] = "new"
    /\ debounce' = [debounce EXCEPT ![g] = "awake"]
    /\ IF g \in elapsed THEN keep(<<>>) /\ UNCHANGED timers
       ELSE wait(<<>>) /\ timers' = timers \cup {Debounce(g)}
    /\ UNCHANGED <<bounceVars, worker, jobs, parked, job>>

\* ctx.diagnostics.send, when the generation is still current.
debounceSend(g) ==
    /\ run(Debounce(g)) /\ debounce[g] = "awake"
    /\ \/ /\ gen # g \/ closed
          /\ debounce' = [debounce EXCEPT ![g] = "done"]
          /\ wait(<<>>)
          /\ UNCHANGED <<worker, jobs, parked, job>>
       \/ /\ gen = g /\ ~closed /\ worker = "recv"
          /\ debounce' = [debounce EXCEPT ![g] = "done"]
          /\ worker' = "job" /\ job' = g
          /\ wait(<<Worker>>)
          /\ UNCHANGED <<jobs, parked>>
       \/ /\ gen = g /\ ~closed /\ worker # "recv" /\ Len(jobs) < JobCapacity
          /\ debounce' = [debounce EXCEPT ![g] = "done"]
          /\ jobs' = Append(jobs, g)
          /\ wait(<<>>)
          /\ UNCHANGED <<worker, parked, job>>
       \/ /\ gen = g /\ ~closed /\ worker # "recv" /\ Len(jobs) >= JobCapacity
          /\ debounce' = [debounce EXCEPT ![g] = "parked"]
          /\ parked' = Append(parked, g)
          /\ wait(<<>>)
          /\ UNCHANGED <<worker, jobs, job>>
    /\ UNCHANGED <<bounceVars, timers>>

-----------------------------------------------------------------------------
(* The diagnostics worker.                                                 *)

workerVars == <<clientVars, stdin, elapsed, handled, gen, dispatcher, chunk, status>>

\* ctx.diagnostics.recv: the buffer, which the oldest parked sender refills.
workerRecv ==
    /\ run(Worker) /\ worker = "loop"
    /\ \/ /\ jobs # <<>>
          /\ job' = Head(jobs)
          /\ jobs' = IF parked = <<>> THEN Tail(jobs) ELSE Append(Tail(jobs), Head(parked))
          /\ parked' = IF parked = <<>> THEN parked ELSE Tail(parked)
          /\ debounce' = IF parked = <<>> THEN debounce
                         ELSE [debounce EXCEPT ![Head(parked)] = "done"]
          /\ worker' = "job"
          /\ keep(<<>>)
          /\ UNCHANGED reader
       \/ /\ jobs = <<>> /\ closed
          /\ worker' = "done"
          /\ reader' = "worked"
          /\ wait(<<Reader>>)
          /\ UNCHANGED <<job, jobs, parked, debounce>>
       \/ /\ jobs = <<>> /\ ~closed
          /\ worker' = "recv"
          /\ wait(<<>>)
          /\ UNCHANGED <<job, jobs, parked, debounce, reader>>
    /\ UNCHANGED <<workerVars, shown, timers, hopped, closed, snapshot, yields, shared, analyzed>>

\* The result of a due run of the state s replaces the shared state.
publish(s) ==
    /\ shared' = publish_due_diagnostics(s)
    /\ shown' = [u \in DOMAIN shown \cup news(s) |->
                    IF u \in news(s) THEN report(s, u) ELSE shown[u]]
    /\ analyzed' = IF s.tier = "Full" THEN s.documents ELSE analyzed

jobDone == worker' = "loop" /\ keep(<<>>)

\* run_diagnostics_job of an outdated generation, or before the deadline.
workerSkip ==
    /\ run(Worker) /\ worker = "job"
    /\ gen # job \/ ~due(shared)
    /\ jobDone
    /\ UNCHANGED <<workerVars, reader, debounce, jobVars, shown, timers, hopped, localVars, shared,
                   analyzed>>

\* The parse tier has no progress sink: nothing runs between its snapshot and
\* its result.
workerParse ==
    /\ run(Worker) /\ worker = "job"
    /\ gen = job /\ due(shared)
    /\ shared.tier = "Parse"
    /\ publish(shared)
    /\ jobDone
    /\ UNCHANGED <<workerVars, reader, debounce, jobVars, timers, hopped, localVars>>

workerAnalyze ==
    /\ run(Worker) /\ worker = "job"
    /\ gen = job /\ due(shared)
    /\ shared.tier = "Full"
    /\ snapshot' = shared
    /\ yields' = 0
    /\ worker' = "analyzing"
    /\ keep(<<>>)
    /\ UNCHANGED <<workerVars, reader, debounce, jobVars, shown, timers, hopped, job, shared,
                   analyzed>>

\* The sink yields at the first stage of the analysis (last_yield starts at 0.0)
\* and then between two stages, progress_yield_ms apart: only the first yield, or
\* one after the dispatcher's, is within YIELD_MACROTASK_MS of the last one.  An
\* analysis of no document has no stage.
workerYield ==
    /\ run(Worker) /\ worker = "analyzing"
    /\ DOMAIN snapshot.documents # {}
    /\ yields < MaxYields
    /\ yields' = yields + 1
    /\ \/ yieldHop(Worker)
       \/ hopped = "dispatcher" /\ yieldFast(Worker)
       \/ hopped = "worker" /\ yields = 0 /\ yieldFast(Worker)
    /\ UNCHANGED <<workerVars, reader, worker, debounce, jobVars, shown, job, snapshot,
                   shared, analyzed>>

complete == yields > 0 \/ DOMAIN snapshot.documents = {}

\* Mutant: the generation is not checked again.
workerPublishAlways ==
    /\ run(Worker) /\ worker = "analyzing"
    /\ complete
    /\ publish(snapshot)
    /\ jobDone
    /\ UNCHANGED <<workerVars, reader, debounce, jobVars, timers, hopped, localVars>>

workerPublish ==
    /\ run(Worker) /\ worker = "analyzing"
    /\ complete
    /\ gen = job
    /\ publish(snapshot)
    /\ jobDone
    /\ UNCHANGED <<workerVars, reader, debounce, jobVars, timers, hopped, localVars>>

workerSuperseded ==
    /\ run(Worker) /\ worker = "analyzing"
    /\ complete
    /\ gen # job
    /\ jobDone
    /\ UNCHANGED <<workerVars, reader, debounce, jobVars, shown, timers, hopped, localVars, shared,
                   analyzed>>

-----------------------------------------------------------------------------
(* Time.                                                                   *)

elapse(g) ==
    /\ status # "failed"
    /\ debounce[g] # "absent" /\ g \notin elapsed
    /\ elapsed' = elapsed \cup {g}
    /\ UNCHANGED <<clientVars, shown, stdin, ready, timers, hopped, reader, dispatcher,
                   worker, debounce, chunk, jobVars, localVars, shared, gen, analyzed, handled,
                   status>>

timerFires(t) ==
    /\ status # "failed" /\ ready = <<>>
    /\ t.task = "debounce" => t.gen \in elapsed \/ EarlyWakes
    /\ timers' = timers \ {t}
    /\ keep(<<t>>)
    /\ UNCHANGED <<serverVars, hopped, reader,
                   dispatcher, worker, debounce, chunk, jobVars, localVars, shared, status>>

-----------------------------------------------------------------------------
Client ==
    \/ \E u \in Uris, t \in Texts : clientOpen(u, t) \/ clientChange(u, t)
    \/ \E u \in Uris : clientSave(u) \/ clientClose(u)
    \/ \E kind \in {"shutdown", "exit"} : clientEnd(kind)
    \/ clientEof

ReaderStep ==
    \/ \E n \in 1..MaxMessages : read_chunk(n)
    \/ readEof \/ readerSend \/ readerRecvAck \/ readerLoop
    \/ readerEnd \/ readerJoin \/ readerExit

DispatcherStep == dispatcherRecv \/ process_message \/ dispatcherAck \/ dispatcherLoop

DebounceStep == \E g \in Gens : debounceStart(g) \/ debounceSend(g)

WorkerStep ==
    \/ workerRecv \/ workerSkip \/ workerParse \/ workerAnalyze \/ workerYield
    \/ workerPublish \/ workerSuperseded

Time == (\E g \in Gens : elapse(g)) \/ (\E t \in timers : timerFires(t))

Next == Client \/ ReaderStep \/ DispatcherStep \/ DebounceStep \/ WorkerStep \/ Time

Spec == Init /\ [][Next]_vars

\* The event loop runs what is ready and fires its timers, and time passes;
\* the client owes the server nothing.
FairSpec ==
    /\ Spec
    /\ WF_vars(ReaderStep) /\ WF_vars(DispatcherStep) /\ WF_vars(DebounceStep)
    /\ WF_vars(WorkerStep) /\ WF_vars(Time)

-----------------------------------------------------------------------------
(* Properties.                                                             *)

\* Nothing is under way: the server waits for its client.
Idle == ready = <<>> /\ timers = {} /\ stdin = <<>> /\ reader = "reading"

\* The history of a notification: handled at all, on a document, on a state that
\* was kept.
Applied(kind, u, amid) ==
    \E h \in handled : h.kind = kind /\ h.uri = u /\ h.amid \in amid
Handled(kind) == \E h \in handled : h.kind = kind
HandledAlone(kind) == Handled(kind) /\ \A h \in handled : h.kind = kind => ~h.amid

\* No stale squiggle is left (docs/plans/archive/lsp-save-vs-edit-gating.md:36):
\* when the server is idle, what the client shows for an open document is what
\* one of the tiers finds in its current version.
ShownIsCurrent ==
    Idle => \A u \in DOMAIN client \cap DOMAIN shown :
        /\ shown[u].version = client[u].version
        /\ shown[u].diags \in {found(tier, client[u].text) : tier \in {"Parse", "Full"}}

\* The features that need a full snapshot are gated on full_dirty
\* (server_core.tw:721): when it is off, the last full run that was committed
\* saw every open document as it is now.
CleanIsCurrent ==
    ~shared.full_dirty => \A u \in DOMAIN shared.documents :
        u \in DOMAIN analyzed /\ analyzed[u] = shared.documents[u]

\* "the worker publishes once the client falls idle" (lsp.tw:253): diagnostics
\* that are pending have a debounce task, a queued job or a run under way.
PendingIsScheduled ==
    shared.pending /\ ~closed =>
        \/ debounce[gen] \in {"new", "awake", "parked"}
        \/ gen \in Range(jobs)
        \/ job = gen /\ worker \in {"job", "analyzing"}

\* Nobody waits for somebody who waits: when no task can run and no timer is set,
\* the reader waits for input or is done (lsp.tw:51-81), and it does not wait for
\* input once an exit was handled, unless amid a run that replaces the state.
ExitReachesReader ==
    ready = <<>> /\ timers = {} =>
        /\ reader \in {"reading", "done"}
        /\ HandledAlone("exit") => reader # "reading"

\* "wait for its ack before parking again so an `exit` notification cannot leave
\* the reader asleep on stdin" (lsp.tw:51-52), whenever the exit is handled.
ExitIsNoticed ==
    ready = <<>> /\ timers = {} /\ Handled("exit") => reader # "reading"

\* What an idle server has published (server_core.tw:983-995, 1085-1120).  The
\* workspace is left dirty only by an edit of an open document.  When it is clean
\* the client shows the full diagnostics of every open document, unless it closed
\* it before (last_published survives a close); and nothing is left on the screen
\* for a closed document, unless it was closed amid a run that replaces the state.
ShownIsOpen ==
    Idle =>
        /\ shared.full_dirty => \E u \in DOMAIN client : client[u].version > 1
        /\ ~shared.full_dirty => \A u \in DOMAIN client :
               /\ u \in DOMAIN shown
               /\ ~Applied("didClose", u, BOOLEAN) =>
                     shown[u] = [version |-> client[u].version,
                                 diags |-> found("Full", client[u].text)]
        /\ \A u \in DOMAIN shown \ DOMAIN client :
               shown[u].diags = "fine" \/ Applied("didClose", u, {TRUE})

\* didOpen publishes "all open docs, full diagnostics"
\* (docs/plans/archive/lsp-save-vs-edit-gating.md:22): an idle server has
\* published every open document.
OpenIsPublished == Idle => DOMAIN client \subseteq DOMAIN shown

\* didClose will "clear closed URI" (docs/plans/archive/lsp-save-vs-edit-gating.md:25):
\* an idle server has left nothing on the screen for a closed document.
ClosedIsCleared == Idle => \A u \in DOMAIN shown \ DOMAIN client : shown[u].diags = "fine"

\* Once the client has closed the pipe the server ends (chunks.close,
\* dispatcher.await, diagnostics.close, diagnostics.await), and it fails exactly
\* when the client said exit before shutdown (lsp.tw:81), unless one of them was
\* handled amid a run that replaces the state.
ServerEnds ==
    eof ~> /\ reader = "done"
           /\ \/ status = "failed" <=> Handled("exit") /\ ~Handled("shutdown")
              \/ \E h \in handled : h.kind \in {"exit", "shutdown"} /\ h.amid
=============================================================================
