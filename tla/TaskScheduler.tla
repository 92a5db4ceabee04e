--------------------------- MODULE TaskScheduler ---------------------------
(***************************************************************************)
(* The cooperative task scheduler of the JavaScript host                   *)
(* (tools/js_runtime/runtime.mjs, createTaskScheduler).                    *)
(*                                                                         *)
(* Every task body, and the top level of the program (the pseudo-task      *)
(* TOP), runs on a WebAssembly stack of its own.  A stack gives up the     *)
(* JavaScript thread only by calling an import that returns a promise, by  *)
(* returning or by trapping.  `exec' is the stack that holds the thread;   *)
(* when it is None the event loop takes the next microtask, and, when      *)
(* there is none, a timer or a host completion.                            *)
(*                                                                         *)
(* The scheduler labels what it parks with the id it reads in `current';   *)
(* the promise it keeps beside the label resumes the stack that called.    *)
(* The two are separate fields here, `id' and `who'.                       *)
(*                                                                         *)
(* The guest program is arbitrary: a running stack may make any call.      *)
(***************************************************************************)
EXTENDS Integers, Sequences, FiniteSets

CONSTANTS
    MaxTasks,       \* bound on the tasks the program spawns
    MaxChannels,    \* bound on the channels it creates
    MaxCapacity,    \* bound on the capacity it asks for
    MaxSends,       \* bound on the sends it makes on one channel
    MaxFastYields,  \* yields that fit between two macrotask hops
    ImmediateHosts  \* may a host call complete without leaving the microtask
                    \* queue (an extern that returns a plain value, a read of
                    \* stdin bytes that are already buffered)?

ASSUME BoundsAssumption ==
    /\ {MaxTasks, MaxChannels, MaxCapacity, MaxSends, MaxFastYields} \subseteq Nat
    /\ ImmediateHosts \in BOOLEAN

TOP == 0
None == -1
Ids == 0..MaxTasks
ChannelIds == 1..MaxChannels

VARIABLES
    nextId, state, awaited, waiters,      \* s.nextId and the records of s.tasks
    blockedOnTask,
    runnable, current, pumping,           \* the run queue
    topLevelDone, settled,                \* how s.done was settled, "no" before
    nextChannelId, channels,              \* s.nextChannelId and s.channels
    blockedOnChannel,
    pendingHost, timers, hosts,           \* host work in flight
    yieldBudget,                          \* fast yields left before a hop is due
    micro,                                \* the microtask queue
    exec,                                 \* the stack on the thread, or None
    kicked,                               \* start() has returned and kick() is done
    ledger                                \* history: what each channel was given

taskVars == <<nextId, state, awaited, waiters, blockedOnTask>>
chanVars == <<nextChannelId, channels, blockedOnChannel, ledger>>
hostVars == <<pendingHost, timers, hosts, yieldBudget>>
loopVars == <<micro, pumping, settled, exec>>
vars == <<taskVars, runnable, current, topLevelDone, chanVars, hostVars,
          loopVars, kicked>>

-----------------------------------------------------------------------------
(* An entry of s.runnable.  A resume fires a parked promise, which puts the *)
(* stack `who' back on the thread `hops' microtasks later.                  *)

StartEntry(t) ==
    [kind |-> "start", id |-> t, who |-> t, hops |-> 1, throws |-> FALSE]

ResumeEntry(w, n, throws) ==
    [kind |-> "resume", id |-> w.id, who |-> w.who, hops |-> n, throws |-> throws]

\* A job of the microtask queue.
Job(j, id, who, n, throws) ==
    [job |-> j, id |-> id, who |-> who, hops |-> n, throws |-> throws]

RunOneJob == Job("runOne", None, None, 1, FALSE)
ContJob(t, n, throws) == Job("cont", t, t, n, throws)
SettleJob(t, throws) == Job("settle", t, t, 1, throws)

\* What the scheduler remembers of the stack that is calling it.
Caller == [id |-> current, who |-> exec]

\* A promise returned by an import resumes its stack one microtask after it
\* is resolved; one that an async function returns, two microtasks after.
DirectHops == 1
AsyncHops == 2

\* Microtasks from a host call to the handler of its completion when the
\* operation never leaves the microtask queue: the operation, the adoption of
\* the promise it returns (two), the handler.
HostHops == 4

Chan(capacity, buffer, sendQ, recvQ, closed) ==
    [capacity |-> capacity, buffer |-> buffer, sendQ |-> sendQ, recvQ |-> recvQ,
     closed |-> closed]

EmptyChannel(cap) == Chan(cap, <<>>, <<>>, <<>>, FALSE)

Log(sent, accepted, delivered, lastGot) ==
    [sent |-> sent, accepted |-> accepted, delivered |-> delivered, lastGot |-> lastGot]

Init ==
    /\ nextId = 1
    /\ state = [t \in Ids |-> IF t = TOP THEN "running" ELSE "absent"]
    /\ awaited = [t \in Ids |-> t = TOP]
    /\ waiters = [t \in Ids |-> <<>>]
    /\ runnable = <<>>
    /\ current = TOP
    /\ blockedOnTask = 0 /\ blockedOnChannel = 0 /\ pendingHost = 0
    /\ topLevelDone = FALSE
    /\ settled = "no"
    /\ nextChannelId = 1
    /\ channels = [c \in ChannelIds |-> EmptyChannel(0)]
    /\ timers = {} /\ hosts = {}
    /\ yieldBudget = 0
    /\ micro = <<>> /\ pumping = FALSE
    /\ exec = TOP
    /\ kicked = FALSE
    /\ ledger = [c \in ChannelIds |->
                    Log(0, 0, 0, 0)]

-----------------------------------------------------------------------------
(* schedule() and checkQuiescence() are the last calls of the handlers that *)
(* make them: they are written over the values the handler has assigned,    *)
(* and m is the microtask queue it leaves.                                  *)

\* Mutant: outstanding host work is ignored.
checkQuiescenceIgnoresHosts ==
    settled' =
        IF settled # "no" THEN settled
        ELSE IF blockedOnTask' > 0 \/ blockedOnChannel' > 0 THEN "deadlock"
        ELSE IF ~topLevelDone' THEN "no"
        ELSE IF \E t \in Ids : state'[t] = "failed" /\ ~awaited'[t] THEN "unawaited"
        ELSE "resolved"

\* Mutant: the failure of a task nobody awaited is swallowed.
checkQuiescenceSwallows ==
    settled' =
        IF settled # "no" \/ pendingHost' > 0 THEN settled
        ELSE IF blockedOnTask' > 0 \/ blockedOnChannel' > 0 THEN "deadlock"
        ELSE IF ~topLevelDone' THEN "no"
        ELSE "resolved"

checkQuiescence ==
    settled' =
        IF settled # "no" \/ pendingHost' > 0 THEN settled
        ELSE IF blockedOnTask' > 0 \/ blockedOnChannel' > 0 THEN "deadlock"
        ELSE IF ~topLevelDone' THEN "no"
        ELSE IF \E t \in Ids : state'[t] = "failed" /\ ~awaited'[t] THEN "unawaited"
        ELSE "resolved"

schedule(m) ==
    \/ /\ pumping
       /\ micro' = m
       /\ UNCHANGED <<pumping, settled>>
    \/ /\ ~pumping
       /\ runnable' = <<>>
       /\ micro' = m
       /\ checkQuiescence
       /\ UNCHANGED pumping
    \/ /\ ~pumping
       /\ runnable' # <<>>
       /\ micro' = Append(m, RunOneJob)
       /\ pumping' = TRUE
       /\ UNCHANGED settled

\* A call of the stack on the thread.
guest == exec # None /\ UNCHANGED <<current, topLevelDone, kicked>>

\* The import returns at once.
stay == UNCHANGED loopVars

\* The import calls schedule() and returns a pending promise.
suspend == exec' = None /\ schedule(micro)

-----------------------------------------------------------------------------
(* The task intrinsics.                                                     *)

taskCreate ==
    /\ guest /\ stay
    /\ nextId <= MaxTasks
    /\ nextId' = nextId + 1
    /\ state' = [state EXCEPT ![nextId] = "new"]
    /\ runnable' = Append(runnable, StartEntry(nextId))
    /\ UNCHANGED <<awaited, waiters, blockedOnTask, chanVars, hostVars>>

\* suspend_await and suspend_try_await (tryMode) of a task that has settled:
\* the promise is settled when the import returns it, and schedule() is not
\* called.
awaitSettled(tid, tryMode) ==
    /\ guest
    /\ state[tid] \in {"done", "failed"}
    /\ awaited' = [awaited EXCEPT ![tid] = TRUE]
    /\ micro' = Append(micro, ContJob(exec, DirectHops,
                                      state[tid] = "failed" /\ ~tryMode))
    /\ exec' = None
    /\ UNCHANGED <<nextId, state, waiters, blockedOnTask, runnable, pumping,
                   settled, chanVars, hostVars>>

\* Mutant: suspend_try_await does not count its caller.
awaitParkedUncounted(tid, tryMode) ==
    /\ guest
    /\ state[tid] \in {"new", "running"}
    /\ awaited' = [awaited EXCEPT ![tid] = TRUE]
    /\ waiters' = [waiters EXCEPT ![tid] =
                      Append(@, [id |-> current, who |-> exec, tryMode |-> tryMode])]
    /\ blockedOnTask' = IF tryMode THEN blockedOnTask ELSE blockedOnTask + 1
    /\ UNCHANGED <<nextId, state, runnable, chanVars, hostVars>>
    /\ suspend

awaitParked(tid, tryMode) ==
    /\ guest
    /\ state[tid] \in {"new", "running"}
    /\ awaited' = [awaited EXCEPT ![tid] = TRUE]
    /\ waiters' = [waiters EXCEPT ![tid] =
                      Append(@, [id |-> current, who |-> exec, tryMode |-> tryMode])]
    /\ blockedOnTask' = blockedOnTask + 1
    /\ UNCHANGED <<nextId, state, runnable, chanVars, hostVars>>
    /\ suspend

\* Mutant: the macrotask hop is never due again.
yieldFastForever ==
    /\ guest
    /\ yieldBudget > 0
    /\ runnable' = Append(runnable, ResumeEntry(Caller, DirectHops, FALSE))
    /\ UNCHANGED <<taskVars, chanVars, hostVars>>
    /\ suspend

\* suspend_yield within YIELD_MACROTASK_MS of the last macrotask hop.  The
\* clock is abstracted to a budget: time passes, so only so many yields fit;
\* the first yield of a program always hops.
yieldFast ==
    /\ guest
    /\ yieldBudget > 0
    /\ yieldBudget' = yieldBudget - 1
    /\ runnable' = Append(runnable, ResumeEntry(Caller, DirectHops, FALSE))
    /\ UNCHANGED <<taskVars, chanVars, pendingHost, timers, hosts>>
    /\ suspend

\* suspend_yield with a macrotask hop: schedule() waits for the timer.
yieldHop ==
    /\ guest
    /\ yieldBudget' = MaxFastYields
    /\ pendingHost' = pendingHost + 1
    /\ timers' = timers \cup {Caller}
    /\ exec' = None
    /\ UNCHANGED <<taskVars, runnable, micro, pumping, settled, chanVars, hosts>>

\* A host import whose completion is a later event (a sleep, a read of an
\* empty stdin, an extern with a pending promise).
hostDeferred ==
    /\ guest
    /\ pendingHost' = pendingHost + 1
    /\ hosts' = hosts \cup {Caller}
    /\ UNCHANGED <<taskVars, runnable, chanVars, timers, yieldBudget>>
    /\ suspend

\* A host import that completes within the microtask queue.
hostImmediate(throws) ==
    /\ guest
    /\ ImmediateHosts
    /\ pendingHost' = pendingHost + 1
    /\ exec' = None
    /\ UNCHANGED <<taskVars, runnable, chanVars, timers, hosts, yieldBudget>>
    /\ schedule(Append(micro, Job("host", current, exec, HostHops, throws)))

\* The stack's promise settles: its body returns, or traps.  Imports that
\* throw (Channel.bounded below 1) trap their caller.
finish(throws) ==
    /\ guest
    /\ micro' = Append(micro, SettleJob(exec, throws))
    /\ exec' = None
    /\ UNCHANGED <<taskVars, runnable, pumping, settled, chanVars, hostVars>>

-----------------------------------------------------------------------------
(* Channels.  A value is the number of its send on the channel; the ledger *)
(* counts the sends, those that answered true, the values received, and    *)
(* remembers the last one.                                                 *)

\* Channel.new (cap = 0) and Channel.bounded.
channelNew(cap) ==
    /\ guest /\ stay
    /\ nextChannelId <= MaxChannels
    /\ nextChannelId' = nextChannelId + 1
    /\ channels' = [channels EXCEPT ![nextChannelId] = EmptyChannel(cap)]
    /\ UNCHANGED <<taskVars, runnable, blockedOnChannel, ledger, hostVars>>

\* wakeChannelWaiter, for each waiter of the sequence ws.
wakeChannelWaiters(ws) ==
    /\ blockedOnChannel' = blockedOnChannel - Len(ws)
    /\ runnable' = runnable \o
          [i \in DOMAIN ws |-> ResumeEntry(ws[i], DirectHops, FALSE)]

channelVars == <<taskVars, nextChannelId, hostVars>>

\* A send on a closed channel answers false and changes nothing.
canSend(c) == guest /\ ~channels[c].closed /\ ledger[c].sent < MaxSends

sendHandoff(c) ==
    /\ canSend(c) /\ stay
    /\ channels[c].recvQ # <<>>
    /\ channels' = [channels EXCEPT ![c] = Chan(@.capacity, @.buffer, @.sendQ, Tail(@.recvQ), @.closed)]
    /\ wakeChannelWaiters(<<Head(channels[c].recvQ)>>)
    /\ ledger' = [ledger EXCEPT
          ![c] = Log(@.sent + 1, @.accepted + 1, @.delivered + 1, @.sent + 1)]
    /\ UNCHANGED channelVars

sendBuffered(c) ==
    /\ canSend(c) /\ stay
    /\ channels[c].recvQ = <<>>
    /\ Len(channels[c].buffer) < channels[c].capacity
    /\ channels' = [channels EXCEPT ![c] =
          Chan(@.capacity, Append(@.buffer, ledger[c].sent + 1), @.sendQ, @.recvQ, @.closed)]
    /\ ledger' = [ledger EXCEPT
          ![c] = Log(@.sent + 1, @.accepted + 1, @.delivered, @.lastGot)]
    /\ UNCHANGED <<blockedOnChannel, runnable, channelVars>>

Sender(v) == [id |-> current, who |-> exec, value |-> v]

sendParked(c) ==
    /\ canSend(c)
    /\ channels[c].recvQ = <<>>
    /\ Len(channels[c].buffer) >= channels[c].capacity
    /\ channels' = [channels EXCEPT ![c] =
          Chan(@.capacity, @.buffer, Append(@.sendQ, Sender(ledger[c].sent + 1)), @.recvQ, @.closed)]
    /\ ledger' = [ledger EXCEPT
          ![c] = Log(@.sent + 1, @.accepted, @.delivered, @.lastGot)]
    /\ blockedOnChannel' = blockedOnChannel + 1
    /\ UNCHANGED <<runnable, channelVars>>
    /\ suspend

\* The receiver is given v, and n parked senders are told true.
deliver(c, v, n) ==
    ledger' = [ledger EXCEPT ![c] = Log(@.sent, @.accepted + n, @.delivered + 1, v)]

recvBuffered(c) ==
    /\ guest /\ stay
    /\ channels[c].buffer # <<>>
    /\ channels[c].sendQ = <<>>
    /\ channels' = [channels EXCEPT ![c] = Chan(@.capacity, Tail(@.buffer), @.sendQ, @.recvQ, @.closed)]
    /\ deliver(c, Head(channels[c].buffer), 0)
    /\ UNCHANGED <<blockedOnChannel, runnable, channelVars>>

\* Mutant: the parked sender is told true but its value is not buffered.
recvRefillDrops(c) ==
    /\ guest /\ stay
    /\ channels[c].buffer # <<>>
    /\ channels[c].sendQ # <<>>
    /\ channels' = [channels EXCEPT ![c] = Chan(@.capacity, Tail(@.buffer), Tail(@.sendQ), @.recvQ, @.closed)]
    /\ wakeChannelWaiters(<<Head(channels[c].sendQ)>>)
    /\ deliver(c, Head(channels[c].buffer), 1)
    /\ UNCHANGED channelVars

\* The room made in the buffer goes to the oldest parked sender.  (The code
\* also tests for a closed channel here: ChannelShape shows it is not.)
recvRefill(c) ==
    /\ guest /\ stay
    /\ channels[c].buffer # <<>>
    /\ channels[c].sendQ # <<>>
    /\ channels' = [channels EXCEPT ![c] =
          Chan(@.capacity, Append(Tail(@.buffer), Head(@.sendQ).value), Tail(@.sendQ),
               @.recvQ, @.closed)]
    /\ wakeChannelWaiters(<<Head(channels[c].sendQ)>>)
    /\ deliver(c, Head(channels[c].buffer), 1)
    /\ UNCHANGED channelVars

\* Mutant: a parked sender is served before the buffer.
recvSenderFirst(c) ==
    /\ guest /\ stay
    /\ channels[c].sendQ # <<>>
    /\ channels' = [channels EXCEPT ![c] = Chan(@.capacity, @.buffer, Tail(@.sendQ), @.recvQ, @.closed)]
    /\ wakeChannelWaiters(<<Head(channels[c].sendQ)>>)
    /\ deliver(c, Head(channels[c].sendQ).value, 1)
    /\ UNCHANGED channelVars

recvRendezvous(c) ==
    /\ guest /\ stay
    /\ channels[c].buffer = <<>>
    /\ channels[c].sendQ # <<>>
    /\ channels' = [channels EXCEPT ![c] = Chan(@.capacity, @.buffer, Tail(@.sendQ), @.recvQ, @.closed)]
    /\ wakeChannelWaiters(<<Head(channels[c].sendQ)>>)
    /\ deliver(c, Head(channels[c].sendQ).value, 1)
    /\ UNCHANGED channelVars

\* A receive on a closed and drained channel answers "closed" and changes
\* nothing.
recvParked(c) ==
    /\ guest
    /\ channels[c].buffer = <<>>
    /\ channels[c].sendQ = <<>>
    /\ ~channels[c].closed
    /\ channels' = [channels EXCEPT ![c] =
          Chan(@.capacity, @.buffer, @.sendQ, Append(@.recvQ, Caller), @.closed)]
    /\ blockedOnChannel' = blockedOnChannel + 1
    /\ UNCHANGED <<runnable, ledger, channelVars>>
    /\ suspend

channelClose(c) ==
    /\ guest /\ stay
    /\ ~channels[c].closed
    /\ channels' = [channels EXCEPT ![c] = Chan(@.capacity, @.buffer, <<>>, <<>>, TRUE)]
    /\ wakeChannelWaiters(channels[c].recvQ \o channels[c].sendQ)
    /\ UNCHANGED <<ledger, channelVars>>

-----------------------------------------------------------------------------
(* The microtasks, taken in order when no stack holds the thread.          *)

\* runWasmBytesAsync: start() has returned to the host, which kicks the
\* scheduler before any microtask runs.
kick ==
    /\ ~kicked /\ exec = None
    /\ kicked' = TRUE
    /\ UNCHANGED <<taskVars, runnable, current, topLevelDone, chanVars,
                   hostVars, exec>>
    /\ schedule(micro)

take(j) ==
    /\ kicked /\ exec = None
    /\ micro # <<>>
    /\ Head(micro).job = j
    /\ UNCHANGED kicked

\* runOne, which starts a body or resolves a parked promise.  The branches for
\* an empty queue and for a start entry whose task is not new are dead code
\* (StacksAccounted).
runStart ==
    /\ take("runOne")
    /\ runnable # <<>>
    /\ Head(runnable).kind = "start"
    /\ runnable' = Tail(runnable)
    /\ pumping' = FALSE
    /\ state' = [state EXCEPT ![Head(runnable).id] = "running"]
    /\ current' = Head(runnable).id
    /\ exec' = Head(runnable).who
    /\ micro' = Tail(micro)
    /\ UNCHANGED <<nextId, awaited, waiters, blockedOnTask, settled,
                   topLevelDone, chanVars, hostVars>>

\* Mutant: current is not set to the owner of the promise.
runResumeKeepsCurrent ==
    LET e == Head(runnable)
    IN  /\ take("runOne")
        /\ runnable # <<>>
        /\ e.kind = "resume"
        /\ runnable' = Tail(runnable)
        /\ pumping' = FALSE
        /\ micro' = Append(Tail(micro), ContJob(e.who, e.hops, e.throws))
        /\ UNCHANGED <<taskVars, current, settled, topLevelDone, chanVars,
                       hostVars, exec>>

runResume ==
    LET e == Head(runnable)
    IN  /\ take("runOne")
        /\ runnable # <<>>
        /\ e.kind = "resume"
        /\ runnable' = Tail(runnable)
        /\ pumping' = FALSE
        /\ current' = e.id
        /\ micro' = Append(Tail(micro), ContJob(e.who, e.hops, e.throws))
        /\ UNCHANGED <<taskVars, settled, topLevelDone, chanVars, hostVars, exec>>

promiseVars ==
    <<taskVars, runnable, current, pumping, settled, topLevelDone, chanVars, hostVars>>

\* One more microtask of a promise chain that ends in a suspended stack or in
\* a host handler.
hop ==
    /\ take("cont") \/ take("host")
    /\ Head(micro).hops > 1
    /\ micro' = Append(Tail(micro), [Head(micro) EXCEPT !.hops = @ - 1])
    /\ UNCHANGED <<promiseVars, exec>>

continueStack ==
    /\ take("cont")
    /\ Head(micro).hops = 1
    /\ ~Head(micro).throws
    /\ exec' = Head(micro).who
    /\ micro' = Tail(micro)
    /\ UNCHANGED promiseVars

\* A rejection cannot be caught by the guest: the stack unwinds and its own
\* promise rejects.
unwindStack ==
    /\ take("cont")
    /\ Head(micro).hops = 1
    /\ Head(micro).throws
    /\ micro' = Append(Tail(micro), SettleJob(Head(micro).who, TRUE))
    /\ UNCHANGED <<promiseVars, exec>>

\* Mutant: the waiters of the task are not forgotten.
wakeWaitersKeeps(t, failed) ==
    LET ws == waiters[t]
    IN  /\ UNCHANGED waiters
        /\ blockedOnTask' = blockedOnTask - Len(ws)
        /\ runnable' = runnable \o
              [i \in DOMAIN ws |->
                  ResumeEntry(ws[i], AsyncHops, failed /\ ~ws[i].tryMode)]

wakeWaiters(t, failed) ==
    LET ws == waiters[t]
    IN  /\ waiters' = [waiters EXCEPT ![t] = <<>>]
        /\ blockedOnTask' = blockedOnTask - Len(ws)
        /\ runnable' = runnable \o
              [i \in DOMAIN ws |->
                  ResumeEntry(ws[i], AsyncHops, failed /\ ~ws[i].tryMode)]

onComplete ==
    LET t == Head(micro).who
    IN  /\ take("settle")
        /\ ~Head(micro).throws
        /\ state' = [state EXCEPT ![t] = "done"]
        /\ wakeWaiters(t, FALSE)
        /\ topLevelDone' = (topLevelDone \/ t = TOP)
        /\ UNCHANGED <<nextId, awaited, current, chanVars, hostVars, exec>>
        /\ schedule(Tail(micro))

\* The failure of the top level is the program's outcome: nothing is woken
\* and schedule() is not called.
onFailTop ==
    /\ take("settle")
    /\ Head(micro).throws
    /\ Head(micro).who = TOP
    /\ state' = [state EXCEPT ![TOP] = "failed"]
    /\ settled' = IF settled = "no" THEN "topFailed" ELSE settled
    /\ micro' = Tail(micro)
    /\ UNCHANGED <<nextId, awaited, waiters, blockedOnTask, runnable, current,
                   pumping, topLevelDone, chanVars, hostVars, exec>>

\* Mutant: schedule() is forgotten.
onFailTaskStops ==
    LET t == Head(micro).who
    IN  /\ take("settle")
        /\ Head(micro).throws
        /\ t # TOP
        /\ state' = [state EXCEPT ![t] = "failed"]
        /\ wakeWaiters(t, TRUE)
        /\ micro' = Tail(micro)
        /\ UNCHANGED <<nextId, awaited, current, topLevelDone, chanVars,
                       hostVars, exec, pumping, settled>>

onFailTask ==
    LET t == Head(micro).who
    IN  /\ take("settle")
        /\ Head(micro).throws
        /\ t # TOP
        /\ state' = [state EXCEPT ![t] = "failed"]
        /\ wakeWaiters(t, TRUE)
        /\ UNCHANGED <<nextId, awaited, current, topLevelDone, chanVars,
                       hostVars, exec>>
        /\ schedule(Tail(micro))

\* The host operation of w is over: its stack becomes runnable.
hostDone(w, throws) ==
    /\ pendingHost' = pendingHost - 1
    /\ runnable' = Append(runnable, ResumeEntry(w, DirectHops, throws))
    /\ UNCHANGED <<taskVars, current, topLevelDone, chanVars, yieldBudget,
                   exec, kicked>>

hostHandler ==
    /\ take("host")
    /\ Head(micro).hops = 1
    /\ hostDone(Head(micro), Head(micro).throws)
    /\ UNCHANGED <<timers, hosts>>
    /\ schedule(Tail(micro))

-----------------------------------------------------------------------------
(* Macrotasks, taken when the microtask queue is empty.                    *)

Idle == kicked /\ exec = None /\ micro = <<>>

timerFire(w) ==
    /\ Idle
    /\ timers' = timers \ {w}
    /\ hostDone(w, FALSE)
    /\ UNCHANGED hosts
    /\ schedule(micro)

hostSettle(w, throws) ==
    /\ Idle
    /\ hosts' = hosts \ {w}
    /\ hostDone(w, throws)
    /\ UNCHANGED timers
    /\ schedule(micro)

-----------------------------------------------------------------------------
\* The program holds handles of what it has created only.
Handles == 1..(nextId - 1)
ChannelHandles == 1..(nextChannelId - 1)

\* Calls after which the thread goes to whom the scheduler picks.
Parks ==
    \/ \E tid \in Handles, tryMode \in BOOLEAN : awaitParked(tid, tryMode)
    \/ yieldFast \/ yieldHop
    \/ hostDeferred
    \/ \E throws \in BOOLEAN : hostImmediate(throws) \/ finish(throws)

Calls ==
    \/ taskCreate
    \/ \E tid \in Handles, tryMode \in BOOLEAN : awaitSettled(tid, tryMode)
    \/ \E cap \in 0..MaxCapacity : channelNew(cap)
    \/ \E c \in ChannelHandles :
          \/ sendHandoff(c) \/ sendBuffered(c) \/ sendParked(c)
          \/ recvBuffered(c) \/ recvRefill(c) \/ recvRendezvous(c) \/ recvParked(c)
          \/ channelClose(c)

Microtask ==
    \/ kick
    \/ runStart \/ runResume
    \/ hop \/ continueStack \/ unwindStack
    \/ onComplete \/ onFailTop \/ onFailTask
    \/ hostHandler

TimerFires == \E w \in timers : timerFire(w)
HostSettles == \E w \in hosts, throws \in BOOLEAN : hostSettle(w, throws)

Next == Parks \/ Calls \/ Microtask \/ TimerFires \/ HostSettles

Spec == Init /\ [][Next]_vars

-----------------------------------------------------------------------------
(* Properties.                                                             *)

WaiterType == [id : Ids, who : Ids]
AwaiterType == [id : Ids, who : Ids, tryMode : BOOLEAN]
Values == 1..MaxSends
SenderType == [id : Ids, who : Ids, value : Values]
EntryType == [kind : {"start", "resume"}, id : Ids, who : Ids,
              hops : 1..AsyncHops, throws : BOOLEAN]
StackJobType == [job : {"cont", "settle", "host"}, id : Ids, who : Ids,
                 hops : 1..HostHops, throws : BOOLEAN]
JobType == {RunOneJob} \cup StackJobType
ChannelType == [capacity : 0..MaxCapacity, buffer : Seq(Values),
                sendQ : Seq(SenderType), recvQ : Seq(WaiterType), closed : BOOLEAN]
LedgerType == [sent : 0..MaxSends, accepted : Nat, delivered : Nat,
               lastGot : 0..MaxSends]

\* Every variable has its type; in particular no promise chain runs out of
\* hops and every id is one of a task (runtime.mjs:779).
Typed ==
    /\ nextId \in 1..(MaxTasks + 1)
    /\ state \in [Ids -> {"absent", "new", "running", "done", "failed"}]
    /\ awaited \in [Ids -> BOOLEAN]
    /\ waiters \in [Ids -> Seq(AwaiterType)]
    /\ runnable \in Seq(EntryType)
    /\ current \in Ids
    /\ pumping \in BOOLEAN /\ topLevelDone \in BOOLEAN /\ kicked \in BOOLEAN
    /\ blockedOnTask \in Int /\ blockedOnChannel \in Int /\ pendingHost \in Int
    /\ settled \in {"no", "resolved", "deadlock", "unawaited", "topFailed"}
    /\ nextChannelId \in 1..(MaxChannels + 1)
    /\ channels \in [ChannelIds -> ChannelType]
    /\ timers \subseteq WaiterType
    /\ hosts \subseteq WaiterType
    /\ yieldBudget \in 0..MaxFastYields
    /\ micro \in Seq(JobType)
    /\ exec \in Ids \cup {None}
    /\ ledger \in [ChannelIds -> LedgerType]

\* The type invariant.  A counter counts (runtime.mjs:786-788): each of the
\* places that park a stack, and of those that wake one, adjusts it.
TypeOK == Typed /\ {blockedOnTask, blockedOnChannel, pendingHost} \subseteq Nat

\* "When a task's Wasm code runs, scheduler.current is its id"
\* (runtime.mjs:763): the label a parking import reads is that of its caller.
CurrentIsOwner == exec # None => current = exec

\* Where the stack t is: on the thread, in a queue, parked.
At(q, t) == {i \in DOMAIN q : q[i].who = t}

Places(t) ==
    ({"thread"} \X ({exec} \cap {t}))
    \cup ({"micro"} \X At(micro, t))
    \cup ({"runnable"} \X At(runnable, t))
    \cup ({"timers"} \X {w \in timers : w.who = t})
    \cup ({"hosts"} \X {w \in hosts : w.who = t})
    \cup (UNION {{"waiters"} \X {u} \X At(waiters[u], t) : u \in Ids})
    \cup (UNION {{"sendQ"} \X {c} \X At(channels[c].sendQ, t) : c \in ChannelIds})
    \cup (UNION {{"recvQ"} \X {c} \X At(channels[c].recvQ, t) : c \in ChannelIds})

\* No wakeup is lost and none happens twice: a task that has been created and
\* has not settled is in exactly one place, from which it will be resumed; a
\* settled one is in none (wakeWaiters, wakeChannelWaiter, host handlers).
OnePlace ==
    \A t \in Ids :
        Cardinality(Places(t)) = IF state[t] \in {"new", "running"} THEN 1 ELSE 0

\* No work is left that could put a stack back on the thread.
Quiet ==
    /\ exec = None
    /\ micro = <<>> /\ runnable = <<>>
    /\ timers = {} /\ hosts = {}

\* "remaining tasks are all blocked" (runtime.mjs:834): when checkQuiescence
\* has reported a deadlock, no stack can run any more.
DeadlockIsReal == settled = "deadlock" => Quiet

\* "drain spawned-but-unawaited tasks before exit" (runtime.mjs:922): when the
\* program's promise has resolved every task has ended, and no failure was
\* swallowed that nobody awaited.
DrainedBeforeExit ==
    settled = "resolved" =>
        /\ Quiet
        /\ \A t \in Ids : \/ state[t] \in {"absent", "done"}
                          \/ state[t] = "failed" /\ awaited[t]

\* The program's promise is settled when nothing is left that could do it:
\* runWasmBytesAsync does not wait for ever.
NoSilentHang == kicked /\ Quiet => settled # "no"

\* The counters that checkQuiescence trusts count what they say they count.
CountersExact ==
    /\ blockedOnTask = Cardinality(UNION {{u} \X DOMAIN waiters[u] : u \in Ids})
    /\ blockedOnChannel =
          Cardinality(UNION {{c} \X DOMAIN (channels[c].sendQ \o channels[c].recvQ) :
                             c \in ChannelIds})
    /\ pendingHost = Cardinality(timers) + Cardinality(hosts)
          + Cardinality({i \in DOMAIN micro : micro[i].job = "host"})

\* runOne never finds the run queue empty, and it is queued once when pumping
\* is set and not otherwise.
PumpHasWork ==
    /\ pumping => runnable # <<>> /\ \E i \in DOMAIN micro : micro[i] = RunOneJob
    /\ \A i \in DOMAIN micro : micro[i] = RunOneJob =>
          pumping /\ \A j \in DOMAIN micro : micro[j] = RunOneJob => i = j

\* Every stack is accounted for: none is lost or resumed twice (OnePlace), the
\* counters that quiescence is decided from are exact (CountersExact), and a
\* queued runOne has work (PumpHasWork), whatever wakes what.
StacksAccounted == OnePlace /\ CountersExact /\ PumpHasWork

ShapeOK(cap, buffer, sendQ, recvQ, closed) ==
    /\ Len(buffer) <= cap
    /\ sendQ # <<>> => Len(buffer) = cap
    /\ recvQ # <<>> => buffer = <<>> /\ sendQ = <<>>
    /\ closed => sendQ = <<>> /\ recvQ = <<>>

\* The queues of a channel: a sender waits only behind a full buffer, a
\* receiver only before an empty channel, and nobody waits on a closed one
\* (channelSend, channelRecv, channelClose).
ChannelShape ==
    \A c \in ChannelIds :
        LET ch == channels[c]
        IN  ShapeOK(ch.capacity, ch.buffer, ch.sendQ, ch.recvQ, ch.closed)

\* The values of the sequences are between lo and hi and increasing.
FIFO(buffer, sendQ, lo, hi) ==
    /\ \A i \in DOMAIN buffer :
          /\ lo < buffer[i] /\ buffer[i] <= hi
          /\ \A j \in DOMAIN buffer : i < j => buffer[i] < buffer[j]
          /\ \A j \in DOMAIN sendQ : buffer[i] < sendQ[j].value
    /\ \A i \in DOMAIN sendQ :
          /\ lo < sendQ[i].value /\ sendQ[i].value <= hi
          /\ \A j \in DOMAIN sendQ : i < j => sendQ[i].value < sendQ[j].value

\* Values leave a channel in the order of the sends: what is buffered, then
\* what parked senders hold, is increasing, and later than what was received
\* (channelRecv takes the buffer before the senders, and both from the front).
ChannelFIFO ==
    \A c \in ChannelIds :
        FIFO(channels[c].buffer, channels[c].sendQ, ledger[c].lastGot, ledger[c].sent)

\* A value whose send answered true is received exactly once or is still in
\* the buffer: none is lost, duplicated, or received after a false
\* (channelSend, channelRecv, channelClose).
ChannelConservation ==
    \A c \in ChannelIds :
        ledger[c].accepted = ledger[c].delivered + Len(channels[c].buffer)

-----------------------------------------------------------------------------
(* Liveness.  The event loop runs its microtasks, and a due timer at one of *)
(* the turns it gets; the guest does not compute, or await settled tasks,   *)
(* for ever.  Host operations may never complete.                           *)

TimerOf(t) == \E w \in timers : w.who = t /\ timerFire(w)

FairSpec ==
    /\ Spec
    /\ WF_vars(Microtask)
    /\ \A t \in Ids : SF_vars(TimerOf(t))
    /\ SF_vars(Parks)

\* A spawned task is eventually started, unless the program has ended first.
EveryTaskStarts ==
    \A t \in Ids : state[t] = "new" ~> (state[t] # "new" \/ settled # "no")

\* YIELD_MACROTASK_MS: yielding does not starve the timers of the host.
TimersFire ==
    \A t \in Ids : (\E w \in timers : w.who = t) ~> (\A w \in timers : w.who # t)

=============================================================================
