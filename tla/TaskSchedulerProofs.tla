------------------------ MODULE TaskSchedulerProofs ------------------------
(* Theorems about TaskScheduler, for every value of its constants. *)
EXTENDS TaskScheduler, TLAPS, FiniteSetTheorems

\* Resolving the promises of a sequence of waiters gives resume entries
\* (enqueueResume, wakeWaiters).
LEMMA ResumeType ==
    ASSUME NEW w, w.id \in Ids, w.who \in Ids, NEW n \in 1..AsyncHops,
           NEW th \in BOOLEAN
    PROVE  ResumeEntry(w, n, th) \in EntryType
BY DEF ResumeEntry, EntryType

\* The types of what schedule() assigns.
LEMMA ScheduleType ==
    ASSUME Typed, NEW m \in Seq(JobType), schedule(m)
    PROVE  /\ micro' \in Seq(JobType)
           /\ pumping' \in BOOLEAN
           /\ settled' \in {"no", "resolved", "deadlock", "unawaited", "topFailed"}
<1>1. Append(m, RunOneJob) \in Seq(JobType)
  BY DEF JobType
<1>2. micro' \in {m, Append(m, RunOneJob)}
  BY DEF schedule
<1>3. pumping' \in BOOLEAN
  BY Zenon DEF schedule, Typed
<1>4. settled' \in {"no", "resolved", "deadlock", "unawaited", "topFailed"}
  <2>1. settled' = settled \/ checkQuiescence
    BY Zenon DEF schedule
  <2>2. ASSUME checkQuiescence
        PROVE  settled' \in {settled, "deadlock", "no", "unawaited", "resolved"}
    BY <2>2, Zenon DEF checkQuiescence
  <2> QED
    BY <2>1, <2>2 DEF Typed
<1> QED
  BY <1>1, <1>2, <1>3, <1>4

\* A function on 1..n is a sequence.
LEMMA FunctionSeq ==
    ASSUME NEW S, NEW n \in Nat, NEW f \in [1..n -> S]
    PROVE  f \in Seq(S)
OBVIOUS

LEMMA AppendType ==
    ASSUME NEW S, NEW q \in Seq(S), NEW e \in S
    PROVE  Append(q, e) \in Seq(S)
OBVIOUS

\* wakeChannelWaiter keeps the run queue a sequence of entries.
LEMMA WakeChannelType ==
    ASSUME Typed, NEW W, NEW ws \in Seq(W),
           \A w \in W : w.id \in Ids /\ w.who \in Ids,
           wakeChannelWaiters(ws)
    PROVE  runnable' \in Seq(EntryType) /\ blockedOnChannel' \in Int
<1> DEFINE f == [i \in DOMAIN ws |-> ResumeEntry(ws[i], DirectHops, FALSE)]
<1>1. Len(ws) \in Nat /\ DOMAIN ws = 1..Len(ws)
  OBVIOUS
<1>2. \A i \in DOMAIN ws : ResumeEntry(ws[i], DirectHops, FALSE) \in EntryType
  BY DEF ResumeEntry, EntryType, DirectHops, AsyncHops
<1>3. f \in [1..Len(ws) -> EntryType]
  BY <1>1, <1>2, Zenon
<1>4. f \in Seq(EntryType)
  BY <1>1, <1>3, FunctionSeq, Zenon
<1>5. runnable \o f \in Seq(EntryType)
  BY <1>4 DEF Typed
<1>6. runnable' = runnable \o f /\ blockedOnChannel' = blockedOnChannel - Len(ws)
  BY Zenon DEF wakeChannelWaiters
<1> HIDE DEF f
<1> QED
  BY <1>1, <1>5, <1>6 DEF Typed

\* wakeWaiters keeps the waiters and the run queue typed.
LEMMA WakeWaitersType ==
    ASSUME Typed, NEW t \in Ids, NEW failed \in BOOLEAN, wakeWaiters(t, failed)
    PROVE  /\ runnable' \in Seq(EntryType)
           /\ waiters' \in [Ids -> Seq(AwaiterType)]
           /\ blockedOnTask' \in Int
<1> DEFINE ws == waiters[t]
           th(i) == failed /\ ~ws[i].tryMode
           f == [i \in DOMAIN ws |-> ResumeEntry(ws[i], AsyncHops, th(i))]
<1>1. ws \in Seq(AwaiterType)
  BY DEF Typed
<1>2. Len(ws) \in Nat /\ DOMAIN ws = 1..Len(ws)
  BY <1>1
<1>3. \A i \in DOMAIN ws : ResumeEntry(ws[i], AsyncHops, th(i)) \in EntryType
  <2> TAKE i \in DOMAIN ws
  <2>1. ws[i] \in AwaiterType
    BY <1>1, <1>2
  <2>2. th(i) \in BOOLEAN
    BY Zenon
  <2>3. AsyncHops \in 1..AsyncHops
    BY DEF AsyncHops
  <2>4. ws[i].id \in Ids /\ ws[i].who \in Ids
    BY <2>1 DEF AwaiterType
  <2> QED
    BY <2>2, <2>3, <2>4, ResumeType, Zenon
<1>4. f \in [1..Len(ws) -> EntryType]
  BY <1>2, <1>3, Zenon
<1>5. f \in Seq(EntryType)
  BY <1>2, <1>4, FunctionSeq, Zenon
<1>6. runnable \o f \in Seq(EntryType)
  BY <1>5 DEF Typed
<1>7. /\ runnable' = runnable \o f
      /\ waiters' = [waiters EXCEPT ![t] = <<>>]
      /\ blockedOnTask' = blockedOnTask - Len(ws)
  BY Zenon DEF wakeWaiters
<1> QED
  BY <1>2, <1>6, <1>7 DEF Typed


\* What a guest call, a call that returns at once and a microtask leave alone.
LEMMA GuestType ==
    ASSUME Typed, guest
    PROVE  exec \in Ids /\ current' = current
           /\ topLevelDone' = topLevelDone /\ kicked' = kicked
BY DEF Typed, guest

LEMMA StayType ==
    ASSUME stay
    PROVE  micro' = micro /\ pumping' = pumping /\ settled' = settled /\ exec' = exec
BY DEF stay, loopVars

\* The jobs the actions queue are jobs.
LEMMA JobTypes ==
    ASSUME NEW t \in Ids, NEW id \in Ids, NEW th \in BOOLEAN
    PROVE  /\ \A n \in 1..AsyncHops : ContJob(t, n, th) \in JobType
           /\ SettleJob(t, th) \in JobType
           /\ Job("host", id, t, HostHops, th) \in JobType
BY DEF ContJob, SettleJob, Job, JobType, StackJobType, AsyncHops, HostHops

\* A microtask other than runOne names a stack.
LEMMA TakeType ==
    ASSUME Typed, NEW j \in {"cont", "settle", "host"}, take(j)
    PROVE  /\ Head(micro) \in StackJobType
           /\ Tail(micro) \in Seq(JobType)
           /\ kicked' = kicked
<1>1. micro \in Seq(JobType) /\ micro # <<>> /\ Head(micro).job = j /\ kicked' = kicked
  BY DEF take, Typed
<1>2. Head(micro) \in JobType /\ Tail(micro) \in Seq(JobType)
  BY <1>1
<1>3. Head(micro) # RunOneJob
  BY <1>1 DEF RunOneJob, Job
<1> QED
  BY <1>1, <1>2, <1>3 DEF JobType

LEMMA InitType == Init => Typed
<1> SUFFICES ASSUME Init PROVE Typed
  OBVIOUS
<1>1. EmptyChannel(0) \in ChannelType
  BY BoundsAssumption DEF EmptyChannel, Chan, ChannelType
<1>2. Log(0, 0, 0, 0) \in LedgerType
  BY BoundsAssumption DEF Log, LedgerType
<1>3. awaited \in [Ids -> BOOLEAN]
  BY DEF Init
<1>4. pumping \in BOOLEAN /\ topLevelDone \in BOOLEAN /\ kicked \in BOOLEAN
  BY DEF Init
<1> QED
  BY <1>1, <1>2, <1>3, <1>4, BoundsAssumption DEF Init, Typed, Ids, TOP


\* Handles name tasks and channels that exist.
LEMMA HandleType ==
    ASSUME Typed
    PROVE  Handles \subseteq Ids /\ ChannelHandles \subseteq ChannelIds
BY BoundsAssumption, SMTT(30) DEF Typed, Handles, ChannelHandles, Ids, ChannelIds

LEMMA TaskCallsType ==
    ASSUME Typed,
           \/ taskCreate
           \/ \E tid \in Handles, tryMode \in BOOLEAN :
                 awaitSettled(tid, tryMode) \/ awaitParked(tid, tryMode)
           \/ \E throws \in BOOLEAN : finish(throws)
    PROVE  Typed'
<1>1. CASE taskCreate
  <2>1. nextId \in Ids
    BY <1>1, BoundsAssumption DEF taskCreate, Typed, Ids
  <2>2. StartEntry(nextId) \in EntryType
    BY <2>1 DEF StartEntry, EntryType, AsyncHops
  <2>3. runnable' \in Seq(EntryType)
    BY <1>1, <2>2 DEF taskCreate, Typed
  <2>4. state' \in [Ids -> {"absent", "new", "running", "done", "failed"}]
    BY <1>1 DEF taskCreate, Typed
  <2>5. nextId' \in 1..(MaxTasks + 1)
    BY <1>1, BoundsAssumption DEF taskCreate, Typed
  <2> QED
    BY <1>1, <2>3, <2>4, <2>5, GuestType, StayType
    DEF taskCreate, Typed, chanVars, hostVars
<1>2. ASSUME NEW tid \in Handles, NEW tryMode \in BOOLEAN, awaitSettled(tid, tryMode)
      PROVE  Typed'
  <2>1. tid \in Ids
    BY HandleType
  <2>2. (state[tid] = "failed" /\ ~tryMode) \in BOOLEAN
    BY Zenon
  <2>3. exec \in Ids
    BY <1>2, GuestType DEF awaitSettled
  <2>4. ContJob(exec, DirectHops, state[tid] = "failed" /\ ~tryMode) \in JobType
    <3>1. DirectHops \in 1..AsyncHops
      BY DEF DirectHops, AsyncHops
    <3> QED
      BY <2>2, <2>3, <3>1, JobTypes, Zenon
  <2>5. micro' \in Seq(JobType)
    BY <1>2, <2>4 DEF awaitSettled, Typed
  <2>6. awaited' \in [Ids -> BOOLEAN]
    BY <1>2 DEF awaitSettled, Typed
  <2> QED
    BY <1>2, <2>5, <2>6, GuestType DEF awaitSettled, Typed, chanVars, hostVars
<1>3. ASSUME NEW tid \in Handles, NEW tryMode \in BOOLEAN, awaitParked(tid, tryMode)
      PROVE  Typed'
  <2>1. tid \in Ids /\ exec \in Ids /\ current \in Ids
    BY <1>3, HandleType, GuestType DEF awaitParked, Typed
  <2>2. [id |-> current, who |-> exec, tryMode |-> tryMode] \in AwaiterType
    BY <2>1 DEF AwaiterType
  <2>3. waiters' \in [Ids -> Seq(AwaiterType)]
    BY <1>3, <2>1, <2>2 DEF awaitParked, Typed
  <2>4. awaited' \in [Ids -> BOOLEAN]
    BY <1>3 DEF awaitParked, Typed
  <2>5. /\ micro' \in Seq(JobType) /\ pumping' \in BOOLEAN
        /\ settled' \in {"no", "resolved", "deadlock", "unawaited", "topFailed"}
    BY <1>3, ScheduleType DEF awaitParked, suspend, Typed
  <2> QED
    BY <1>3, <2>3, <2>4, <2>5, GuestType
    DEF awaitParked, suspend, Typed, chanVars, hostVars
<1>4. ASSUME NEW throws \in BOOLEAN, finish(throws)
      PROVE  Typed'
  <2>1. SettleJob(exec, throws) \in JobType
    BY <1>4, GuestType, JobTypes DEF finish
  <2>2. micro' \in Seq(JobType)
    BY <1>4, <2>1 DEF finish, Typed
  <2> QED
    BY <1>4, <2>2, GuestType DEF finish, Typed, taskVars, chanVars, hostVars
<1> QED
  BY <1>1, <1>2, <1>3, <1>4

LEMMA HostCallsType ==
    ASSUME Typed,
           \/ yieldFast \/ yieldHop \/ hostDeferred
           \/ \E throws \in BOOLEAN : hostImmediate(throws)
    PROVE  Typed'
<1>1. ASSUME guest PROVE Caller \in WaiterType
  BY <1>1, GuestType DEF Caller, WaiterType, Typed
<1>2. CASE yieldFast
  <2>1. ResumeEntry(Caller, DirectHops, FALSE) \in EntryType
    BY <1>1, <1>2 DEF yieldFast, ResumeEntry, WaiterType, EntryType, DirectHops, AsyncHops
  <2>2. runnable' \in Seq(EntryType)
    <3>1. runnable' = Append(runnable, ResumeEntry(Caller, DirectHops, FALSE))
      BY <1>2, Zenon DEF yieldFast
    <3>2. runnable \in Seq(EntryType)
      BY DEF Typed
    <3> QED
      BY <2>1, <3>1, <3>2, AppendType, Zenon
  <2>3. /\ micro' \in Seq(JobType) /\ pumping' \in BOOLEAN
        /\ settled' \in {"no", "resolved", "deadlock", "unawaited", "topFailed"}
    BY <1>2, ScheduleType DEF yieldFast, suspend, Typed
  <2>4. yieldBudget' \in 0..MaxFastYields
    BY <1>2, BoundsAssumption DEF yieldFast, Typed
  <2> QED
    BY <1>2, <2>2, <2>3, <2>4, GuestType
    DEF yieldFast, suspend, Typed, taskVars, chanVars
<1>3. CASE yieldHop
  <2>1. timers' \subseteq WaiterType
    BY <1>1, <1>3 DEF yieldHop, Typed
  <2>2. yieldBudget' \in 0..MaxFastYields
    BY <1>3, BoundsAssumption DEF yieldHop
  <2> QED
    BY <1>3, <2>1, <2>2, GuestType DEF yieldHop, Typed, taskVars, chanVars
<1>4. CASE hostDeferred
  <2>1. hosts' \subseteq WaiterType
    BY <1>1, <1>4 DEF hostDeferred, Typed
  <2>2. /\ micro' \in Seq(JobType) /\ pumping' \in BOOLEAN
        /\ settled' \in {"no", "resolved", "deadlock", "unawaited", "topFailed"}
    BY <1>4, ScheduleType DEF hostDeferred, suspend, Typed
  <2> QED
    BY <1>4, <2>1, <2>2, GuestType
    DEF hostDeferred, suspend, Typed, taskVars, chanVars
<1>5. ASSUME NEW throws \in BOOLEAN, hostImmediate(throws)
      PROVE  Typed'
  <2>1. Job("host", current, exec, HostHops, throws) \in JobType
    BY <1>5, GuestType, JobTypes DEF hostImmediate, Typed
  <2>2. Append(micro, Job("host", current, exec, HostHops, throws)) \in Seq(JobType)
    BY <2>1 DEF Typed
  <2>3. /\ micro' \in Seq(JobType) /\ pumping' \in BOOLEAN
        /\ settled' \in {"no", "resolved", "deadlock", "unawaited", "topFailed"}
    BY <1>5, <2>2, ScheduleType DEF hostImmediate
  <2> QED
    BY <1>5, <2>3, GuestType DEF hostImmediate, Typed, taskVars, chanVars
<1> QED
  BY <1>2, <1>3, <1>4, <1>5


\* Updating the record of one channel, or its history, keeps the types.
LEMMA ChannelUpdate ==
    ASSUME Typed, NEW c \in ChannelIds, NEW cap \in 0..MaxCapacity,
           NEW b \in Seq(Values), NEW sq \in Seq(SenderType),
           NEW rq \in Seq(WaiterType), NEW cl \in BOOLEAN,
           channels' = [channels EXCEPT ![c] = Chan(cap, b, sq, rq, cl)]
    PROVE  channels' \in [ChannelIds -> ChannelType]
<1>1. Chan(cap, b, sq, rq, cl) \in ChannelType
  BY DEF Chan, ChannelType
<1> QED
  BY <1>1 DEF Typed

LEMMA LedgerUpdate ==
    ASSUME Typed, NEW c \in ChannelIds, NEW a \in 0..MaxSends, NEW b \in Nat,
           NEW d \in Nat, NEW e \in 0..MaxSends,
           ledger' = [ledger EXCEPT ![c] = Log(a, b, d, e)]
    PROVE  ledger' \in [ChannelIds -> LedgerType]
<1>1. Log(a, b, d, e) \in LedgerType
  BY DEF Log, LedgerType
<1> QED
  BY <1>1 DEF Typed

LEMMA ChannelCallsType ==
    ASSUME Typed, NEW c \in ChannelIds,
           \/ \E cap \in 0..MaxCapacity : channelNew(cap)
           \/ sendHandoff(c) \/ sendBuffered(c) \/ sendParked(c)
           \/ recvBuffered(c) \/ recvRefill(c) \/ recvRendezvous(c) \/ recvParked(c)
           \/ channelClose(c)
    PROVE  Typed'
<1> DEFINE ch == channels[c]
<1>t. /\ ch.capacity \in 0..MaxCapacity /\ ch.buffer \in Seq(Values)
      /\ ch.sendQ \in Seq(SenderType) /\ ch.recvQ \in Seq(WaiterType)
      /\ ch.closed \in BOOLEAN
  BY DEF Typed, ChannelType
<1>l. /\ ledger[c].sent \in 0..MaxSends /\ ledger[c].accepted \in Nat
      /\ ledger[c].delivered \in Nat /\ ledger[c].lastGot \in 0..MaxSends
  BY DEF Typed, LedgerType
<1>s. ASSUME canSend(c) PROVE ledger[c].sent + 1 \in Values
  BY <1>l, <1>s, BoundsAssumption DEF canSend, Values
<1>v. \A v \in Values : v \in 0..MaxSends
  BY DEF Values
<1>w. \A w \in WaiterType \cup SenderType : w.id \in Ids /\ w.who \in Ids
  BY DEF WaiterType, SenderType
<1>1. ASSUME NEW cap \in 0..MaxCapacity, channelNew(cap)
      PROVE  Typed'
  <2>1. EmptyChannel(cap) \in ChannelType
    BY DEF EmptyChannel, Chan, ChannelType
  <2>2. channels' \in [ChannelIds -> ChannelType]
    BY <1>1, <2>1 DEF channelNew, Typed
  <2>3. nextChannelId' \in 1..(MaxChannels + 1)
    BY <1>1, BoundsAssumption DEF channelNew, Typed
  <2> QED
    BY <1>1, <2>2, <2>3, GuestType, StayType
    DEF channelNew, Typed, taskVars, hostVars
<1>2. CASE sendHandoff(c)
  <2>1. Head(ch.recvQ) \in WaiterType /\ Tail(ch.recvQ) \in Seq(WaiterType)
    BY <1>2, <1>t DEF sendHandoff
  <2>2. runnable' \in Seq(EntryType) /\ blockedOnChannel' \in Int
    <3>1. <<Head(ch.recvQ)>> \in Seq(WaiterType)
      BY <2>1
    <3>2. wakeChannelWaiters(<<Head(ch.recvQ)>>)
      BY <1>2, Zenon DEF sendHandoff
    <3> QED
      BY <1>w, <3>1, <3>2, WakeChannelType
  <2>3. channels' \in [ChannelIds -> ChannelType]
    <3>1. channels' = [channels EXCEPT ![c] = Chan(ch.capacity, ch.buffer, ch.sendQ, Tail(ch.recvQ), ch.closed)]
      BY <1>2, Zenon DEF sendHandoff
    <3> QED
      BY <1>t, <2>1, <3>1, ChannelUpdate, Zenon
  <2>4. ledger' \in [ChannelIds -> LedgerType]
    <3>1. ledger' = [ledger EXCEPT ![c] = Log(ledger[c].sent + 1, ledger[c].accepted + 1, ledger[c].delivered + 1, ledger[c].sent + 1)]
      BY <1>2, Zenon DEF sendHandoff
    <3>2. ledger[c].sent + 1 \in 0..MaxSends /\ ledger[c].accepted + 1 \in Nat /\ ledger[c].delivered + 1 \in Nat /\ ledger[c].sent + 1 \in 0..MaxSends
      BY <1>l, <1>v, <1>s, <1>2 DEF sendHandoff
    <3> QED
      BY <3>1, <3>2, LedgerUpdate, Zenon
  <2> QED
    BY <1>2, <2>2, <2>3, <2>4, GuestType, StayType
    DEF sendHandoff, canSend, channelVars, Typed, taskVars, hostVars
<1>3. CASE sendBuffered(c)
  <2>1. ledger[c].sent + 1 \in Values
    BY <1>3, <1>s DEF sendBuffered
  <2>4. Append(ch.buffer, ledger[c].sent + 1) \in Seq(Values)
    BY <1>t, <2>1
  <2>2. channels' \in [ChannelIds -> ChannelType]
    <3>1. channels' = [channels EXCEPT ![c] = Chan(ch.capacity, Append(ch.buffer, ledger[c].sent + 1), ch.sendQ, ch.recvQ, ch.closed)]
      BY <1>3, Zenon DEF sendBuffered
    <3> QED
      BY <1>t, <2>1, <2>4, <3>1, ChannelUpdate, Zenon
  <2>3. ledger' \in [ChannelIds -> LedgerType]
    <3>1. ledger' = [ledger EXCEPT ![c] = Log(ledger[c].sent + 1, ledger[c].accepted + 1, ledger[c].delivered, ledger[c].lastGot)]
      BY <1>3, Zenon DEF sendBuffered
    <3>2. ledger[c].sent + 1 \in 0..MaxSends /\ ledger[c].accepted + 1 \in Nat /\ ledger[c].delivered \in Nat /\ ledger[c].lastGot \in 0..MaxSends
      BY <1>l, <1>v, <2>1
    <3> QED
      BY <3>1, <3>2, LedgerUpdate, Zenon
  <2> QED
    BY <1>3, <2>2, <2>3, GuestType, StayType
    DEF sendBuffered, canSend, channelVars, Typed, taskVars, hostVars
<1>4. CASE sendParked(c)
  <2>1. ledger[c].sent + 1 \in Values
    BY <1>4, <1>s DEF sendParked
  <2>2. Sender(ledger[c].sent + 1) \in SenderType
    BY <1>4, <2>1, GuestType DEF sendParked, canSend, Sender, SenderType, Typed
  <2>6. Append(ch.sendQ, Sender(ledger[c].sent + 1)) \in Seq(SenderType)
    BY <1>t, <2>2
  <2>3. channels' \in [ChannelIds -> ChannelType]
    <3>1. channels' = [channels EXCEPT ![c] = Chan(ch.capacity, ch.buffer, Append(ch.sendQ, Sender(ledger[c].sent + 1)), ch.recvQ, ch.closed)]
      BY <1>4, Zenon DEF sendParked
    <3> QED
      BY <1>t, <2>6, <3>1, ChannelUpdate, Zenon
  <2>4. ledger' \in [ChannelIds -> LedgerType]
    <3>1. ledger' = [ledger EXCEPT ![c] = Log(ledger[c].sent + 1, ledger[c].accepted, ledger[c].delivered, ledger[c].lastGot)]
      BY <1>4, Zenon DEF sendParked
    <3>2. ledger[c].sent + 1 \in 0..MaxSends /\ ledger[c].accepted \in Nat /\ ledger[c].delivered \in Nat /\ ledger[c].lastGot \in 0..MaxSends
      BY <1>l, <1>v, <2>1
    <3> QED
      BY <3>1, <3>2, LedgerUpdate, Zenon
  <2>5. /\ micro' \in Seq(JobType) /\ pumping' \in BOOLEAN
        /\ settled' \in {"no", "resolved", "deadlock", "unawaited", "topFailed"}
    BY <1>4, ScheduleType DEF sendParked, suspend, Typed
  <2> QED
    BY <1>4, <2>3, <2>4, <2>5, GuestType, SMTT(30)
    DEF sendParked, canSend, suspend, channelVars, Typed, taskVars, hostVars
<1>5. CASE recvBuffered(c)
  <2>1. Head(ch.buffer) \in Values /\ Tail(ch.buffer) \in Seq(Values)
    BY <1>5, <1>t DEF recvBuffered
  <2>2. channels' \in [ChannelIds -> ChannelType]
    <3>1. channels' = [channels EXCEPT ![c] = Chan(ch.capacity, Tail(ch.buffer), ch.sendQ, ch.recvQ, ch.closed)]
      BY <1>5, Zenon DEF recvBuffered
    <3> QED
      BY <1>t, <2>1, <3>1, ChannelUpdate, Zenon
  <2>3. ledger' \in [ChannelIds -> LedgerType]
    <3>1. ledger' = [ledger EXCEPT ![c] = Log(ledger[c].sent, ledger[c].accepted + 0, ledger[c].delivered + 1, Head(ch.buffer))]
      BY <1>5, Zenon DEF recvBuffered, deliver
    <3>2. ledger[c].sent \in 0..MaxSends /\ ledger[c].accepted + 0 \in Nat /\ ledger[c].delivered + 1 \in Nat /\ Head(ch.buffer) \in 0..MaxSends
      BY <1>l, <1>v, <2>1
    <3> QED
      BY <3>1, <3>2, LedgerUpdate, Zenon
  <2> QED
    BY <1>5, <2>2, <2>3, GuestType, StayType
    DEF recvBuffered, channelVars, Typed, taskVars, hostVars
<1>6. CASE recvRefill(c)
  <2>1. /\ Head(ch.buffer) \in Values /\ Tail(ch.buffer) \in Seq(Values)
        /\ Head(ch.sendQ) \in SenderType /\ Tail(ch.sendQ) \in Seq(SenderType)
    BY <1>6, <1>t DEF recvRefill
  <2>2. Append(Tail(ch.buffer), Head(ch.sendQ).value) \in Seq(Values)
    BY <2>1 DEF SenderType
  <2>3. runnable' \in Seq(EntryType) /\ blockedOnChannel' \in Int
    <3>1. <<Head(ch.sendQ)>> \in Seq(SenderType)
      BY <2>1
    <3>2. wakeChannelWaiters(<<Head(ch.sendQ)>>)
      BY <1>6, Zenon DEF recvRefill
    <3> QED
      BY <1>w, <3>1, <3>2, WakeChannelType
  <2>4. channels' \in [ChannelIds -> ChannelType]
    <3>1. channels' = [channels EXCEPT ![c] = Chan(ch.capacity, Append(Tail(ch.buffer), Head(ch.sendQ).value), Tail(ch.sendQ), ch.recvQ, ch.closed)]
      BY <1>6, Zenon DEF recvRefill
    <3> QED
      BY <1>t, <2>1, <2>2, <3>1, ChannelUpdate, Zenon
  <2>5. ledger' \in [ChannelIds -> LedgerType]
    <3>1. ledger' = [ledger EXCEPT ![c] = Log(ledger[c].sent, ledger[c].accepted + 1, ledger[c].delivered + 1, Head(ch.buffer))]
      BY <1>6, Zenon DEF recvRefill, deliver
    <3>2. ledger[c].sent \in 0..MaxSends /\ ledger[c].accepted + 1 \in Nat /\ ledger[c].delivered + 1 \in Nat /\ Head(ch.buffer) \in 0..MaxSends
      BY <1>l, <1>v, <2>1
    <3> QED
      BY <3>1, <3>2, LedgerUpdate, Zenon
  <2> QED
    BY <1>6, <2>3, <2>4, <2>5, GuestType, StayType
    DEF recvRefill, channelVars, Typed, taskVars, hostVars
<1>7. CASE recvRendezvous(c)
  <2>1. Head(ch.sendQ) \in SenderType /\ Tail(ch.sendQ) \in Seq(SenderType)
    BY <1>7, <1>t DEF recvRendezvous
  <2>2. Head(ch.sendQ).value \in Values
    BY <2>1 DEF SenderType
  <2>3. runnable' \in Seq(EntryType) /\ blockedOnChannel' \in Int
    <3>1. <<Head(ch.sendQ)>> \in Seq(SenderType)
      BY <2>1
    <3>2. wakeChannelWaiters(<<Head(ch.sendQ)>>)
      BY <1>7, Zenon DEF recvRendezvous
    <3> QED
      BY <1>w, <3>1, <3>2, WakeChannelType
  <2>4. channels' \in [ChannelIds -> ChannelType]
    <3>1. channels' = [channels EXCEPT ![c] = Chan(ch.capacity, ch.buffer, Tail(ch.sendQ), ch.recvQ, ch.closed)]
      BY <1>7, Zenon DEF recvRendezvous
    <3> QED
      BY <1>t, <2>1, <3>1, ChannelUpdate, Zenon
  <2>5. ledger' \in [ChannelIds -> LedgerType]
    <3>1. ledger' = [ledger EXCEPT ![c] = Log(ledger[c].sent, ledger[c].accepted + 1, ledger[c].delivered + 1, Head(ch.sendQ).value)]
      BY <1>7, Zenon DEF recvRendezvous, deliver
    <3>2. ledger[c].sent \in 0..MaxSends /\ ledger[c].accepted + 1 \in Nat /\ ledger[c].delivered + 1 \in Nat /\ Head(ch.sendQ).value \in 0..MaxSends
      BY <1>l, <1>v, <2>2
    <3> QED
      BY <3>1, <3>2, LedgerUpdate, Zenon
  <2> QED
    BY <1>7, <2>3, <2>4, <2>5, GuestType, StayType
    DEF recvRendezvous, channelVars, Typed, taskVars, hostVars
<1>8. CASE recvParked(c)
  <2>1. Caller \in WaiterType
    BY <1>8, GuestType DEF recvParked, Caller, WaiterType, Typed
  <2>4. Append(ch.recvQ, Caller) \in Seq(WaiterType)
    BY <1>t, <2>1
  <2>2. channels' \in [ChannelIds -> ChannelType]
    <3>1. channels' = [channels EXCEPT ![c] = Chan(ch.capacity, ch.buffer, ch.sendQ, Append(ch.recvQ, Caller), ch.closed)]
      BY <1>8, Zenon DEF recvParked
    <3> QED
      BY <1>t, <2>4, <3>1, ChannelUpdate, Zenon
  <2>3. /\ micro' \in Seq(JobType) /\ pumping' \in BOOLEAN
        /\ settled' \in {"no", "resolved", "deadlock", "unawaited", "topFailed"}
    BY <1>8, ScheduleType DEF recvParked, suspend, Typed
  <2> QED
    BY <1>8, <2>2, <2>3, GuestType
    DEF recvParked, suspend, channelVars, Typed, taskVars, hostVars
<1>9. CASE channelClose(c)
  <2>0. <<>> \in Seq(SenderType) /\ <<>> \in Seq(WaiterType) /\ TRUE \in BOOLEAN
    OBVIOUS
  <2>1. runnable' \in Seq(EntryType) /\ blockedOnChannel' \in Int
    <3>1. ch.recvQ \o ch.sendQ \in Seq(WaiterType \cup SenderType)
      BY <1>t
    <3>2. wakeChannelWaiters(ch.recvQ \o ch.sendQ)
      BY <1>9, Zenon DEF channelClose
    <3> QED
      BY <1>w, <3>1, <3>2, WakeChannelType
  <2>2. channels' \in [ChannelIds -> ChannelType]
    <3>1. channels' = [channels EXCEPT ![c] = Chan(ch.capacity, ch.buffer, <<>>, <<>>, TRUE)]
      BY <1>9, Zenon DEF channelClose
    <3> QED
      BY <1>t, <2>0, <3>1, ChannelUpdate, Zenon
  <2> QED
    BY <1>9, <2>1, <2>2, GuestType, StayType
    DEF channelClose, channelVars, Typed, taskVars, hostVars
<1> QED
  BY <1>1, <1>2, <1>3, <1>4, <1>5, <1>6, <1>7, <1>8, <1>9


LEMMA MicrotaskType ==
    ASSUME Typed, Microtask
    PROVE  Typed'
<1> DEFINE h == Head(micro)
<1>1. CASE kick
  <2>1. /\ micro' \in Seq(JobType) /\ pumping' \in BOOLEAN
        /\ settled' \in {"no", "resolved", "deadlock", "unawaited", "topFailed"}
    BY <1>1, ScheduleType DEF kick, Typed
  <2> QED
    BY <1>1, <2>1 DEF kick, Typed, taskVars, chanVars, hostVars
<1>2. ASSUME runStart \/ runResume
      PROVE  /\ Head(runnable) \in EntryType /\ Tail(runnable) \in Seq(EntryType)
             /\ Tail(micro) \in Seq(JobType) /\ kicked' = kicked
  BY <1>2 DEF runStart, runResume, take, Typed
<1>3. CASE runStart
  <2>1. Head(runnable).id \in Ids /\ Head(runnable).who \in Ids
    BY <1>2, <1>3 DEF EntryType
  <2>2. state' \in [Ids -> {"absent", "new", "running", "done", "failed"}]
    BY <1>3 DEF runStart, Typed
  <2>3. pumping' \in BOOLEAN
    BY <1>3 DEF runStart
  <2> QED
    BY <1>2, <1>3, <2>1, <2>2, <2>3 DEF runStart, Typed, chanVars, hostVars
<1>4. CASE runResume
  <2> DEFINE e == Head(runnable)
  <2>1. e.id \in Ids /\ e.who \in Ids /\ e.hops \in 1..AsyncHops /\ e.throws \in BOOLEAN
    BY <1>2, <1>4 DEF EntryType
  <2>2. ContJob(e.who, e.hops, e.throws) \in JobType
    BY <2>1, JobTypes, Zenon
  <2>3. micro' = Append(Tail(micro), ContJob(e.who, e.hops, e.throws))
    BY <1>4, Zenon DEF runResume
  <2>4. micro' \in Seq(JobType)
    BY <1>2, <1>4, <2>2, <2>3, AppendType, Zenon
  <2>5. pumping' \in BOOLEAN
    BY <1>4 DEF runResume
  <2> QED
    BY <1>2, <1>4, <2>1, <2>4, <2>5 DEF runResume, Typed, taskVars, chanVars, hostVars
<1>5. CASE hop
  <2>1. h \in StackJobType /\ Tail(micro) \in Seq(JobType) /\ kicked' = kicked
    BY <1>5, TakeType DEF hop
  <2>2. h.hops - 1 \in 1..HostHops
    BY <1>5, <2>1 DEF hop, StackJobType, HostHops
  <2>3. [h EXCEPT !.hops = h.hops - 1] \in JobType
    BY <2>1, <2>2 DEF StackJobType, JobType
  <2>4. micro' \in Seq(JobType)
    BY <1>5, <2>1, <2>3 DEF hop
  <2> QED
    BY <1>5, <2>1, <2>4 DEF hop, promiseVars, Typed, taskVars, chanVars, hostVars
<1>6. CASE continueStack
  <2>1. h \in StackJobType /\ Tail(micro) \in Seq(JobType) /\ kicked' = kicked
    BY <1>6, TakeType DEF continueStack
  <2>2. h.who \in Ids
    BY <2>1 DEF StackJobType
  <2> QED
    BY <1>6, <2>1, <2>2
    DEF continueStack, promiseVars, Typed, taskVars, chanVars, hostVars
<1>7. CASE unwindStack
  <2>1. h \in StackJobType /\ Tail(micro) \in Seq(JobType) /\ kicked' = kicked
    BY <1>7, TakeType DEF unwindStack
  <2>2. h.who \in Ids
    BY <2>1 DEF StackJobType
  <2>3. SettleJob(h.who, TRUE) \in JobType
    BY <2>2, JobTypes, Zenon
  <2>4. micro' = Append(Tail(micro), SettleJob(h.who, TRUE))
    BY <1>7, Zenon DEF unwindStack
  <2>5. micro' \in Seq(JobType)
    BY <2>1, <2>3, <2>4, AppendType, Zenon
  <2> QED
    BY <1>7, <2>1, <2>5
    DEF unwindStack, promiseVars, Typed, taskVars, chanVars, hostVars
<1>8. CASE onComplete
  <2>1. h \in StackJobType /\ Tail(micro) \in Seq(JobType) /\ kicked' = kicked
    BY <1>8, TakeType DEF onComplete
  <2>2. h.who \in Ids
    BY <2>1 DEF StackJobType
  <2>3. /\ runnable' \in Seq(EntryType)
        /\ waiters' \in [Ids -> Seq(AwaiterType)]
        /\ blockedOnTask' \in Int
    BY <1>8, <2>2, WakeWaitersType, Zenon DEF onComplete
  <2>4. /\ micro' \in Seq(JobType) /\ pumping' \in BOOLEAN
        /\ settled' \in {"no", "resolved", "deadlock", "unawaited", "topFailed"}
    BY <1>8, <2>1, ScheduleType, Zenon DEF onComplete
  <2>5. state' \in [Ids -> {"absent", "new", "running", "done", "failed"}]
    BY <1>8 DEF onComplete, Typed
  <2>6. topLevelDone' \in BOOLEAN
    BY <1>8, Zenon DEF onComplete
  <2> QED
    BY <1>8, <2>1, <2>3, <2>4, <2>5, <2>6 DEF onComplete, Typed, chanVars, hostVars
<1>9. CASE onFailTop
  <2>1. h \in StackJobType /\ Tail(micro) \in Seq(JobType) /\ kicked' = kicked
    BY <1>9, TakeType DEF onFailTop
  <2>2. state' \in [Ids -> {"absent", "new", "running", "done", "failed"}]
    BY <1>9 DEF onFailTop, Typed
  <2> QED
    BY <1>9, <2>1, <2>2 DEF onFailTop, Typed, chanVars, hostVars
<1>10. CASE onFailTask
  <2>1. h \in StackJobType /\ Tail(micro) \in Seq(JobType) /\ kicked' = kicked
    BY <1>10, TakeType DEF onFailTask
  <2>2. h.who \in Ids
    BY <2>1 DEF StackJobType
  <2>3. /\ runnable' \in Seq(EntryType)
        /\ waiters' \in [Ids -> Seq(AwaiterType)]
        /\ blockedOnTask' \in Int
    BY <1>10, <2>2, WakeWaitersType, Zenon DEF onFailTask
  <2>4. /\ micro' \in Seq(JobType) /\ pumping' \in BOOLEAN
        /\ settled' \in {"no", "resolved", "deadlock", "unawaited", "topFailed"}
    BY <1>10, <2>1, ScheduleType, Zenon DEF onFailTask
  <2>5. state' \in [Ids -> {"absent", "new", "running", "done", "failed"}]
    BY <1>10 DEF onFailTask, Typed
  <2> QED
    BY <1>10, <2>1, <2>3, <2>4, <2>5 DEF onFailTask, Typed, chanVars, hostVars
<1>11. CASE hostHandler
  <2>1. h \in StackJobType /\ Tail(micro) \in Seq(JobType) /\ kicked' = kicked
    BY <1>11, TakeType DEF hostHandler
  <2>2. ResumeEntry(h, DirectHops, h.throws) \in EntryType
    <3>1. h.id \in Ids /\ h.who \in Ids /\ h.throws \in BOOLEAN
      BY <2>1 DEF StackJobType
    <3>2. DirectHops \in 1..AsyncHops
      BY DEF DirectHops, AsyncHops
    <3> QED
      BY <3>1, <3>2, ResumeType, Zenon
  <2>3. runnable' = Append(runnable, ResumeEntry(h, DirectHops, h.throws))
    BY <1>11, Zenon DEF hostHandler, hostDone
  <2>4. runnable' \in Seq(EntryType)
    BY <2>2, <2>3, AppendType, Zenon DEF Typed
  <2>5. /\ micro' \in Seq(JobType) /\ pumping' \in BOOLEAN
        /\ settled' \in {"no", "resolved", "deadlock", "unawaited", "topFailed"}
    BY <1>11, <2>1, ScheduleType, Zenon DEF hostHandler
  <2> QED
    BY <1>11, <2>4, <2>5 DEF hostHandler, hostDone, Typed, taskVars, chanVars
<1> QED
  BY <1>1, <1>3, <1>4, <1>5, <1>6, <1>7, <1>8, <1>9, <1>10, <1>11 DEF Microtask

LEMMA MacrotaskType ==
    ASSUME Typed, NEW w \in WaiterType, NEW throws \in BOOLEAN,
           timerFire(w) \/ hostSettle(w, throws)
    PROVE  Typed'
<1>1. DirectHops \in 1..AsyncHops
  BY DEF DirectHops, AsyncHops
<1>2. w.id \in Ids /\ w.who \in Ids
  BY DEF WaiterType
<1>3. /\ ResumeEntry(w, DirectHops, FALSE) \in EntryType
      /\ ResumeEntry(w, DirectHops, throws) \in EntryType
  BY <1>1, <1>2, ResumeType, Zenon
<1>4. \/ runnable' = Append(runnable, ResumeEntry(w, DirectHops, FALSE))
      \/ runnable' = Append(runnable, ResumeEntry(w, DirectHops, throws))
  BY Zenon DEF timerFire, hostSettle, hostDone
<1>5. runnable' \in Seq(EntryType)
  BY <1>3, <1>4, AppendType, ZenonT(30) DEF Typed
<1>6. schedule(micro) /\ micro \in Seq(JobType)
  BY Zenon DEF timerFire, hostSettle, Typed
<1>7. /\ micro' \in Seq(JobType) /\ pumping' \in BOOLEAN
      /\ settled' \in {"no", "resolved", "deadlock", "unawaited", "topFailed"}
  BY <1>6, ScheduleType, Zenon
<1>8. CASE timerFire(w)
  <2>1. /\ timers' = timers \ {w} /\ pendingHost' = pendingHost - 1
        /\ UNCHANGED <<taskVars, current, topLevelDone, chanVars, yieldBudget,
                       exec, kicked, hosts>>
    BY <1>8, Zenon DEF timerFire, hostDone
  <2> QED
    BY <1>5, <1>7, <2>1 DEF Typed, taskVars, chanVars
<1>9. CASE hostSettle(w, throws)
  BY <1>5, <1>7, <1>9 DEF hostSettle, hostDone, Typed, taskVars, chanVars
<1> QED
  BY <1>8, <1>9

LEMMA NextType == Typed /\ [Next]_vars => Typed'
<1> SUFFICES ASSUME Typed, [Next]_vars PROVE Typed'
  OBVIOUS
<1>1. CASE Parks
  BY <1>1, TaskCallsType, HostCallsType, Zenon DEF Parks
<1>2. CASE Calls
  <2>1. ASSUME NEW cap \in 0..MaxCapacity, channelNew(cap)
        PROVE  Typed'
    <3>1. 1 \in ChannelIds
      BY <2>1, BoundsAssumption DEF channelNew, Typed, ChannelIds
    <3> QED
      BY <2>1, <3>1, ChannelCallsType, Zenon
  <2> QED
    BY <1>2, <2>1, TaskCallsType, ChannelCallsType, HandleType, Zenon DEF Calls
<1>3. CASE Microtask
  BY <1>3, MicrotaskType
<1>4. CASE TimerFires \/ HostSettles
  <2>1. timers \subseteq WaiterType /\ hosts \subseteq WaiterType /\ FALSE \in BOOLEAN
    BY DEF Typed
  <2> QED
    BY <1>4, <2>1, MacrotaskType, Zenon DEF TimerFires, HostSettles
<1>5. CASE UNCHANGED vars
  BY <1>5 DEF vars, taskVars, chanVars, hostVars, loopVars, Typed
<1> QED
  BY <1>1, <1>2, <1>3, <1>4, <1>5 DEF Next

\* What the scheduler resumes is always a stack, with hops left
\* (runtime.mjs:779-807, 863-891).
LEMMA TypesHold == Spec => []Typed
BY InitType, NextType, PTL DEF Spec
-----------------------------------------------------------------------------
(***************************************************************************)
(* The channels keep their shape, deliver in order and conserve values,    *)
(* whatever the guest program does and however host calls complete.        *)
(***************************************************************************)
(* What each operation does to the order of the values.                    *)

\* Values are numbers.
LEMMA BufferValue ==
    ASSUME NEW b \in Seq(Values), NEW i \in DOMAIN b
    PROVE  b[i] \in Int
<1>1. b[i] \in Values
  OBVIOUS
<1> QED
  BY <1>1 DEF Values

LEMMA SenderValue ==
    ASSUME NEW sq \in Seq(SenderType), NEW i \in DOMAIN sq
    PROVE  sq[i].value \in Int
<1>1. sq[i] \in SenderType
  OBVIOUS
<1> QED
  BY <1>1 DEF SenderType, Values

LEMMA BufferedFIFO ==
    ASSUME NEW b \in Seq(Values), NEW lo \in Nat, NEW hi \in Nat, lo <= hi,
           FIFO(b, <<>>, lo, hi)
    PROVE  FIFO(Append(b, hi + 1), <<>>, lo, hi + 1)
<1> DEFINE bb == Append(b, hi + 1)
<1>1. /\ DOMAIN bb = 1..(Len(b) + 1) /\ bb[Len(b) + 1] = hi + 1
      /\ Len(b) \in Nat /\ DOMAIN b = 1..Len(b)
      /\ \A i \in 1..Len(b) : bb[i] = b[i]
  OBVIOUS
<1>5. \A i \in 1..Len(b) : b[i] \in Int
  BY <1>1, BufferValue
<1>2. \A i \in 1..Len(b) :
         /\ lo < b[i] /\ b[i] <= hi
         /\ \A j \in 1..Len(b) : i < j => b[i] < b[j]
  BY <1>1 DEF FIFO
<1> HIDE DEF bb
<1>3. \A i \in DOMAIN bb :
         /\ lo < bb[i] /\ bb[i] <= hi + 1
         /\ \A j \in DOMAIN bb : i < j => bb[i] < bb[j]
  <2> TAKE i \in DOMAIN bb
  <2>1. \A k \in DOMAIN bb : k \in 1..Len(b) \/ k = Len(b) + 1
    BY <1>1
  <2>2. lo < bb[i] /\ bb[i] <= hi + 1
    BY <1>1, <1>2, <1>5, <2>1
  <2>3. ASSUME NEW j \in DOMAIN bb, i < j PROVE bb[i] < bb[j]
    <3>1. i \in 1..Len(b)
      BY <1>1, <2>1, <2>3
    <3>2. CASE j \in 1..Len(b)
      BY <1>1, <1>2, <2>3, <3>1, <3>2
    <3>3. CASE j = Len(b) + 1
      BY <1>1, <1>2, <1>5, <3>1, <3>3
    <3> QED
      BY <2>1, <3>2, <3>3
  <2> QED
    BY <2>2, <2>3
<1>4. FIFO(bb, <<>>, lo, hi + 1)
  BY <1>3 DEF FIFO
<1> QED
  BY <1>4 DEF bb

LEMMA ParkedFIFO ==
    ASSUME NEW b \in Seq(Values), NEW sq \in Seq(SenderType), NEW x \in SenderType,
           NEW lo \in Nat, NEW hi \in Nat, lo <= hi,
           x.value = hi + 1, FIFO(b, sq, lo, hi)
    PROVE  FIFO(b, Append(sq, x), lo, hi + 1)
<1> DEFINE ss == Append(sq, x)
<1>1. /\ DOMAIN ss = 1..(Len(sq) + 1) /\ ss[Len(sq) + 1].value = hi + 1
      /\ Len(sq) \in Nat /\ DOMAIN sq = 1..Len(sq)
      /\ \A i \in 1..Len(sq) : ss[i].value = sq[i].value
  OBVIOUS
<1>2. \A i \in 1..Len(sq) : sq[i].value \in Int
  BY <1>1, SenderValue
<1>3. \A i \in DOMAIN b : b[i] \in Int
  BY BufferValue
<1>4. \A i \in 1..Len(sq) :
         /\ lo < sq[i].value /\ sq[i].value <= hi
         /\ \A j \in 1..Len(sq) : i < j => sq[i].value < sq[j].value
  BY <1>1 DEF FIFO
<1>5. \A i \in DOMAIN b :
         /\ lo < b[i] /\ b[i] <= hi
         /\ \A j \in DOMAIN b : i < j => b[i] < b[j]
         /\ \A j \in 1..Len(sq) : b[i] < sq[j].value
  BY <1>1 DEF FIFO
<1> HIDE DEF ss
<1>6. \A i \in DOMAIN ss :
         /\ lo < ss[i].value /\ ss[i].value <= hi + 1
         /\ \A j \in DOMAIN ss : i < j => ss[i].value < ss[j].value
  BY <1>1, <1>2, <1>4, SMTT(30)
<1>7. \A i \in DOMAIN b :
         /\ b[i] <= hi + 1
         /\ \A j \in DOMAIN ss : b[i] < ss[j].value
  <2> TAKE i \in DOMAIN b
  <2>1. b[i] <= hi + 1
    BY <1>3, <1>5
  <2>2. ASSUME NEW j \in DOMAIN ss PROVE b[i] < ss[j].value
    <3>1. j \in 1..Len(sq) \/ j = Len(sq) + 1
      BY <1>1
    <3>2. CASE j \in 1..Len(sq)
      BY <1>1, <1>5, <3>2
    <3>3. CASE j = Len(sq) + 1
      BY <1>1, <1>3, <1>5, <3>3
    <3> QED
      BY <3>1, <3>2, <3>3
  <2> QED
    BY <2>1, <2>2
<1>8. FIFO(b, ss, lo, hi + 1)
  BY <1>5, <1>6, <1>7 DEF FIFO
<1> QED
  BY <1>8 DEF ss

\* Taking the head of the buffer, or of the parked senders when the buffer is
\* empty, raises the lower bound to the value taken.
LEMMA TakeBufferFIFO ==
    ASSUME NEW b \in Seq(Values), NEW sq \in Seq(SenderType), b # <<>>,
           NEW lo \in Nat, NEW hi \in Nat, FIFO(b, sq, lo, hi)
    PROVE  FIFO(Tail(b), sq, Head(b), hi) /\ Head(b) <= hi
<1> DEFINE tb == Tail(b)
<1>1. /\ DOMAIN tb = 1..(Len(b) - 1) /\ Len(b) \in Nat \ {0}
      /\ DOMAIN b = 1..Len(b) /\ 1 \in DOMAIN b /\ Head(b) = b[1]
      /\ \A i \in 1..(Len(b) - 1) : tb[i] = b[i + 1] /\ i + 1 \in DOMAIN b
  OBVIOUS
<1>2. \A i \in DOMAIN b : b[i] \in Int
  BY BufferValue
<1>3. \A i \in DOMAIN b :
         /\ b[i] <= hi
         /\ \A j \in DOMAIN b : i < j => b[i] < b[j]
         /\ \A j \in DOMAIN sq : b[i] < sq[j].value
  BY DEF FIFO
<1>4. \A i \in DOMAIN sq :
         /\ sq[i].value <= hi
         /\ \A j \in DOMAIN sq : i < j => sq[i].value < sq[j].value
  BY DEF FIFO
<1> HIDE DEF tb
<1>5. \A i \in DOMAIN tb :
         /\ b[1] < tb[i] /\ tb[i] <= hi
         /\ \A j \in DOMAIN tb : i < j => tb[i] < tb[j]
         /\ \A j \in DOMAIN sq : tb[i] < sq[j].value
  <2>1. ASSUME NEW k \in DOMAIN tb
        PROVE  k \in Int /\ k + 1 \in DOMAIN b /\ tb[k] = b[k + 1] /\ 1 < k + 1
    BY <1>1
  <2> TAKE i \in DOMAIN tb
  <2>2. b[1] < tb[i] /\ tb[i] <= hi
    BY <1>1, <1>3, <2>1
  <2>3. \A j \in DOMAIN sq : tb[i] < sq[j].value
    BY <1>3, <2>1
  <2>4. ASSUME NEW j \in DOMAIN tb, i < j PROVE tb[i] < tb[j]
    <3>1. i + 1 < j + 1
      BY <2>1, <2>4
    <3> QED
      BY <1>3, <2>1, <3>1
  <2> QED
    BY <2>2, <2>3, <2>4
<1>6. FIFO(tb, sq, b[1], hi) /\ b[1] <= hi
  BY <1>1, <1>3, <1>4, <1>5 DEF FIFO
<1> QED
  BY <1>1, <1>6 DEF tb

LEMMA TakeSenderFIFO ==
    ASSUME NEW sq \in Seq(SenderType), sq # <<>>,
           NEW lo \in Nat, NEW hi \in Nat, FIFO(<<>>, sq, lo, hi)
    PROVE  FIFO(<<>>, Tail(sq), Head(sq).value, hi) /\ Head(sq).value <= hi
<1> DEFINE ts == Tail(sq)
<1>1. /\ DOMAIN ts = 1..(Len(sq) - 1) /\ Len(sq) \in Nat \ {0}
      /\ DOMAIN sq = 1..Len(sq) /\ 1 \in DOMAIN sq /\ Head(sq) = sq[1]
      /\ \A i \in 1..(Len(sq) - 1) : ts[i] = sq[i + 1] /\ i + 1 \in DOMAIN sq
  OBVIOUS
<1>2. \A i \in DOMAIN sq :
         /\ sq[i].value <= hi
         /\ \A j \in DOMAIN sq : i < j => sq[i].value < sq[j].value
  BY DEF FIFO
<1> HIDE DEF ts
<1>3. \A i \in DOMAIN ts :
         /\ sq[1].value < ts[i].value /\ ts[i].value <= hi
         /\ \A j \in DOMAIN ts : i < j => ts[i].value < ts[j].value
  <2>1. ASSUME NEW k \in DOMAIN ts
        PROVE  k \in Int /\ k + 1 \in DOMAIN sq /\ ts[k] = sq[k + 1] /\ 1 < k + 1
    BY <1>1
  <2> TAKE i \in DOMAIN ts
  <2>2. sq[1].value < ts[i].value /\ ts[i].value <= hi
    BY <1>1, <1>2, <2>1
  <2>3. ASSUME NEW j \in DOMAIN ts, i < j PROVE ts[i].value < ts[j].value
    <3>1. i + 1 < j + 1
      BY <2>1, <2>3
    <3> QED
      BY <1>2, <2>1, <3>1
  <2> QED
    BY <2>2, <2>3
<1>4. FIFO(<<>>, ts, sq[1].value, hi) /\ sq[1].value <= hi
  BY <1>1, <1>2, <1>3 DEF FIFO
<1> QED
  BY <1>1, <1>4 DEF ts

\* The oldest parked sender goes to the end of the buffer.
LEMMA RefillFIFO ==
    ASSUME NEW b \in Seq(Values), NEW sq \in Seq(SenderType), sq # <<>>,
           NEW lo \in Nat, NEW hi \in Nat, FIFO(b, sq, lo, hi)
    PROVE  FIFO(Append(b, Head(sq).value), Tail(sq), lo, hi)
<1> DEFINE ts == Tail(sq)
           bb == Append(b, Head(sq).value)
<1>1. /\ DOMAIN ts = 1..(Len(sq) - 1) /\ Len(sq) \in Nat \ {0}
      /\ DOMAIN sq = 1..Len(sq) /\ 1 \in DOMAIN sq /\ Head(sq) = sq[1]
      /\ \A i \in 1..(Len(sq) - 1) : ts[i] = sq[i + 1] /\ i + 1 \in DOMAIN sq
  OBVIOUS
<1>2. /\ DOMAIN bb = 1..(Len(b) + 1) /\ bb[Len(b) + 1] = sq[1].value
      /\ Len(b) \in Nat /\ DOMAIN b = 1..Len(b)
      /\ \A i \in 1..Len(b) : bb[i] = b[i]
  BY <1>1
<1>3. \A i \in DOMAIN b :
         /\ lo < b[i] /\ b[i] <= hi
         /\ \A j \in DOMAIN b : i < j => b[i] < b[j]
         /\ \A j \in DOMAIN sq : b[i] < sq[j].value
  BY DEF FIFO
<1>4. \A i \in DOMAIN sq :
         /\ lo < sq[i].value /\ sq[i].value <= hi
         /\ \A j \in DOMAIN sq : i < j => sq[i].value < sq[j].value
  BY DEF FIFO
<1> HIDE DEF ts, bb
<1>5. \A i \in DOMAIN bb :
         /\ lo < bb[i] /\ bb[i] <= hi
         /\ \A j \in DOMAIN bb : i < j => bb[i] < bb[j]
         /\ \A j \in DOMAIN ts : bb[i] < ts[j].value
  <2>1. \A k \in DOMAIN bb : k \in 1..Len(b) \/ k = Len(b) + 1
    BY <1>2
  <2>2. ASSUME NEW k \in DOMAIN ts
        PROVE  k + 1 \in DOMAIN sq /\ ts[k] = sq[k + 1] /\ 1 < k + 1
    BY <1>1
  <2> TAKE i \in DOMAIN bb
  <2>3. lo < bb[i] /\ bb[i] <= hi
    BY <1>1, <1>2, <1>3, <1>4, <2>1
  <2>4. ASSUME NEW j \in DOMAIN bb, i < j PROVE bb[i] < bb[j]
    <3>1. i \in 1..Len(b)
      BY <1>2, <2>1, <2>4
    <3>2. CASE j \in 1..Len(b)
      BY <1>2, <1>3, <2>4, <3>1, <3>2
    <3>3. CASE j = Len(b) + 1
      BY <1>1, <1>2, <1>3, <3>1, <3>3
    <3> QED
      BY <2>1, <3>2, <3>3
  <2>5. ASSUME NEW j \in DOMAIN ts PROVE bb[i] < ts[j].value
    <3>1. CASE i \in 1..Len(b)
      BY <1>2, <1>3, <2>2, <3>1
    <3>2. CASE i = Len(b) + 1
      BY <1>1, <1>2, <1>4, <2>2, <3>2
    <3> QED
      BY <2>1, <3>1, <3>2
  <2> QED
    BY <2>3, <2>4, <2>5
<1>6. \A i \in DOMAIN ts :
         /\ lo < ts[i].value /\ ts[i].value <= hi
         /\ \A j \in DOMAIN ts : i < j => ts[i].value < ts[j].value
  <2>1. ASSUME NEW k \in DOMAIN ts
        PROVE  k \in Int /\ k + 1 \in DOMAIN sq /\ ts[k] = sq[k + 1] /\ 1 < k + 1
    BY <1>1
  <2> TAKE i \in DOMAIN ts
  <2>2. lo < ts[i].value /\ ts[i].value <= hi
    BY <1>1, <1>4, <2>1
  <2>3. ASSUME NEW j \in DOMAIN ts, i < j PROVE ts[i].value < ts[j].value
    <3>1. i + 1 < j + 1
      BY <2>1, <2>3
    <3> QED
      BY <1>4, <2>1, <3>1
  <2> QED
    BY <2>2, <2>3
<1>7. FIFO(bb, ts, lo, hi)
  BY <1>5, <1>6 DEF FIFO
<1> QED
  BY <1>7 DEF ts, bb

-----------------------------------------------------------------------------
(* The inductive invariant: the three properties, that nothing received was *)
(* never sent, and that an id that has not been handed out names an empty   *)
(* channel, which channelNew relies on.                                     *)

ChanOK(ch, log) ==
    /\ ShapeOK(ch.capacity, ch.buffer, ch.sendQ, ch.recvQ, ch.closed)
    /\ FIFO(ch.buffer, ch.sendQ, log.lastGot, log.sent)
    /\ log.accepted = log.delivered + Len(ch.buffer)
    /\ log.lastGot <= log.sent

ChanInv ==
    \A c \in ChannelIds :
        /\ ChanOK(channels[c], ledger[c])
        /\ c >= nextChannelId => channels[c].buffer = <<>>

\* A step that touches one channel, which exists after it, has only that
\* channel to account for.
LEMMA ChangedChannel ==
    ASSUME Typed, ChanInv, NEW c \in ChannelIds, NEW r, NEW l,
           channels' = [channels EXCEPT ![c] = r],
           ledger' = [ledger EXCEPT ![c] = l],
           ChanOK(r, l),
           nextChannelId' \in Int, nextChannelId <= nextChannelId', c < nextChannelId'
    PROVE  ChanInv'
<1> SUFFICES ASSUME NEW e \in ChannelIds
             PROVE  /\ ChanOK(channels'[e], ledger'[e])
                    /\ e >= nextChannelId' => channels'[e].buffer = <<>>
  BY DEF ChanInv, ChanOK
<1>0. nextChannelId \in Int /\ e \in Int
  BY DEF Typed, ChannelIds
<1>1. CASE e = c
  <2>1. channels'[e] = r /\ ledger'[e] = l
    BY <1>1 DEF Typed
  <2> QED
    BY <1>0, <1>1, <2>1
<1>2. CASE e # c
  <2>1. channels'[e] = channels[e] /\ ledger'[e] = ledger[e]
    BY <1>2 DEF Typed
  <2>2. e >= nextChannelId' => e >= nextChannelId
    BY <1>0
  <2> QED
    BY <2>1, <2>2, Zenon DEF ChanInv
<1> QED
  BY <1>1, <1>2

\* The same with the history left alone.
LEMMA ChangedChannelNoLog ==
    ASSUME Typed, ChanInv, NEW c \in ChannelIds, NEW r,
           channels' = [channels EXCEPT ![c] = r],
           ledger' = ledger,
           ChanOK(r, ledger[c]),
           nextChannelId' \in Int, nextChannelId <= nextChannelId', c < nextChannelId'
    PROVE  ChanInv'
<1>1. ledger' = [ledger EXCEPT ![c] = ledger[c]]
  BY DEF Typed
<1> QED
  BY <1>1, ChangedChannel, Zenon

\* The fields of the records that the actions build.
LEMMA ChanFields ==
    ASSUME NEW cap, NEW b, NEW sq, NEW rq, NEW cl, NEW s, NEW a, NEW d, NEW g,
           ShapeOK(cap, b, sq, rq, cl), FIFO(b, sq, g, s), a = d + Len(b), g <= s
    PROVE  ChanOK(Chan(cap, b, sq, rq, cl), Log(s, a, d, g))
<1> DEFINE r == Chan(cap, b, sq, rq, cl)
           l == Log(s, a, d, g)
<1>1. /\ r.capacity = cap /\ r.buffer = b /\ r.sendQ = sq /\ r.recvQ = rq
      /\ r.closed = cl
  BY Zenon DEF Chan
<1>2. l.sent = s /\ l.accepted = a /\ l.delivered = d /\ l.lastGot = g
  BY Zenon DEF Log
<1> HIDE DEF r, l
<1>3. ChanOK(r, l)
  BY <1>1, <1>2, Zenon DEF ChanOK
<1> QED
  BY <1>3, Zenon DEF r, l

LEMMA ChanFieldsNoLog ==
    ASSUME NEW cap, NEW b, NEW sq, NEW rq, NEW cl, NEW l,
           ShapeOK(cap, b, sq, rq, cl), FIFO(b, sq, l.lastGot, l.sent),
           l.accepted = l.delivered + Len(b), l.lastGot <= l.sent
    PROVE  ChanOK(Chan(cap, b, sq, rq, cl), l)
<1> DEFINE r == Chan(cap, b, sq, rq, cl)
<1>1. /\ r.capacity = cap /\ r.buffer = b /\ r.sendQ = sq /\ r.recvQ = rq
      /\ r.closed = cl
  BY Zenon DEF Chan
<1> HIDE DEF r
<1>2. ChanOK(r, l)
  BY <1>1, Zenon DEF ChanOK
<1> QED
  BY <1>2, Zenon DEF r

LEMMA ChanInit == Init => ChanInv
<1> SUFFICES ASSUME Init, NEW c \in ChannelIds
             PROVE  /\ ChanOK(channels[c], ledger[c])
                    /\ channels[c].buffer = <<>>
  BY DEF ChanInv
<1>1. channels[c] = Chan(0, <<>>, <<>>, <<>>, FALSE) /\ ledger[c] = Log(0, 0, 0, 0)
  BY DEF Init, EmptyChannel
<1>2. ShapeOK(0, <<>>, <<>>, <<>>, FALSE) /\ FIFO(<<>>, <<>>, 0, 0)
  BY DEF ShapeOK, FIFO
<1>3. 0 = 0 + Len(<<>>) /\ 0 <= 0
  OBVIOUS
<1>4. Chan(0, <<>>, <<>>, <<>>, FALSE).buffer = <<>>
  BY DEF Chan
<1>5. ChanOK(Chan(0, <<>>, <<>>, <<>>, FALSE), Log(0, 0, 0, 0))
  BY <1>2, <1>3, ChanFields
<1> QED
  BY <1>1, <1>4, <1>5, Zenon

\* What is known of a channel when an operation reaches it.
LEMMA ChanFacts ==
    ASSUME Typed, ChanInv, NEW c \in ChannelIds
    PROVE  /\ channels[c].capacity \in Nat /\ channels[c].buffer \in Seq(Values)
           /\ channels[c].sendQ \in Seq(SenderType)
           /\ channels[c].recvQ \in Seq(WaiterType) /\ channels[c].closed \in BOOLEAN
           /\ ledger[c].sent \in Nat /\ ledger[c].accepted \in Nat
           /\ ledger[c].delivered \in Nat /\ ledger[c].lastGot \in Nat
           /\ ChanOK(channels[c], ledger[c])
<1>1. channels[c] \in ChannelType /\ ledger[c] \in LedgerType
  BY DEF Typed
<1>2. ChanOK(channels[c], ledger[c])
  BY DEF ChanInv
<1> QED
  BY <1>1, <1>2 DEF ChannelType, LedgerType

LEMMA ChannelCalls ==
    ASSUME Typed, ChanInv, NEW c \in ChannelHandles,
           \/ sendHandoff(c) \/ sendBuffered(c) \/ sendParked(c)
           \/ recvBuffered(c) \/ recvRefill(c) \/ recvRendezvous(c) \/ recvParked(c)
           \/ channelClose(c)
    PROVE  ChanInv'
<1> DEFINE ch == channels[c]
           l == ledger[c]
           s == l.sent
           a == l.accepted
           d == l.delivered
           g == l.lastGot
           n == Len(ch.buffer)
<1>c. /\ c \in ChannelIds /\ nextChannelId' = nextChannelId
      /\ nextChannelId' \in Int /\ nextChannelId <= nextChannelId' /\ c < nextChannelId'
  <2>1. nextChannelId' = nextChannelId
    BY Zenon DEF sendHandoff, sendBuffered, sendParked, recvBuffered, recvRefill,
                 recvRendezvous, recvParked, channelClose, channelVars
  <2> QED
    BY <2>1, HandleType DEF ChannelHandles, Typed
<1>f. /\ ch.capacity \in Nat /\ ch.buffer \in Seq(Values)
      /\ ch.sendQ \in Seq(SenderType) /\ ch.recvQ \in Seq(WaiterType)
      /\ s \in Nat /\ a \in Nat /\ d \in Nat /\ g \in Nat
  BY <1>c, ChanFacts
<1>s. /\ ShapeOK(ch.capacity, ch.buffer, ch.sendQ, ch.recvQ, ch.closed)
      /\ FIFO(ch.buffer, ch.sendQ, g, s)
      /\ a = d + Len(ch.buffer) /\ g <= s
  BY <1>c, ChanFacts DEF ChanOK
<1>n. n \in Nat /\ a = d + n
  BY <1>f, <1>s
<1> HIDE DEF ch, l, s, a, d, g, n
<1>b. /\ a + 1 = d + 1 + n /\ a + 1 = d + (n + 1) /\ a + 0 = d + 1 + (n - 1)
      /\ s + 1 <= s + 1 /\ g <= s + 1
  BY <1>f, <1>n, <1>s
<1>1. CASE sendHandoff(c)
  <2>1. ch.recvQ # <<>> /\ ch.buffer = <<>> /\ ch.sendQ = <<>>
    BY <1>1, <1>s DEF sendHandoff, ShapeOK, ch, l, s, a, d, g
  <2>2. ShapeOK(ch.capacity, ch.buffer, ch.sendQ, Tail(ch.recvQ), ch.closed)
    BY <1>s, <2>1 DEF ShapeOK
  <2>3. FIFO(ch.buffer, ch.sendQ, s + 1, s + 1)
    BY <2>1 DEF FIFO
  <2>4. a + 1 = d + 1 + Len(ch.buffer) /\ s + 1 <= s + 1
    BY <1>b, Zenon DEF n
  <2>5. /\ channels' = [channels EXCEPT ![c] =
              Chan(ch.capacity, ch.buffer, ch.sendQ, Tail(ch.recvQ), ch.closed)]
        /\ ledger' = [ledger EXCEPT ![c] = Log(s + 1, a + 1, d + 1, s + 1)]
    BY <1>1, Zenon DEF sendHandoff, ch, l, s, a, d, g
  <2>6. ChanOK(Chan(ch.capacity, ch.buffer, ch.sendQ, Tail(ch.recvQ), ch.closed),
               Log(s + 1, a + 1, d + 1, s + 1))
    BY <2>2, <2>3, <2>4, ChanFields, Zenon
  <2> QED
    BY <1>c, <2>5, <2>6, ChangedChannel, Zenon
<1>2. CASE sendBuffered(c)
  <2>1. /\ ch.recvQ = <<>> /\ Len(ch.buffer) < ch.capacity /\ ch.sendQ = <<>>
    BY <1>2, <1>s, <1>f DEF sendBuffered, ShapeOK, ch, l, s, a, d, g
  <2> DEFINE b == Append(ch.buffer, s + 1)
  <2>2. Len(b) = Len(ch.buffer) + 1 /\ Len(ch.buffer) \in Nat
    BY <1>f
  <2>3. ShapeOK(ch.capacity, b, ch.sendQ, ch.recvQ, ch.closed)
    BY <1>s, <1>f, <2>1, <2>2 DEF ShapeOK
  <2>4. FIFO(b, ch.sendQ, g, s + 1)
    BY <1>f, <1>s, <2>1, BufferedFIFO
  <2>5. a + 1 = d + Len(b) /\ g <= s + 1
    BY <1>b, <2>2, Zenon DEF n
  <2>6. /\ channels' = [channels EXCEPT ![c] =
              Chan(ch.capacity, b, ch.sendQ, ch.recvQ, ch.closed)]
        /\ ledger' = [ledger EXCEPT ![c] = Log(s + 1, a + 1, d, g)]
    BY <1>2, Zenon DEF sendBuffered, ch, l, s, a, d, g
  <2> HIDE DEF b
  <2>7. ChanOK(Chan(ch.capacity, b, ch.sendQ, ch.recvQ, ch.closed),
               Log(s + 1, a + 1, d, g))
    BY <2>3, <2>4, <2>5, ChanFields, Zenon
  <2> QED
    BY <1>c, <2>6, <2>7, ChangedChannel, Zenon
<1>3. CASE sendParked(c)
  <2>1. /\ ch.recvQ = <<>> /\ Len(ch.buffer) = ch.capacity /\ guest
        /\ ch.closed = FALSE
    BY <1>3, <1>s, <1>f, <1>c, ChanFacts DEF sendParked, canSend, ShapeOK, ch, l, s, a, d, g
  <2> DEFINE x == Sender(s + 1)
             sq == Append(ch.sendQ, x)
  <2>2. x \in SenderType /\ x.value = s + 1
    <3>0. s < MaxSends
      BY <1>3, Zenon DEF sendParked, canSend, l, s
    <3>1. s + 1 \in Values
      BY <1>f, <3>0, BoundsAssumption DEF Values
    <3> QED
      BY <2>1, <3>1, GuestType DEF Sender, SenderType, Typed
  <2>3. ShapeOK(ch.capacity, ch.buffer, sq, ch.recvQ, ch.closed)
    BY <1>s, <1>f, <2>1 DEF ShapeOK
  <2>4. FIFO(ch.buffer, sq, g, s + 1)
    BY <1>f, <1>s, <2>2, ParkedFIFO
  <2>5. a = d + Len(ch.buffer) /\ g <= s + 1
    BY <1>b, <1>s, Zenon DEF n
  <2>6. /\ channels' = [channels EXCEPT ![c] =
              Chan(ch.capacity, ch.buffer, sq, ch.recvQ, ch.closed)]
        /\ ledger' = [ledger EXCEPT ![c] = Log(s + 1, a, d, g)]
    BY <1>3, Zenon DEF sendParked, ch, l, s, a, d, g
  <2> HIDE DEF sq
  <2>7. ChanOK(Chan(ch.capacity, ch.buffer, sq, ch.recvQ, ch.closed),
               Log(s + 1, a, d, g))
    BY <2>3, <2>4, <2>5, ChanFields, Zenon
  <2> QED
    BY <1>c, <2>6, <2>7, ChangedChannel, Zenon
<1>4. CASE recvBuffered(c)
  <2>1. ch.buffer # <<>> /\ ch.sendQ = <<>>
    BY <1>4 DEF recvBuffered, ch, l, s, a, d, g
  <2> DEFINE b == Tail(ch.buffer)
             v == Head(ch.buffer)
  <2>2. Len(b) = Len(ch.buffer) - 1 /\ Len(ch.buffer) \in Nat
    BY <1>f, <2>1
  <2>3. ShapeOK(ch.capacity, b, ch.sendQ, ch.recvQ, ch.closed)
    BY <1>s, <1>f, <2>1, <2>2 DEF ShapeOK
  <2>4. FIFO(b, ch.sendQ, v, s) /\ v <= s
    BY <1>f, <1>s, <2>1, TakeBufferFIFO
  <2>5. a + 0 = d + 1 + Len(b)
    BY <1>b, <2>2, Zenon DEF n
  <2>6. /\ channels' = [channels EXCEPT ![c] =
              Chan(ch.capacity, b, ch.sendQ, ch.recvQ, ch.closed)]
        /\ ledger' = [ledger EXCEPT ![c] = Log(s, a + 0, d + 1, v)]
    BY <1>4, Zenon DEF recvBuffered, deliver, ch, l, s, a, d, g
  <2> HIDE DEF b, v
  <2>7. ChanOK(Chan(ch.capacity, b, ch.sendQ, ch.recvQ, ch.closed),
               Log(s, a + 0, d + 1, v))
    BY <2>3, <2>4, <2>5, ChanFields, Zenon
  <2> QED
    BY <1>c, <2>6, <2>7, ChangedChannel, Zenon
<1>5. CASE recvRefill(c)
  <2>1. ch.buffer # <<>> /\ ch.sendQ # <<>>
    BY <1>5 DEF recvRefill, ch, l, s, a, d, g
  <2> DEFINE t == Tail(ch.buffer)
             v == Head(ch.buffer)
             b == Append(t, Head(ch.sendQ).value)
             sq == Tail(ch.sendQ)
  <2>2. t \in Seq(Values) /\ Head(ch.sendQ) \in SenderType /\ v \in Values
    BY <1>f, <2>1
  <2>3. Head(ch.sendQ).value \in Values /\ v \in Nat
    BY <2>2, BoundsAssumption DEF SenderType, Values
  <2>4. Len(b) = Len(ch.buffer) /\ Len(ch.buffer) \in Nat
    BY <1>f, <2>1, <2>2
  <2>5. ShapeOK(ch.capacity, b, sq, ch.recvQ, ch.closed)
    BY <1>s, <1>f, <2>1, <2>4 DEF ShapeOK
  <2>6. FIFO(t, ch.sendQ, v, s) /\ v <= s
    BY <1>f, <1>s, <2>1, TakeBufferFIFO
  <2>7. FIFO(b, sq, v, s)
    BY <1>f, <2>1, <2>2, <2>3, <2>6, RefillFIFO
  <2>8. a + 1 = d + 1 + Len(b)
    BY <1>b, <2>4, Zenon DEF n
  <2>9. /\ channels' = [channels EXCEPT ![c] =
              Chan(ch.capacity, b, sq, ch.recvQ, ch.closed)]
        /\ ledger' = [ledger EXCEPT ![c] = Log(s, a + 1, d + 1, v)]
    BY <1>5, Zenon DEF recvRefill, deliver, ch, l, s, a, d, g
  <2> HIDE DEF b, v, sq
  <2>10. ChanOK(Chan(ch.capacity, b, sq, ch.recvQ, ch.closed),
                Log(s, a + 1, d + 1, v))
    BY <2>5, <2>6, <2>7, <2>8, ChanFields, Zenon
  <2> QED
    BY <1>c, <2>9, <2>10, ChangedChannel, Zenon
<1>6. CASE recvRendezvous(c)
  <2>1. ch.buffer = <<>> /\ ch.sendQ # <<>>
    BY <1>6 DEF recvRendezvous, ch, l, s, a, d, g
  <2> DEFINE v == Head(ch.sendQ).value
             sq == Tail(ch.sendQ)
  <2>2. ShapeOK(ch.capacity, ch.buffer, sq, ch.recvQ, ch.closed)
    BY <1>s, <1>f, <2>1 DEF ShapeOK
  <2>3. FIFO(ch.buffer, sq, v, s) /\ v <= s
    BY <1>f, <1>s, <2>1, TakeSenderFIFO
  <2>4. a + 1 = d + 1 + Len(ch.buffer)
    BY <1>b, Zenon DEF n
  <2>5. /\ channels' = [channels EXCEPT ![c] =
              Chan(ch.capacity, ch.buffer, sq, ch.recvQ, ch.closed)]
        /\ ledger' = [ledger EXCEPT ![c] = Log(s, a + 1, d + 1, v)]
    BY <1>6, Zenon DEF recvRendezvous, deliver, ch, l, s, a, d, g
  <2> HIDE DEF v, sq
  <2>6. ChanOK(Chan(ch.capacity, ch.buffer, sq, ch.recvQ, ch.closed),
               Log(s, a + 1, d + 1, v))
    BY <2>2, <2>3, <2>4, ChanFields, Zenon
  <2> QED
    BY <1>c, <2>5, <2>6, ChangedChannel, Zenon
<1>7. CASE recvParked(c)
  <2> DEFINE rq == Append(ch.recvQ, Caller)
  <2>1. ShapeOK(ch.capacity, ch.buffer, ch.sendQ, rq, ch.closed)
    BY <1>7, <1>s, <1>f, <1>c, ChanFacts DEF recvParked, ShapeOK, ch, l, s, a, d, g
  <2>2. /\ channels' = [channels EXCEPT ![c] =
              Chan(ch.capacity, ch.buffer, ch.sendQ, rq, ch.closed)]
        /\ ledger' = ledger
    BY <1>7, Zenon DEF recvParked, ch, l, s, a, d, g
  <2> HIDE DEF rq
  <2>3. ChanOK(Chan(ch.capacity, ch.buffer, ch.sendQ, rq, ch.closed), l)
    BY <1>s, <2>1, ChanFieldsNoLog, Zenon DEF s, a, d, g
  <2> QED
    BY <1>c, <2>2, <2>3, ChangedChannelNoLog, Zenon DEF l
<1>8. CASE channelClose(c)
  <2>1. ShapeOK(ch.capacity, ch.buffer, <<>>, <<>>, TRUE)
    BY <1>s DEF ShapeOK
  <2>2. FIFO(ch.buffer, <<>>, g, s)
    BY <1>s DEF FIFO
  <2>3. /\ channels' = [channels EXCEPT ![c] =
              Chan(ch.capacity, ch.buffer, <<>>, <<>>, TRUE)]
        /\ ledger' = ledger
    BY <1>8, Zenon DEF channelClose, ch, l, s, a, d, g
  <2>4. ChanOK(Chan(ch.capacity, ch.buffer, <<>>, <<>>, TRUE), l)
    BY <1>s, <2>1, <2>2, ChanFieldsNoLog, Zenon DEF s, a, d, g
  <2> QED
    BY <1>c, <2>3, <2>4, ChangedChannelNoLog, Zenon DEF l
<1> QED
  BY <1>1, <1>2, <1>3, <1>4, <1>5, <1>6, <1>7, <1>8

\* A new channel replaces an empty record that nobody has used.
LEMMA ChannelNewOK ==
    ASSUME Typed, ChanInv, NEW cap \in 0..MaxCapacity, channelNew(cap)
    PROVE  ChanInv'
<1> DEFINE c == nextChannelId
           l == ledger[c]
<1>1. /\ c \in ChannelIds /\ nextChannelId' = c + 1 /\ nextChannelId' \in Int
      /\ nextChannelId <= nextChannelId' /\ c < nextChannelId' /\ c >= nextChannelId
  <2>1. nextChannelId <= MaxChannels /\ nextChannelId' = nextChannelId + 1
    BY Zenon DEF channelNew
  <2> QED
    BY <2>1, BoundsAssumption DEF Typed, ChannelIds
<1>2. /\ channels' = [channels EXCEPT ![c] = Chan(cap, <<>>, <<>>, <<>>, FALSE)]
      /\ ledger' = ledger
  BY Zenon DEF channelNew, EmptyChannel
<1>3. /\ FIFO(channels[c].buffer, channels[c].sendQ, l.lastGot, l.sent)
      /\ l.accepted = l.delivered + Len(channels[c].buffer) /\ l.lastGot <= l.sent
      /\ channels[c].buffer = <<>>
  BY <1>1, Zenon DEF ChanInv, ChanOK
<1>4. ShapeOK(cap, <<>>, <<>>, <<>>, FALSE) /\ FIFO(<<>>, <<>>, l.lastGot, l.sent)
  <2>1. ShapeOK(cap, <<>>, <<>>, <<>>, FALSE)
    BY BoundsAssumption DEF ShapeOK
  <2>2. FIFO(<<>>, <<>>, l.lastGot, l.sent)
    BY DEF FIFO
  <2> QED
    BY <2>1, <2>2
<1>5. l.accepted = l.delivered + Len(<<>>)
  BY <1>3, Zenon
<1>6. ChanOK(Chan(cap, <<>>, <<>>, <<>>, FALSE), l)
  BY <1>3, <1>4, <1>5, ChanFieldsNoLog, Zenon
<1> QED
  BY <1>1, <1>2, <1>6, ChangedChannelNoLog, Zenon

\* No other step touches a channel.
LEMMA ChanNext == Typed /\ ChanInv /\ [Next]_vars => ChanInv'
<1> SUFFICES ASSUME Typed, ChanInv, [Next]_vars PROVE ChanInv'
  OBVIOUS
<1>1. ASSUME UNCHANGED chanVars PROVE ChanInv'
  BY <1>1 DEF chanVars, ChanInv
<1>2. CASE UNCHANGED vars
  BY <1>1, <1>2, Zenon DEF vars
<1>3. CASE Parks
  <2>1. UNCHANGED chanVars
    BY <1>3, Zenon DEF Parks, awaitParked, yieldFast, yieldHop, hostDeferred,
                       hostImmediate, finish
  <2> QED
    BY <1>1, <2>1
<1>4. CASE Microtask
  <2>1. UNCHANGED chanVars
    BY <1>4, Zenon DEF Microtask, kick, runStart, runResume, hop, continueStack,
                       unwindStack, onComplete, onFailTop, onFailTask, hostHandler,
                       hostDone, promiseVars
  <2> QED
    BY <1>1, <2>1
<1>5. CASE TimerFires \/ HostSettles
  <2>1. UNCHANGED chanVars
    BY <1>5, Zenon DEF TimerFires, HostSettles, timerFire, hostSettle, hostDone
  <2> QED
    BY <1>1, <2>1
<1>6. CASE Calls
  <2>1. CASE taskCreate
    BY <1>1, <2>1, Zenon DEF taskCreate
  <2>2. ASSUME NEW tid \in Handles, NEW tryMode \in BOOLEAN,
               awaitSettled(tid, tryMode)
        PROVE  ChanInv'
    BY <1>1, <2>2, Zenon DEF awaitSettled
  <2>3. ASSUME NEW cap \in 0..MaxCapacity, channelNew(cap) PROVE ChanInv'
    BY <2>3, ChannelNewOK
  <2>4. ASSUME NEW c \in ChannelHandles,
               \/ sendHandoff(c) \/ sendBuffered(c) \/ sendParked(c)
               \/ recvBuffered(c) \/ recvRefill(c) \/ recvRendezvous(c) \/ recvParked(c)
               \/ channelClose(c)
        PROVE  ChanInv'
    BY <2>4, ChannelCalls
  <2> QED
    BY <1>6, <2>1, <2>2, <2>3, <2>4, Zenon DEF Calls
<1> QED
  BY <1>2, <1>3, <1>4, <1>5, <1>6, Zenon DEF Next

LEMMA ChanInvariant == Spec => []ChanInv
<1>1. Init => ChanInv
  BY ChanInit
<1>2. Spec => []Typed
  BY TypesHold
<1>3. Typed /\ ChanInv /\ [Next]_vars => ChanInv'
  BY ChanNext
<1> QED
  BY <1>1, <1>2, <1>3, PTL DEF Spec

\* The queues of every channel agree with its buffer and its capacity.
THEOREM ChannelShapeHolds == Spec => []ChannelShape
<1>1. ChanInv => ChannelShape
  BY Zenon DEF ChanInv, ChanOK, ChannelShape
<1> QED
  BY <1>1, ChanInvariant, PTL

\* Values leave every channel in the order of the sends.
THEOREM ChannelFIFOHolds == Spec => []ChannelFIFO
<1>1. ChanInv => ChannelFIFO
  BY Zenon DEF ChanInv, ChanOK, ChannelFIFO
<1> QED
  BY <1>1, ChanInvariant, PTL

\* What a channel accepted it delivered once, or holds.
THEOREM ChannelConservationHolds == Spec => []ChannelConservation
<1>1. ChanInv => ChannelConservation
  BY Zenon DEF ChanInv, ChanOK, ChannelConservation
<1> QED
  BY <1>1, ChanInvariant, PTL

-----------------------------------------------------------------------------
(***************************************************************************)
(* Counting: how many entries of a queue belong to a stack, and how many   *)
(* elements a family of queues has, after the operations of the scheduler. *)
(***************************************************************************)
\* 1 for an element of S, and for something of the stack t, 0 for others.
In(e, S) == IF e \in S THEN 1 ELSE 0
Own(w, t) == IF w.who = t THEN 1 ELSE 0

\* The positions of a queue that hold an element of S.
Pos(q, S) == {i \in DOMAIN q : q[i] \in S}
Num(q, S) == Cardinality(Pos(q, S))

LEMMA CardBijection ==
    ASSUME NEW A, IsFiniteSet(A), NEW B, NEW f \in [A -> B],
           \A x, y \in A : f[x] = f[y] => x = y,
           \A z \in B : \E x \in A : f[x] = z
    PROVE  IsFiniteSet(B) /\ Cardinality(B) = Cardinality(A)
<1>1. f \in Bijection(A, B)
  BY DEF Bijection, Injection, Surjection, IsInjective
<1>2. ExistsBijection(A, B)
  BY <1>1, Zenon DEF ExistsBijection
<1> QED
  BY <1>2, FS_Bijection, Zenon

\* Moving a set of positions along keeps its size.
LEMMA CardShift ==
    ASSUME NEW A, IsFiniteSet(A), A \subseteq Int, NEW n \in Int,
           NEW B, B = {i + n : i \in A}
    PROVE  IsFiniteSet(B) /\ Cardinality(B) = Cardinality(A)
<1> DEFINE f == [i \in A |-> i + n]
<1>1. f \in [A -> B]
  OBVIOUS
<1>2. \A x, y \in A : f[x] = f[y] => x = y
  OBVIOUS
<1>3. \A z \in B : \E x \in A : f[x] = z
  OBVIOUS
<1> HIDE DEF f
<1> QED
  BY <1>1, <1>2, <1>3, CardBijection, Zenon

LEMMA CardDisjoint ==
    ASSUME NEW A, IsFiniteSet(A), NEW B, IsFiniteSet(B), A \cap B = {}
    PROVE  /\ IsFiniteSet(A \cup B)
           /\ Cardinality(A \cup B) = Cardinality(A) + Cardinality(B)
<1>1. /\ IsFiniteSet(A \cup B)
      /\ Cardinality(A \cup B) = Cardinality(A) + Cardinality(B) - Cardinality(A \cap B)
  BY FS_Union, Zenon
<1>2. Cardinality(A \cap B) = 0
  BY FS_EmptySet, Zenon
<1>3. Cardinality(A) \in Nat /\ Cardinality(B) \in Nat
  BY FS_CardinalityType, Zenon
<1> QED
  BY <1>1, <1>2, <1>3

LEMMA PosFinite ==
    ASSUME NEW T, NEW q \in Seq(T), NEW S
    PROVE  IsFiniteSet(Pos(q, S)) /\ Num(q, S) \in Nat /\ Pos(q, S) \subseteq 1..Len(q)
<1>1. Pos(q, S) \subseteq 1..Len(q) /\ Len(q) \in Int
  BY DEF Pos
<1>2. IsFiniteSet(1..Len(q))
  BY <1>1, FS_Interval
<1>3. IsFiniteSet(Pos(q, S))
  BY <1>1, <1>2, FS_Subset, Zenon
<1> QED
  BY <1>1, <1>3, FS_CardinalityType, Zenon DEF Num

LEMMA NumEmpty ==
    ASSUME NEW S
    PROVE  Num(<<>>, S) = 0
<1>1. Pos(<<>>, S) = {}
  BY DEF Pos
<1> QED
  BY <1>1, FS_EmptySet, Zenon DEF Num

LEMMA NumSingle ==
    ASSUME NEW e, NEW S
    PROVE  Num(<<e>>, S) = In(e, S)
<1>1. CASE e \in S
  <2>1. Pos(<<e>>, S) = {1}
    BY <1>1 DEF Pos
  <2>2. Cardinality({1}) = 1
    BY FS_Singleton
  <2> QED
    BY <1>1, <2>1, <2>2 DEF Num, In
<1>2. CASE e \notin S
  <2>1. Pos(<<e>>, S) = {}
    BY <1>2 DEF Pos
  <2> QED
    BY <1>2, <2>1, FS_EmptySet DEF Num, In
<1> QED
  BY <1>1, <1>2

LEMMA NumConcat ==
    ASSUME NEW T, NEW q \in Seq(T), NEW r \in Seq(T), NEW S
    PROVE  Num(q \o r, S) = Num(q, S) + Num(r, S)
<1> DEFINE B == {i + Len(q) : i \in Pos(r, S)}
<1>1. Pos(q \o r, S) = Pos(q, S) \cup B
  <2>1. DOMAIN (q \o r) = 1..(Len(q) + Len(r))
    OBVIOUS
  <2>2. \A i \in 1..Len(q) : (q \o r)[i] = q[i]
    OBVIOUS
  <2>3. \A i \in 1..Len(r) : (q \o r)[i + Len(q)] = r[i]
    OBVIOUS
  <2>4. DOMAIN q = 1..Len(q) /\ DOMAIN r = 1..Len(r) /\ Len(q) \in Nat /\ Len(r) \in Nat
    OBVIOUS
  <2>5. ASSUME NEW i \in Pos(q \o r, S) PROVE i \in Pos(q, S) \cup B
    <3>1. CASE i \in 1..Len(q)
      BY <2>2, <2>4, <2>5, <3>1 DEF Pos
    <3>2. CASE i \notin 1..Len(q)
      <4>1. i \in 1..(Len(q) + Len(r)) /\ (q \o r)[i] \in S
        BY <2>1, <2>5, Zenon DEF Pos
      <4>2. i - Len(q) \in 1..Len(r) /\ i = (i - Len(q)) + Len(q)
        BY <2>4, <3>2, <4>1
      <4>3. (q \o r)[(i - Len(q)) + Len(q)] = r[i - Len(q)]
        BY <2>3, <4>2, Zenon
      <4>4. i - Len(q) \in Pos(r, S)
        BY <2>4, <4>1, <4>2, <4>3, Zenon DEF Pos
      <4> QED
        BY <4>2, <4>4
    <3> QED
      BY <3>1, <3>2
  <2>6. Pos(q, S) \subseteq Pos(q \o r, S)
    BY <2>1, <2>2, <2>4 DEF Pos
  <2>7. ASSUME NEW i \in Pos(r, S) PROVE i + Len(q) \in Pos(q \o r, S)
    <3>1. i \in 1..Len(r) /\ r[i] \in S
      BY <2>4, <2>7, Zenon DEF Pos
    <3>2. i + Len(q) \in 1..(Len(q) + Len(r))
      BY <2>4, <3>1
    <3> QED
      BY <2>1, <2>3, <3>1, <3>2, Zenon DEF Pos
  <2> QED
    BY <2>5, <2>6, <2>7
<1>2. /\ IsFiniteSet(Pos(q, S)) /\ Pos(q, S) \subseteq 1..Len(q)
      /\ IsFiniteSet(Pos(r, S)) /\ Pos(r, S) \subseteq 1..Len(r)
  BY PosFinite, Zenon
<1>3. Pos(r, S) \subseteq Int /\ Len(q) \in Int
  BY <1>2
<1>4. IsFiniteSet(B) /\ Cardinality(B) = Num(r, S)
  BY <1>2, <1>3, CardShift, Zenon DEF Num
<1>5. Pos(q, S) \cap B = {}
  BY <1>2
<1> QED
  BY <1>1, <1>2, <1>4, <1>5, CardDisjoint, Zenon DEF Num

LEMMA NumAppend ==
    ASSUME NEW T, NEW q \in Seq(T), NEW e \in T, NEW S
    PROVE  Num(Append(q, e), S) = Num(q, S) + In(e, S)
<1>1. Append(q, e) = q \o <<e>> /\ <<e>> \in Seq(T)
  OBVIOUS
<1>2. Num(q \o <<e>>, S) = Num(q, S) + Num(<<e>>, S)
  BY <1>1, NumConcat
<1>3. Num(<<e>>, S) = In(e, S)
  BY NumSingle
<1> QED
  BY <1>1, <1>2, <1>3

LEMMA NumTail ==
    ASSUME NEW T, NEW q \in Seq(T), q # <<>>, NEW S
    PROVE  Num(Tail(q), S) = Num(q, S) - In(Head(q), S)
<1>1. q = <<Head(q)>> \o Tail(q) /\ <<Head(q)>> \in Seq(T) /\ Tail(q) \in Seq(T)
  OBVIOUS
<1>2. Num(<<Head(q)>> \o Tail(q), S) = Num(<<Head(q)>>, S) + Num(Tail(q), S)
  BY <1>1, NumConcat
<1>3. Num(<<Head(q)>>, S) = In(Head(q), S)
  BY NumSingle
<1>4. Num(q, S) = Num(<<Head(q)>> \o Tail(q), S)
  BY <1>1, Zenon
<1>5. Num(q, S) \in Nat /\ Num(Tail(q), S) \in Nat
  BY <1>1, PosFinite, Zenon
<1>6. In(Head(q), S) \in Nat
  BY DEF In
<1> QED
  BY <1>2, <1>3, <1>4, <1>5, <1>6

-----------------------------------------------------------------------------
(* Families of sets that overlap nowhere.                                  *)

LEMMA FamilyFinite ==
    ASSUME NEW K, IsFiniteSet(K), NEW A, \A k \in K : IsFiniteSet(A[k])
    PROVE  IsFiniteSet(UNION {A[k] : k \in K})
<1> DEFINE T == {A[k] : k \in K}
           f == [k \in K |-> A[k]]
<1>1. f \in Surjection(K, T)
  BY DEF Surjection
<1>2. IsFiniteSet(T)
  BY <1>1, FS_Surjection, Zenon
<1> HIDE DEF f
<1>3. \A S \in T : IsFiniteSet(S)
  OBVIOUS
<1> HIDE DEF T
<1> QED
  BY <1>2, <1>3, FS_UNION, Zenon DEF T

\* U and V are the unions of two families that differ in one member only.
Replaces(K, k0, A, B, U, V) ==
    /\ IsFiniteSet(K) /\ k0 \in K
    /\ \A k \in K : IsFiniteSet(A[k]) /\ IsFiniteSet(B[k])
    /\ \A k \in K : k # k0 => A[k] = B[k]
    /\ \A k \in K : k # k0 => A[k] \cap A[k0] = {} /\ B[k] \cap B[k0] = {}
    /\ U = UNION {A[k] : k \in K}
    /\ V = UNION {B[k] : k \in K}

\* The size of the union changes by as much as that member's.
LEMMA FamilyUpdate ==
    ASSUME NEW K, NEW k0, NEW A, NEW B, NEW U, NEW V, Replaces(K, k0, A, B, U, V)
    PROVE  Cardinality(V) = Cardinality(U) - Cardinality(A[k0]) + Cardinality(B[k0])
<1> USE DEF Replaces
<1> DEFINE J == K \ {k0}
           R == UNION {A[k] : k \in J}
<1>1. IsFiniteSet(J)
  BY FS_Difference, Zenon
<1>2. IsFiniteSet(R)
  <2>1. \A k \in J : IsFiniteSet(A[k])
    OBVIOUS
  <2>2. ASSUME NEW I, IsFiniteSet(I), \A k \in I : IsFiniteSet(A[k])
        PROVE  IsFiniteSet(UNION {A[k] : k \in I})
    BY <2>2, FamilyFinite
  <2> QED
    BY <1>1, <2>1, <2>2
<1>3. U = R \cup A[k0] /\ R \cap A[k0] = {}
  OBVIOUS
<1>4. V = R \cup B[k0] /\ R \cap B[k0] = {}
  OBVIOUS
<1>5. /\ Cardinality(R \cup A[k0]) = Cardinality(R) + Cardinality(A[k0])
      /\ Cardinality(R \cup B[k0]) = Cardinality(R) + Cardinality(B[k0])
  BY <1>2, <1>3, <1>4, CardDisjoint, Zenon
<1>6. Cardinality(R) \in Nat /\ Cardinality(A[k0]) \in Nat /\ Cardinality(B[k0]) \in Nat
  BY <1>2, FS_CardinalityType, Zenon
<1>7. /\ Cardinality(U) = Cardinality(R) + Cardinality(A[k0])
      /\ Cardinality(V) = Cardinality(R) + Cardinality(B[k0])
  BY <1>3, <1>4, <1>5, Zenon
<1> HIDE DEF R
<1> QED
  BY <1>6, <1>7

LEMMA CardPair ==
    ASSUME NEW D, IsFiniteSet(D), NEW u
    PROVE  IsFiniteSet({u} \X D) /\ Cardinality({u} \X D) = Cardinality(D)
<1> DEFINE B == {u} \X D
           f == [d \in D |-> <<u, d>>]
<1>1. f \in [D -> B]
  OBVIOUS
<1>2. \A x, y \in D : f[x] = f[y] => x = y
  OBVIOUS
<1>3. \A z \in B : \E x \in D : f[x] = z
  OBVIOUS
<1> HIDE DEF f, B
<1>4. IsFiniteSet(B) /\ Cardinality(B) = Cardinality(D)
  BY <1>1, <1>2, <1>3, CardBijection, Zenon
<1> QED
  BY <1>4, Zenon DEF B

LEMMA CardTriple ==
    ASSUME NEW D, IsFiniteSet(D), NEW s, NEW u
    PROVE  IsFiniteSet({s} \X {u} \X D) /\ Cardinality({s} \X {u} \X D) = Cardinality(D)
<1> DEFINE B == {s} \X {u} \X D
           f == [d \in D |-> <<s, u, d>>]
<1>1. f \in [D -> B]
  OBVIOUS
<1>2. \A x, y \in D : f[x] = f[y] => x = y
  OBVIOUS
<1>3. \A z \in B : \E x \in D : f[x] = z
  OBVIOUS
<1> HIDE DEF f, B
<1>4. IsFiniteSet(B) /\ Cardinality(B) = Cardinality(D)
  BY <1>1, <1>2, <1>3, CardBijection, Zenon
<1> QED
  BY <1>4, Zenon DEF B

-----------------------------------------------------------------------------
(* How many entries of a queue, and of a family of queues, are of a stack. *)

Count(q, t) == Cardinality(At(q, t))

LEMMA CountNum ==
    ASSUME NEW T, NEW q \in Seq(T), NEW t
    PROVE  /\ At(q, t) = Pos(q, {e \in T : e.who = t})
           /\ Count(q, t) = Num(q, {e \in T : e.who = t})
           /\ Count(q, t) \in Nat
           /\ IsFiniteSet(At(q, t))
<1>1. At(q, t) = Pos(q, {e \in T : e.who = t})
  <2>1. \A i \in DOMAIN q : q[i] \in T
    OBVIOUS
  <2> QED
    BY <2>1, Zenon DEF At, Pos
<1> QED
  BY <1>1, PosFinite, Zenon DEF Count, Num

LEMMA CountEmpty ==
    ASSUME NEW t
    PROVE  Count(<<>>, t) = 0
<1>1. At(<<>>, t) = {}
  BY DEF At
<1> QED
  BY <1>1, FS_EmptySet, Zenon DEF Count

LEMMA CountAppend ==
    ASSUME NEW T, NEW q \in Seq(T), NEW e \in T, NEW t
    PROVE  Count(Append(q, e), t) = Count(q, t) + Own(e, t)
<1> DEFINE S == {x \in T : x.who = t}
<1>1. Append(q, e) \in Seq(T)
  OBVIOUS
<1>2. Count(Append(q, e), t) = Num(Append(q, e), S) /\ Count(q, t) = Num(q, S)
  BY <1>1, CountNum, Zenon
<1>3. Num(Append(q, e), S) = Num(q, S) + In(e, S)
  BY NumAppend
<1>4. In(e, S) = Own(e, t)
  BY DEF In, Own
<1> HIDE DEF S
<1> QED
  BY <1>2, <1>3, <1>4

LEMMA CountTail ==
    ASSUME NEW T, NEW q \in Seq(T), q # <<>>, NEW t
    PROVE  Count(Tail(q), t) = Count(q, t) - Own(Head(q), t)
<1> DEFINE S == {x \in T : x.who = t}
<1>1. Tail(q) \in Seq(T) /\ Head(q) \in T
  OBVIOUS
<1>2. Count(Tail(q), t) = Num(Tail(q), S) /\ Count(q, t) = Num(q, S)
  BY <1>1, CountNum, Zenon
<1>3. Num(Tail(q), S) = Num(q, S) - In(Head(q), S)
  BY NumTail
<1>4. In(Head(q), S) = Own(Head(q), t)
  BY <1>1 DEF In, Own
<1> HIDE DEF S
<1> QED
  BY <1>2, <1>3, <1>4

LEMMA CountConcat ==
    ASSUME NEW T, NEW q \in Seq(T), NEW r \in Seq(T), NEW t
    PROVE  Count(q \o r, t) = Count(q, t) + Count(r, t)
<1> DEFINE S == {x \in T : x.who = t}
<1>1. q \o r \in Seq(T)
  OBVIOUS
<1>2. Count(q \o r, t) = Num(q \o r, S) /\ Count(q, t) = Num(q, S) /\ Count(r, t) = Num(r, S)
  BY <1>1, CountNum, Zenon
<1>3. Num(q \o r, S) = Num(q, S) + Num(r, S)
  BY NumConcat
<1> HIDE DEF S
<1> QED
  BY <1>2, <1>3

\* Two queues whose entries are of the same stacks.
LEMMA CountSame ==
    ASSUME NEW q, NEW r, DOMAIN q = DOMAIN r, \A i \in DOMAIN q : q[i].who = r[i].who, NEW t
    PROVE  Count(q, t) = Count(r, t)
<1>1. At(q, t) = At(r, t)
  BY DEF At
<1> QED
  BY <1>1, Zenon DEF Count

\* A set of parked stacks.
Holds(W, t) == {w \in W : w.who = t}

LEMMA HoldsAdd ==
    ASSUME NEW W, IsFiniteSet(W), NEW w, w \notin W, NEW t
    PROVE  /\ Cardinality(Holds(W \cup {w}, t)) = Cardinality(Holds(W, t)) + Own(w, t)
           /\ Cardinality(W \cup {w}) = Cardinality(W) + 1
           /\ IsFiniteSet(W \cup {w})
<1>1. IsFiniteSet(Holds(W, t)) /\ w \notin Holds(W, t)
  <2>1. Holds(W, t) \in SUBSET W
    BY DEF Holds
  <2> QED
    BY <2>1, FS_Subset, Zenon
<1>2. Cardinality(W \cup {w}) = Cardinality(W) + 1 /\ IsFiniteSet(W \cup {w})
  BY FS_AddElement, Zenon
<1>3. CASE w.who = t
  <2>1. Holds(W \cup {w}, t) = Holds(W, t) \cup {w}
    BY <1>3 DEF Holds
  <2>2. Cardinality(Holds(W, t) \cup {w}) = Cardinality(Holds(W, t)) + 1
    BY <1>1, FS_AddElement, Zenon
  <2> QED
    BY <1>2, <1>3, <2>1, <2>2 DEF Own
<1>4. CASE w.who # t
  <2>1. Holds(W \cup {w}, t) = Holds(W, t)
    BY <1>4 DEF Holds
  <2>2. Cardinality(Holds(W, t)) \in Nat
    BY <1>1, FS_CardinalityType, Zenon
  <2> QED
    BY <1>2, <1>4, <2>1, <2>2 DEF Own
<1> QED
  BY <1>3, <1>4

LEMMA HoldsRemove ==
    ASSUME NEW W, IsFiniteSet(W), NEW w \in W, NEW t
    PROVE  /\ Cardinality(Holds(W \ {w}, t)) = Cardinality(Holds(W, t)) - Own(w, t)
           /\ Cardinality(W \ {w}) = Cardinality(W) - 1
           /\ IsFiniteSet(W \ {w})
<1> SUFFICES ASSUME NEW V, V = W \ {w}
             PROVE  /\ Cardinality(Holds(V, t)) = Cardinality(Holds(W, t)) - Own(w, t)
                    /\ Cardinality(V) = Cardinality(W) - 1
                    /\ IsFiniteSet(V)
  OBVIOUS
<1>1. IsFiniteSet(V)
  BY FS_RemoveElement, Zenon
<1>2. W = V \cup {w}
  OBVIOUS
<1>0. w \notin V
  OBVIOUS
<1>3. /\ Cardinality(Holds(V \cup {w}, t)) = Cardinality(Holds(V, t)) + Own(w, t)
      /\ Cardinality(V \cup {w}) = Cardinality(V) + 1
  BY <1>0, <1>1, HoldsAdd
<1>4. Holds(V, t) \in SUBSET V
  BY DEF Holds
<1>5. IsFiniteSet(Holds(V, t))
  BY <1>1, <1>4, FS_Subset, Zenon
<1>6. Own(w, t) \in Nat
  BY DEF Own
<1>7. Cardinality(V) \in Nat /\ Cardinality(Holds(V, t)) \in Nat
  BY <1>1, <1>5, FS_CardinalityType, Zenon
<1>8. /\ Cardinality(Holds(W, t)) = Cardinality(Holds(V, t)) + Own(w, t)
      /\ Cardinality(W) = Cardinality(V) + 1
  BY <1>2, <1>3, Zenon
<1> QED
  BY <1>1, <1>6, <1>7, <1>8

-----------------------------------------------------------------------------
(* Families of queues: the waiters of the tasks, the queues of the channels. *)

\* The entries of the stack t in the queues qs, and all their entries.
Tagged(s, K, qs, t) == UNION {{s} \X {k} \X At(qs[k], t) : k \in K}
Entries(K, qs) == UNION {{k} \X DOMAIN qs[k] : k \in K}

\* The queues rs are the queues qs but for one.
OneQueue(K, k0, T, qs, rs) ==
    /\ IsFiniteSet(K) /\ k0 \in K
    /\ \A k \in K : qs[k] \in Seq(T) /\ rs[k] \in Seq(T)
    /\ \A k \in K : k # k0 => qs[k] = rs[k]

LEMMA TaggedUpdate ==
    ASSUME NEW K, NEW k0, NEW T, NEW qs, NEW rs, OneQueue(K, k0, T, qs, rs), NEW s, NEW t
    PROVE  Cardinality(Tagged(s, K, rs, t)) =
              Cardinality(Tagged(s, K, qs, t)) - Count(qs[k0], t) + Count(rs[k0], t)
<1> USE DEF OneQueue
<1> DEFINE A == [k \in K |-> {s} \X {k} \X At(qs[k], t)]
           B == [k \in K |-> {s} \X {k} \X At(rs[k], t)]
<1>1. /\ Tagged(s, K, qs, t) = UNION {A[k] : k \in K}
      /\ Tagged(s, K, rs, t) = UNION {B[k] : k \in K}
  BY DEF Tagged
<1>2. \A k \in K : /\ A[k] = {s} \X {k} \X At(qs[k], t)
                   /\ B[k] = {s} \X {k} \X At(rs[k], t)
  OBVIOUS
<1> HIDE DEF A, B
<1>3. \A k \in K : IsFiniteSet(At(qs[k], t)) /\ IsFiniteSet(At(rs[k], t))
  BY CountNum, Zenon
<1>4. \A k \in K : /\ IsFiniteSet({s} \X {k} \X At(qs[k], t))
                   /\ IsFiniteSet({s} \X {k} \X At(rs[k], t))
                   /\ Cardinality({s} \X {k} \X At(qs[k], t)) = Count(qs[k], t)
                   /\ Cardinality({s} \X {k} \X At(rs[k], t)) = Count(rs[k], t)
  BY <1>3, CardTriple, Zenon DEF Count
<1>5. \A k \in K : /\ IsFiniteSet(A[k]) /\ IsFiniteSet(B[k])
                   /\ Cardinality(A[k]) = Count(qs[k], t) /\ Cardinality(B[k]) = Count(rs[k], t)
  BY <1>2, <1>4, Zenon
<1>6. \A k \in K : k # k0 => A[k] = B[k]
  BY <1>2, Zenon
<1>7. \A k \in K : k # k0 => A[k] \cap A[k0] = {} /\ B[k] \cap B[k0] = {}
  BY <1>2
<1>8. Replaces(K, k0, A, B, Tagged(s, K, qs, t), Tagged(s, K, rs, t))
  BY <1>1, <1>5, <1>6, <1>7, Zenon DEF Replaces
<1>9. Cardinality(A[k0]) = Count(qs[k0], t) /\ Cardinality(B[k0]) = Count(rs[k0], t)
  BY <1>5
<1>10. Cardinality(Tagged(s, K, rs, t)) = Cardinality(Tagged(s, K, qs, t)) - Cardinality(A[k0]) + Cardinality(B[k0])
  BY <1>8, FamilyUpdate
<1> QED
  BY <1>9, <1>10

LEMMA EntriesUpdate ==
    ASSUME NEW K, NEW k0, NEW T, NEW qs, NEW rs, OneQueue(K, k0, T, qs, rs)
    PROVE  Cardinality(Entries(K, rs)) =
              Cardinality(Entries(K, qs)) - Len(qs[k0]) + Len(rs[k0])
<1> USE DEF OneQueue
<1> DEFINE A == [k \in K |-> {k} \X DOMAIN qs[k]]
           B == [k \in K |-> {k} \X DOMAIN rs[k]]
<1>1. /\ Entries(K, qs) = UNION {A[k] : k \in K}
      /\ Entries(K, rs) = UNION {B[k] : k \in K}
  BY DEF Entries
<1>2. \A k \in K : A[k] = {k} \X DOMAIN qs[k] /\ B[k] = {k} \X DOMAIN rs[k]
  OBVIOUS
<1> HIDE DEF A, B
<1>3. \A q \in Seq(T) : IsFiniteSet(DOMAIN q) /\ Cardinality(DOMAIN q) = Len(q)
  <2> TAKE q \in Seq(T)
  <2>1. DOMAIN q = 1..Len(q) /\ Len(q) \in Nat /\ Len(q) \in Int /\ 1 \in Int
    OBVIOUS
  <2>2. /\ IsFiniteSet(1..Len(q))
        /\ Cardinality(1..Len(q)) = IF 1 > Len(q) THEN 0 ELSE Len(q) - 1 + 1
    BY <2>1, FS_Interval, Zenon
  <2> QED
    BY <2>1, <2>2
<1>4. \A k \in K : /\ IsFiniteSet({k} \X DOMAIN qs[k]) /\ IsFiniteSet({k} \X DOMAIN rs[k])
                   /\ Cardinality({k} \X DOMAIN qs[k]) = Len(qs[k])
                   /\ Cardinality({k} \X DOMAIN rs[k]) = Len(rs[k])
  <2> TAKE k \in K
  <2>1. /\ IsFiniteSet(DOMAIN qs[k]) /\ IsFiniteSet(DOMAIN rs[k])
        /\ Cardinality(DOMAIN qs[k]) = Len(qs[k]) /\ Cardinality(DOMAIN rs[k]) = Len(rs[k])
    BY <1>3, Zenon
  <2> QED
    BY <2>1, CardPair, Zenon
<1>5. \A k \in K : /\ IsFiniteSet(A[k]) /\ IsFiniteSet(B[k])
                   /\ Cardinality(A[k]) = Len(qs[k]) /\ Cardinality(B[k]) = Len(rs[k])
  BY <1>2, <1>4, Zenon
<1>6. \A k \in K : k # k0 => A[k] = B[k]
  BY <1>2, Zenon
<1>7. \A k \in K : k # k0 => A[k] \cap A[k0] = {} /\ B[k] \cap B[k0] = {}
  BY <1>2
<1>8. Replaces(K, k0, A, B, Entries(K, qs), Entries(K, rs))
  BY <1>1, <1>5, <1>6, <1>7, Zenon DEF Replaces
<1>9. Cardinality(A[k0]) = Len(qs[k0]) /\ Cardinality(B[k0]) = Len(rs[k0])
  BY <1>5
<1>10. Cardinality(Entries(K, rs)) = Cardinality(Entries(K, qs)) - Cardinality(A[k0]) + Cardinality(B[k0])
  BY <1>8, FamilyUpdate
<1> QED
  BY <1>9, <1>10

LEMMA FamilyTypes ==
    ASSUME NEW K, IsFiniteSet(K), NEW T, NEW qs, \A k \in K : qs[k] \in Seq(T), NEW s, NEW t
    PROVE  IsFiniteSet(Tagged(s, K, qs, t)) /\ Cardinality(Tagged(s, K, qs, t)) \in Nat
<1> DEFINE A == [k \in K |-> {s} \X {k} \X At(qs[k], t)]
<1>1. Tagged(s, K, qs, t) = UNION {A[k] : k \in K}
  BY DEF Tagged
<1>2. \A k \in K : A[k] = {s} \X {k} \X At(qs[k], t)
  OBVIOUS
<1> HIDE DEF A
<1>3. \A k \in K : IsFiniteSet(A[k])
  <2>1. \A k \in K : IsFiniteSet(At(qs[k], t))
    BY CountNum, Zenon
  <2>2. \A k \in K : IsFiniteSet({s} \X {k} \X At(qs[k], t))
    BY <2>1, CardTriple, Zenon
  <2> QED
    BY <1>2, <2>2, Zenon
<1>4. IsFiniteSet(UNION {A[k] : k \in K})
  BY <1>3, FamilyFinite
<1> QED
  BY <1>1, <1>4, FS_CardinalityType, Zenon

\* Queues that are all empty.
LEMMA FamilyNone ==
    ASSUME NEW K, NEW qs, \A k \in K : qs[k] = <<>>, NEW s, NEW t
    PROVE  Cardinality(Tagged(s, K, qs, t)) = 0 /\ Cardinality(Entries(K, qs)) = 0
<1>1. Tagged(s, K, qs, t) = {}
  BY DEF Tagged, At
<1>2. Entries(K, qs) = {}
  BY DEF Entries
<1> QED
  BY <1>1, <1>2, FS_EmptySet, Zenon

-----------------------------------------------------------------------------
(***************************************************************************)
(* Why one global `current' is enough when host calls complete as later    *)
(* events: there is one token, which is the stack on the thread, a queued  *)
(* runOne, the continuation of a stack or the settling of one, and every   *)
(* label that is parked is that of the stack it is parked for.             *)
(***************************************************************************)
Running == exec # None /\ current = exec /\ micro = <<>> /\ pumping = FALSE
Waiting == exec = None /\ micro = <<>> /\ pumping = FALSE
Pumped == exec = None /\ micro = <<RunOneJob>> /\ pumping = TRUE

Resuming ==
    /\ kicked = TRUE /\ exec = None /\ pumping = FALSE
    /\ \E n \in 1..AsyncHops, th \in BOOLEAN : micro = <<ContJob(current, n, th)>>

Settling ==
    /\ exec = None /\ pumping = FALSE
    /\ \E t \in Ids, th \in BOOLEAN : micro = <<SettleJob(t, th)>>

\* The top level has ended before kick().
SettlingPumped ==
    /\ exec = None /\ pumping = TRUE
    /\ \E t \in Ids, th \in BOOLEAN :
          micro = Append(<<SettleJob(t, th)>>, RunOneJob)

Token ==
    /\ Running \/ Waiting \/ Pumped \/ Resuming \/ Settling \/ SettlingPumped
    /\ kicked = FALSE => \A t \in Ids : state[t] \notin {"done", "failed"}

\* What is parked, or queued to run, under its own label.
OwnEntry == {e \in EntryType : e.id = e.who}
OwnWaiter == {w \in WaiterType : w.id = w.who}
OwnAwaiter == {w \in AwaiterType : w.id = w.who}
OwnSender == {w \in SenderType : w.id = w.who}

Labels ==
    /\ runnable \in Seq(OwnEntry)
    /\ timers \subseteq OwnWaiter /\ hosts \subseteq OwnWaiter
    /\ \A t \in Ids : waiters[t] \in Seq(OwnAwaiter)
    /\ \A c \in ChannelIds :
          channels[c].sendQ \in Seq(OwnSender) /\ channels[c].recvQ \in Seq(OwnWaiter)

\* schedule() queues one runOne at most.
LEMMA ScheduleToken ==
    ASSUME NEW m, schedule(m)
    PROVE  /\ pumping = TRUE => micro' = m /\ pumping' = TRUE
           /\ pumping = FALSE =>
                 \/ micro' = m /\ pumping' = FALSE
                 \/ micro' = Append(m, RunOneJob) /\ pumping' = TRUE
BY Zenon DEF schedule

LEMMA AppendHeadTail ==
    ASSUME NEW S, NEW q \in Seq(S), NEW b \in S, q # <<>>
    PROVE  Head(Append(q, b)) = Head(q) /\ Tail(Append(q, b)) = Append(Tail(q), b)
<1>1. Head(Append(q, b)) = Head(q)
  OBVIOUS
<1>2. Tail(Append(q, b)) = Append(Tail(q), b)
  OBVIOUS
<1> QED
  BY <1>1, <1>2

LEMMA Singletons ==
    ASSUME NEW a, NEW b
    PROVE  /\ Head(<<a>>) = a /\ Tail(<<a>>) = <<>> /\ <<a>> # <<>>
           /\ Append(<<>>, a) = <<a>>
           /\ Head(Append(<<a>>, b)) = a /\ Tail(Append(<<a>>, b)) = <<b>>
           /\ Append(<<a>>, b) # <<>>
<1>1. Head(<<a>>) = a
  OBVIOUS
<1>2. Tail(<<a>>) = <<>>
  OBVIOUS
<1>3. <<a>> # <<>> /\ Append(<<a>>, b) # <<>>
  OBVIOUS
<1>4. Append(<<>>, a) = <<a>> /\ Append(<<>>, b) = <<b>>
  OBVIOUS
<1>5. <<a>> \in Seq({a, b}) /\ b \in {a, b}
  OBVIOUS
<1>6. Head(Append(<<a>>, b)) = Head(<<a>>)
      /\ Tail(Append(<<a>>, b)) = Append(Tail(<<a>>), b)
  BY <1>3, <1>5, AppendHeadTail, Zenon
<1> QED
  BY <1>1, <1>2, <1>3, <1>4, <1>6, Zenon

\* A call of the stack on the thread is made with the token in hand.
LEMMA GuestToken ==
    ASSUME Token, guest
    PROVE  /\ Running
           /\ current' = current /\ kicked' = kicked
BY Zenon DEF Token, guest, Running, Waiting, Pumped, Resuming, Settling, SettlingPumped

\* A call that suspends through schedule() gives the token away.
LEMMA SuspendToken ==
    ASSUME Running, suspend
    PROVE  Waiting' \/ Pumped'
<1>1. exec' = None /\ schedule(<<>>) /\ pumping = FALSE
  BY Zenon DEF suspend, Running
<1>2. \/ micro' = <<>> /\ pumping' = FALSE
      \/ micro' = Append(<<>>, RunOneJob) /\ pumping' = TRUE
  BY <1>1, ScheduleToken, Zenon
<1>3. Append(<<>>, RunOneJob) = <<RunOneJob>>
  BY Singletons, Zenon
<1> QED
  BY <1>1, <1>2, <1>3, Zenon DEF Waiting, Pumped

\* The calls of a stack, which park it, end it or let it go on.
LEMMA CallsToken ==
    ASSUME Typed, Token, ~ImmediateHosts, Parks \/ Calls
    PROVE  Running' \/ Waiting' \/ Pumped' \/ Resuming' \/ Settling'
<1>1. guest
  BY Zenon DEF Parks, Calls, awaitParked, yieldFast, yieldHop, hostDeferred, hostImmediate,
               finish, taskCreate, awaitSettled, channelNew, sendHandoff, sendBuffered,
               sendParked, recvBuffered, recvRefill, recvRendezvous, recvParked,
               channelClose, canSend
<1>2. Running /\ current' = current /\ kicked' = kicked
  BY <1>1, GuestToken
<1>3. exec \in Ids
  BY <1>1, GuestType
<1>4. CASE stay
  BY <1>2, <1>4, StayType, Zenon DEF Running
<1>5. CASE suspend
  BY <1>2, <1>5, SuspendToken
<1>6. CASE yieldHop
  BY <1>2, <1>6, Zenon DEF yieldHop, Running, Waiting
<1>7. ASSUME NEW th \in BOOLEAN, finish(th) PROVE Settling'
  <2>1. micro' = Append(<<>>, SettleJob(exec, th)) /\ exec' = None /\ pumping' = FALSE
    BY <1>2, <1>7, Zenon DEF finish, Running
  <2>2. micro' = <<SettleJob(exec, th)>>
    BY <2>1, Singletons, Zenon
  <2> QED
    BY <1>3, <2>1, <2>2, Zenon DEF Settling
<1>8. ASSUME NEW tid \in Handles, NEW tryMode \in BOOLEAN, awaitSettled(tid, tryMode)
      PROVE  Resuming'
  <2> DEFINE th == state[tid] = "failed" /\ ~tryMode
  <2>1. th \in BOOLEAN
    BY Zenon
  <2>2. micro' = Append(<<>>, ContJob(exec, DirectHops, th)) /\ exec' = None /\ pumping' = FALSE
    BY <1>2, <1>8, Zenon DEF awaitSettled, Running
  <2> HIDE DEF th
  <2>3. micro' = <<ContJob(current', DirectHops, th)>>
    BY <1>2, <2>2, Singletons, Zenon DEF Running
  <2>4. tid \in Ids /\ state[tid] \in {"done", "failed"}
    BY <1>8, HandleType, Zenon DEF awaitSettled
  <2>5. kicked = TRUE
    BY <2>4, Zenon DEF Token, Typed
  <2>6. DirectHops \in 1..AsyncHops
    BY DEF DirectHops, AsyncHops
  <2> QED
    BY <1>2, <2>1, <2>2, <2>3, <2>5, <2>6, Zenon DEF Resuming
<1> QED
  <2>1. ASSUME NEW th \in BOOLEAN PROVE ~hostImmediate(th)
    BY Zenon DEF hostImmediate
  <2>2. CASE Parks
    BY <1>5, <1>6, <1>7, <2>1, <2>2, Zenon
    DEF Parks, awaitParked, yieldFast, hostDeferred
  <2>3. CASE Calls
    BY <1>4, <1>5, <1>8, <2>3, Zenon
    DEF Calls, taskCreate, channelNew, sendHandoff, sendBuffered, sendParked,
        recvBuffered, recvRefill, recvRendezvous, recvParked, channelClose
  <2> QED
    BY <2>2, <2>3

\* The job at the head of the queue tells who has the token.
LEMMA TakeToken ==
    ASSUME Token, NEW j, take(j)
    PROVE  /\ exec = None /\ kicked' = kicked /\ kicked
           /\ \/ j = "runOne" /\ Pumped /\ Tail(micro) = <<>>
              \/ j = "cont" /\ Resuming /\ Tail(micro) = <<>>
              \/ j = "settle" /\ Settling /\ Tail(micro) = <<>>
              \/ j = "settle" /\ SettlingPumped /\ Tail(micro) = <<RunOneJob>>
<1>1. exec = None /\ kicked' = kicked /\ kicked /\ micro # <<>> /\ Head(micro).job = j
  BY Zenon DEF take
<1>2. /\ RunOneJob.job = "runOne"
      /\ \A t, n, th : ContJob(t, n, th).job = "cont" /\ SettleJob(t, th).job = "settle"
  BY DEF RunOneJob, ContJob, SettleJob, Job
<1>3. CASE Pumped
  <2>1. Head(micro) = RunOneJob /\ Tail(micro) = <<>>
    BY <1>3, Singletons, Zenon DEF Pumped
  <2> QED
    BY <1>1, <1>2, <1>3, <2>1, Zenon
<1>4. CASE Resuming
  <2>1. PICK n, th : micro = <<ContJob(current, n, th)>>
    BY <1>4, Zenon DEF Resuming
  <2>2. Head(micro) = ContJob(current, n, th) /\ Tail(micro) = <<>>
    BY <2>1, Singletons, Zenon
  <2> QED
    BY <1>1, <1>2, <1>4, <2>2, Zenon
<1>5. CASE Settling
  <2>1. PICK t, th : micro = <<SettleJob(t, th)>>
    BY <1>5, Zenon DEF Settling
  <2>2. Head(micro) = SettleJob(t, th) /\ Tail(micro) = <<>>
    BY <2>1, Singletons, Zenon
  <2> QED
    BY <1>1, <1>2, <1>5, <2>2, Zenon
<1>6. CASE SettlingPumped
  <2>1. PICK t, th : micro = Append(<<SettleJob(t, th)>>, RunOneJob)
    BY <1>6, Zenon DEF SettlingPumped
  <2>2. Head(micro) = SettleJob(t, th) /\ Tail(micro) = <<RunOneJob>>
    BY <2>1, Singletons, Zenon
  <2> QED
    BY <1>1, <1>2, <1>6, <2>2, Zenon
<1> QED
  BY <1>1, <1>3, <1>4, <1>5, <1>6, Zenon DEF Token, Running, Waiting

LEMMA TakeKicked ==
    ASSUME Typed, NEW j, take(j)
    PROVE  exec = None /\ kicked = TRUE /\ kicked' = TRUE
<1>1. exec = None /\ kicked /\ kicked' = kicked
  BY Zenon DEF take
<1>2. kicked \in BOOLEAN
  BY DEF Typed
<1> QED
  BY <1>1, <1>2

LEMMA TakeWho ==
    ASSUME Token
    PROVE  /\ take("runOne") => Pumped /\ Tail(micro) = <<>>
           /\ take("cont") => Resuming /\ Tail(micro) = <<>>
           /\ take("settle") =>
                 \/ Settling /\ Tail(micro) = <<>>
                 \/ SettlingPumped /\ Tail(micro) = <<RunOneJob>>
           /\ ~take("host")
<1>1. \A j : take(j) =>
          \/ j = "runOne" /\ Pumped /\ Tail(micro) = <<>>
          \/ j = "cont" /\ Resuming /\ Tail(micro) = <<>>
          \/ j = "settle" /\ Settling /\ Tail(micro) = <<>>
          \/ j = "settle" /\ SettlingPumped /\ Tail(micro) = <<RunOneJob>>
  BY TakeToken, Zenon
<1>2. /\ "runOne" # "cont" /\ "runOne" # "settle" /\ "cont" # "settle"
      /\ "host" # "runOne" /\ "host" # "cont" /\ "host" # "settle"
  OBVIOUS
<1> QED
  BY <1>1, <1>2, Zenon

\* The settling of a stack hands the token to the scheduler.
LEMMA SettleToken ==
    ASSUME Typed, Token, take("settle"), UNCHANGED exec,
           schedule(Tail(micro)) \/ (micro' = Tail(micro) /\ UNCHANGED pumping)
    PROVE  Waiting' \/ Pumped'
<1>1. exec' = None /\ Append(<<>>, RunOneJob) = <<RunOneJob>>
  BY TakeKicked, Singletons, Zenon
<1>2. CASE Settling /\ Tail(micro) = <<>>
  <2>1. \/ micro' = <<>> /\ pumping' = FALSE
        \/ micro' = Append(<<>>, RunOneJob) /\ pumping' = TRUE
    BY <1>2, ScheduleToken, Zenon DEF Settling
  <2> QED
    BY <1>1, <2>1, Zenon DEF Waiting, Pumped
<1>3. CASE SettlingPumped /\ Tail(micro) = <<RunOneJob>>
  <2>1. micro' = <<RunOneJob>> /\ pumping' = TRUE
    BY <1>3, ScheduleToken, Zenon DEF SettlingPumped
  <2> QED
    BY <1>1, <2>1, Zenon DEF Pumped
<1> QED
  BY <1>2, <1>3, TakeWho, Zenon

LEMMA MicrotaskToken ==
    ASSUME Typed, Token, Labels, Microtask
    PROVE  Running' \/ Waiting' \/ Pumped' \/ Resuming' \/ Settling' \/ SettlingPumped'
<1> USE Singletons
<1>1. CASE kick
  <2>1. exec' = None /\ kicked = FALSE /\ schedule(micro) /\ exec = None
    BY <1>1, Zenon DEF kick, Typed
  <2>2. CASE Waiting
    BY <2>1, <2>2, ScheduleToken, Zenon DEF Waiting, Pumped
  <2>3. CASE Pumped
    BY <2>1, <2>3, ScheduleToken, Zenon DEF Pumped
  <2>4. CASE Settling
    <3>1. PICK t \in Ids, th \in BOOLEAN : micro = <<SettleJob(t, th)>>
      BY <2>4, Zenon DEF Settling
    <3>2. \/ micro' = <<SettleJob(t, th)>> /\ pumping' = FALSE
          \/ micro' = Append(<<SettleJob(t, th)>>, RunOneJob) /\ pumping' = TRUE
      BY <2>1, <2>4, <3>1, ScheduleToken, Zenon DEF Settling
    <3> QED
      BY <2>1, <3>2, Zenon DEF Settling, SettlingPumped
  <2>5. CASE SettlingPumped
    BY <2>1, <2>5, ScheduleToken, Zenon DEF SettlingPumped
  <2> QED
    <3>1. ~Resuming
      BY <2>1 DEF Resuming
    <3> QED
      BY <2>1, <2>2, <2>3, <2>4, <2>5, <3>1, Zenon DEF Token, Running
<1>2. ASSUME runStart \/ runResume
      PROVE  /\ Head(runnable) \in EntryType
             /\ Head(runnable).id = Head(runnable).who
             /\ Tail(micro) = <<>> /\ kicked' = TRUE /\ Pumped
  <2>1. runnable # <<>> /\ take("runOne")
    BY <1>2, Zenon DEF runStart, runResume
  <2>2. runnable \in Seq(OwnEntry)
    BY DEF Labels
  <2>3. Head(runnable) \in OwnEntry
    BY <2>1, <2>2
  <2>4. Head(runnable) \in EntryType /\ Head(runnable).id = Head(runnable).who
    BY <2>3, Zenon DEF OwnEntry
  <2> QED
    BY <2>1, <2>4, TakeWho, TakeKicked, Zenon
<1>3. CASE runStart
  <2>1. /\ exec' = Head(runnable).who /\ current' = Head(runnable).id
        /\ micro' = <<>> /\ pumping' = FALSE
    BY <1>2, <1>3, Zenon DEF runStart
  <2>2. Head(runnable).who # None
    BY <1>2, <1>3, BoundsAssumption DEF EntryType, Ids, None
  <2> QED
    BY <1>2, <1>3, <2>1, <2>2, Zenon DEF Running
<1>4. CASE runResume
  <2> DEFINE e == Head(runnable)
  <2>1. e.hops \in 1..AsyncHops /\ e.throws \in BOOLEAN
    BY <1>2, <1>4 DEF EntryType
  <2>2. /\ current' = e.id /\ exec' = None /\ pumping' = FALSE
        /\ micro' = Append(<<>>, ContJob(e.who, e.hops, e.throws))
    BY <1>2, <1>4, Zenon DEF runResume, Pumped
  <2>3. micro' = <<ContJob(current', e.hops, e.throws)>>
    BY <1>2, <1>4, <2>2, Zenon
  <2> QED
    BY <1>2, <1>4, <2>1, <2>2, <2>3, Zenon DEF Resuming
<1>5. ASSUME take("cont")
      PROVE  \E n \in 1..AsyncHops, th \in BOOLEAN :
                /\ Head(micro) = ContJob(current, n, th)
                /\ Tail(micro) = <<>> /\ exec = None /\ pumping = FALSE
                /\ kicked' = TRUE
  <2>1. Resuming /\ Tail(micro) = <<>> /\ kicked' = TRUE
    BY <1>5, TakeWho, TakeKicked, Zenon
  <2> QED
    BY <2>1, Zenon DEF Resuming
<1>6. CASE hop
  <2>1. take("cont")
    BY <1>6, TakeWho, Zenon DEF hop
  <2>2. PICK n \in 1..AsyncHops, th \in BOOLEAN :
           /\ Head(micro) = ContJob(current, n, th)
           /\ Tail(micro) = <<>> /\ exec = None /\ pumping = FALSE
           /\ kicked' = TRUE
    BY <1>5, <2>1
  <2>3. /\ ContJob(current, n, th).hops = n
        /\ [ContJob(current, n, th) EXCEPT !.hops = n - 1] = ContJob(current, n - 1, th)
    BY DEF ContJob, Job
  <2>4. n > 1 /\ micro' = Append(<<>>, [ContJob(current, n, th) EXCEPT !.hops = n - 1])
    BY <1>6, <2>2, <2>3, Zenon DEF hop
  <2>5. n - 1 \in 1..AsyncHops
    BY <2>4 DEF AsyncHops
  <2>6. micro' = <<ContJob(current', n - 1, th)>> /\ exec' = None /\ pumping' = FALSE
    BY <1>6, <2>2, <2>3, <2>4, Zenon DEF hop, promiseVars
  <2> QED
    BY <2>2, <2>5, <2>6, Zenon DEF Resuming
<1>7. CASE continueStack
  <2>1. PICK n, th :
           /\ Head(micro) = ContJob(current, n, th)
           /\ Tail(micro) = <<>> /\ exec = None /\ pumping = FALSE
           /\ kicked' = TRUE
    BY <1>5, <1>7, Zenon DEF continueStack
  <2>2. ContJob(current, n, th).who = current /\ current # None
    BY BoundsAssumption DEF ContJob, Job, Typed, Ids, None
  <2> QED
    BY <1>7, <2>1, <2>2, Zenon DEF continueStack, promiseVars, Running
<1>8. CASE unwindStack
  <2>1. PICK n, th :
           /\ Head(micro) = ContJob(current, n, th)
           /\ Tail(micro) = <<>> /\ exec = None /\ pumping = FALSE
           /\ kicked' = TRUE
    BY <1>5, <1>8, Zenon DEF unwindStack
  <2>2. ContJob(current, n, th).who = current /\ current \in Ids
    BY DEF ContJob, Job, Typed
  <2>3. micro' = Append(<<>>, SettleJob(current, TRUE)) /\ exec' = None /\ pumping' = FALSE
    BY <1>8, <2>1, <2>2, Zenon DEF unwindStack, promiseVars
  <2> QED
    BY <2>2, <2>3, Zenon DEF Settling
<1>9. CASE onComplete \/ onFailTop \/ onFailTask
  BY <1>9, SettleToken, Zenon DEF onComplete, onFailTop, onFailTask
<1>10. ~hostHandler
  BY TakeWho, Zenon DEF hostHandler
<1> QED
  BY <1>1, <1>3, <1>4, <1>6, <1>7, <1>8, <1>9, <1>10, Zenon DEF Microtask

LEMMA MacrotaskToken ==
    ASSUME Token, TimerFires \/ HostSettles
    PROVE  Waiting' \/ Pumped'
<1>1. exec = None /\ micro = <<>> /\ exec' = exec /\ schedule(micro)
  BY Zenon DEF TimerFires, HostSettles, timerFire, hostSettle, hostDone, Idle
<1>2. Waiting
  BY <1>1, Singletons, Zenon DEF Token, Running, Waiting, Pumped, Resuming, Settling,
                                 SettlingPumped
<1> QED
  BY <1>1, <1>2, ScheduleToken, Singletons, Zenon DEF Waiting, Pumped

\* No task has settled before kick().
LEMMA EarlyNext ==
    ASSUME Typed, Token, Next
    PROVE  kicked' = FALSE => \A t \in Ids : state'[t] \notin {"done", "failed"}
<1> SUFFICES ASSUME kicked' = FALSE
             PROVE  \A t \in Ids : state'[t] \notin {"done", "failed"}
  OBVIOUS
<1>1. ASSUME NEW j PROVE ~take(j)
  <2>1. TRUE # FALSE
    OBVIOUS
  <2> QED
    BY <2>1, TakeKicked, Zenon
<1>2. kicked' = kicked
  <2>1. ~kick
    <3>1. kick => kicked' = TRUE
      BY Zenon DEF kick
    <3> QED
      BY <3>1
  <2>2. CASE Parks \/ Calls
    BY <2>2, Zenon DEF Parks, Calls, awaitParked, yieldFast, yieldHop, hostDeferred,
               hostImmediate, finish, taskCreate, awaitSettled, channelNew, sendHandoff,
               sendBuffered, sendParked, recvBuffered, recvRefill, recvRendezvous,
               recvParked, channelClose, canSend, guest
  <2>3. CASE Microtask
    BY <1>1, <2>1, <2>3, Zenon DEF Microtask, runStart, runResume, hop, continueStack,
               unwindStack, onComplete, onFailTop, onFailTask, hostHandler
  <2>4. CASE TimerFires \/ HostSettles
    BY <2>4, Zenon DEF TimerFires, HostSettles, timerFire, hostSettle, hostDone
  <2> QED
    BY <2>2, <2>3, <2>4, Zenon DEF Next
<1>3. \A t \in Ids : state[t] \notin {"done", "failed"}
  BY <1>2, Zenon DEF Token
<1>4. state' = state \/ taskCreate
  <2>1. CASE Parks \/ Calls
    BY <2>1, Zenon DEF Parks, Calls, awaitParked, yieldFast, yieldHop, hostDeferred,
               hostImmediate, finish, awaitSettled, channelNew, sendHandoff,
               sendBuffered, sendParked, recvBuffered, recvRefill, recvRendezvous,
               recvParked, channelClose, taskVars, channelVars
  <2>2. CASE Microtask
    BY <1>1, <2>2, Zenon DEF Microtask, kick, runStart, runResume, hop, continueStack,
               unwindStack, onComplete, onFailTop, onFailTask, hostHandler, taskVars
  <2>3. CASE TimerFires \/ HostSettles
    BY <2>3, Zenon DEF TimerFires, HostSettles, timerFire, hostSettle, hostDone, taskVars
  <2> QED
    BY <2>1, <2>2, <2>3, Zenon DEF Next
<1>5. CASE taskCreate
  BY <1>3, <1>5 DEF taskCreate, Typed
<1> QED
  BY <1>3, <1>4, <1>5, Zenon

LEMMA TokenNext == Typed /\ Token /\ Labels /\ ~ImmediateHosts /\ Next => Token'
BY CallsToken, MicrotaskToken, MacrotaskToken, EarlyNext, Zenon DEF Token, Next

LEMMA ResumeOwn ==
    ASSUME NEW w, w.id \in Ids, w.who = w.id, NEW n \in 1..AsyncHops, NEW th \in BOOLEAN
    PROVE  ResumeEntry(w, n, th) \in OwnEntry
BY DEF ResumeEntry, EntryType, OwnEntry

LEMMA ConcatType ==
    ASSUME NEW S, NEW q \in Seq(S), NEW r \in Seq(S)
    PROVE  q \o r \in Seq(S)
OBVIOUS

\* Waking who waits under its own label queues it under its own label.
LEMMA WakeChannelOwn ==
    ASSUME runnable \in Seq(OwnEntry), NEW W, NEW ws \in Seq(W),
           \A w \in W : w.id \in Ids /\ w.who = w.id,
           wakeChannelWaiters(ws)
    PROVE  runnable' \in Seq(OwnEntry)
<1> DEFINE f == [i \in DOMAIN ws |-> ResumeEntry(ws[i], DirectHops, FALSE)]
<1>1. Len(ws) \in Nat /\ DOMAIN ws = 1..Len(ws) /\ \A i \in DOMAIN ws : ws[i] \in W
  OBVIOUS
<1>2. DirectHops \in 1..AsyncHops /\ FALSE \in BOOLEAN
  BY DEF DirectHops, AsyncHops
<1>3. \A i \in DOMAIN ws : ResumeEntry(ws[i], DirectHops, FALSE) \in OwnEntry
  BY <1>1, <1>2, ResumeOwn, Zenon
<1>4. f \in [1..Len(ws) -> OwnEntry]
  BY <1>1, <1>3, Zenon
<1>5. f \in Seq(OwnEntry)
  BY <1>1, <1>4, FunctionSeq, Zenon
<1>6. runnable' = runnable \o f
  BY Zenon DEF wakeChannelWaiters
<1> QED
  BY <1>5, <1>6, ConcatType, Zenon

LEMMA WakeWaitersOwn ==
    ASSUME Typed, Labels, NEW t \in Ids, NEW failed \in BOOLEAN, wakeWaiters(t, failed)
    PROVE  /\ runnable' \in Seq(OwnEntry)
           /\ \A u \in Ids : waiters'[u] \in Seq(OwnAwaiter)
<1> DEFINE ws == waiters[t]
           th(i) == failed /\ ~ws[i].tryMode
           f == [i \in DOMAIN ws |-> ResumeEntry(ws[i], AsyncHops, th(i))]
<1>1. ws \in Seq(OwnAwaiter)
  BY Zenon DEF Labels
<1>2. Len(ws) \in Nat /\ DOMAIN ws = 1..Len(ws) /\ \A i \in DOMAIN ws : ws[i] \in OwnAwaiter
  BY <1>1
<1>3. \A w \in OwnAwaiter : w.id \in Ids /\ w.who = w.id
  BY DEF OwnAwaiter, AwaiterType
<1>4. AsyncHops \in 1..AsyncHops
  BY DEF AsyncHops
<1>5. \A i \in DOMAIN ws : th(i) \in BOOLEAN
  BY Zenon
<1>6. \A i \in DOMAIN ws : ResumeEntry(ws[i], AsyncHops, th(i)) \in OwnEntry
  BY <1>2, <1>3, <1>4, <1>5, ResumeOwn, Zenon
<1>7. f \in [1..Len(ws) -> OwnEntry]
  BY <1>2, <1>6, Zenon
<1>8. f \in Seq(OwnEntry)
  BY <1>2, <1>7, FunctionSeq, Zenon
<1>9. runnable' = runnable \o f /\ waiters' = [waiters EXCEPT ![t] = <<>>]
  BY Zenon DEF wakeWaiters
<1>10. runnable' \in Seq(OwnEntry)
  BY <1>8, <1>9, ConcatType, Zenon DEF Labels
<1>11. \A u \in Ids : waiters'[u] \in Seq(OwnAwaiter)
  <2>1. \A u \in Ids : waiters'[u] = <<>> \/ waiters'[u] = waiters[u]
    BY <1>9 DEF Typed
  <2>2. <<>> \in Seq(OwnAwaiter)
    OBVIOUS
  <2> QED
    BY <2>1, <2>2, Zenon DEF Labels
<1> QED
  BY <1>10, <1>11

\* A step that rewrites the queues of one channel.
LEMMA ChannelOwn ==
    ASSUME Typed, Labels, NEW c \in ChannelIds, NEW cap, NEW b, NEW cl,
           NEW sq \in Seq(OwnSender), NEW rq \in Seq(OwnWaiter),
           channels' = [channels EXCEPT ![c] = Chan(cap, b, sq, rq, cl)],
           runnable' \in Seq(OwnEntry), UNCHANGED <<waiters, timers, hosts>>
    PROVE  Labels'
<1>1. \A d \in ChannelIds : channels'[d] = channels[d] \/ channels'[d] = Chan(cap, b, sq, rq, cl)
  BY DEF Typed
<1>2. Chan(cap, b, sq, rq, cl).sendQ = sq /\ Chan(cap, b, sq, rq, cl).recvQ = rq
  BY DEF Chan
<1> QED
  BY <1>1, <1>2, Zenon DEF Labels

\* What a call parks is labelled with the task that makes it.
LEMMA CallerOwn ==
    ASSUME Typed, Token, guest
    PROVE  /\ Caller \in OwnWaiter
           /\ \A v \in Values : Sender(v) \in OwnSender
           /\ \A tryMode \in BOOLEAN :
                 [id |-> current, who |-> exec, tryMode |-> tryMode] \in OwnAwaiter
<1>1. current = exec /\ exec \in Ids
  BY GuestToken, GuestType, Zenon DEF Running
<1> QED
  BY <1>1 DEF Caller, Sender, OwnWaiter, OwnSender, OwnAwaiter, WaiterType, SenderType,
              AwaiterType

LEMMA TaskCallsOwn ==
    ASSUME Typed, Token, Labels,
           \/ taskCreate
           \/ \E tid \in Handles, tryMode \in BOOLEAN :
                 awaitSettled(tid, tryMode) \/ awaitParked(tid, tryMode)
           \/ yieldFast \/ yieldHop \/ hostDeferred
           \/ \E throws \in BOOLEAN : hostImmediate(throws) \/ finish(throws)
    PROVE  Labels'
<1>1. CASE taskCreate
  <2>1. nextId \in Ids
    BY <1>1, BoundsAssumption DEF taskCreate, Typed, Ids
  <2>2. StartEntry(nextId) \in OwnEntry
    BY <2>1 DEF StartEntry, EntryType, OwnEntry, AsyncHops
  <2>3. runnable' = Append(runnable, StartEntry(nextId)) /\ runnable \in Seq(OwnEntry)
    BY <1>1, Zenon DEF taskCreate, Labels
  <2>4. runnable' \in Seq(OwnEntry)
    BY <2>2, <2>3, AppendType, Zenon
  <2> QED
    BY <1>1, <2>4, Zenon DEF taskCreate, Labels, chanVars, hostVars
<1>2. ASSUME NEW tid \in Handles, NEW tryMode \in BOOLEAN, awaitSettled(tid, tryMode)
      PROVE  Labels'
  BY <1>2, Zenon DEF awaitSettled, Labels, chanVars, hostVars
<1>3. ASSUME NEW tid \in Handles, NEW tryMode \in BOOLEAN, awaitParked(tid, tryMode)
      PROVE  Labels'
  <2> DEFINE w == [id |-> current, who |-> exec, tryMode |-> tryMode]
  <2>1. w \in OwnAwaiter
    BY <1>3, CallerOwn, Zenon DEF awaitParked
  <2>2. waiters' = [waiters EXCEPT ![tid] = Append(waiters[tid], w)]
    BY <1>3, Zenon DEF awaitParked
  <2> HIDE DEF w
  <2>3. \A t \in Ids : waiters'[t] = waiters[t]
                         \/ waiters'[t] = Append(waiters[t], w)
    BY <2>2 DEF Typed
  <2>4. \A t \in Ids : waiters'[t] \in Seq(OwnAwaiter)
    BY <2>1, <2>3, AppendType, Zenon DEF Labels
  <2> QED
    BY <1>3, <2>4, Zenon DEF awaitParked, Labels, chanVars, hostVars
<1>4. CASE yieldFast
  <2>1. Caller \in OwnWaiter
    BY <1>4, CallerOwn DEF yieldFast
  <2>2. ResumeEntry(Caller, DirectHops, FALSE) \in OwnEntry
    <3>1. Caller.id \in Ids /\ Caller.who = Caller.id
      BY <2>1 DEF OwnWaiter, WaiterType
    <3>2. DirectHops \in 1..AsyncHops /\ FALSE \in BOOLEAN
      BY DEF DirectHops, AsyncHops
    <3> QED
      BY <3>1, <3>2, ResumeOwn, Zenon
  <2>3. /\ runnable' = Append(runnable, ResumeEntry(Caller, DirectHops, FALSE))
        /\ runnable \in Seq(OwnEntry)
    BY <1>4, Zenon DEF yieldFast, Labels
  <2>4. runnable' \in Seq(OwnEntry)
    BY <2>2, <2>3, AppendType, Zenon
  <2> QED
    BY <1>4, <2>4, Zenon DEF yieldFast, Labels, taskVars, chanVars
<1>5. CASE yieldHop
  <2>1. Caller \in OwnWaiter
    BY <1>5, CallerOwn DEF yieldHop
  <2> QED
    BY <1>5, <2>1, Zenon DEF yieldHop, Labels, taskVars, chanVars
<1>6. CASE hostDeferred
  <2>1. Caller \in OwnWaiter
    BY <1>6, CallerOwn DEF hostDeferred
  <2> QED
    BY <1>6, <2>1, Zenon DEF hostDeferred, Labels, taskVars, chanVars
<1>7. ASSUME NEW throws \in BOOLEAN, hostImmediate(throws) \/ finish(throws)
      PROVE  Labels'
  BY <1>7, Zenon DEF hostImmediate, finish, Labels, taskVars, chanVars, hostVars
<1> QED
  BY <1>1, <1>2, <1>3, <1>4, <1>5, <1>6, <1>7

LEMMA ChannelCallsOwn ==
    ASSUME Typed, Token, Labels, NEW c \in ChannelIds,
           \/ sendHandoff(c) \/ sendBuffered(c) \/ sendParked(c)
           \/ recvBuffered(c) \/ recvRefill(c) \/ recvRendezvous(c) \/ recvParked(c)
           \/ channelClose(c)
    PROVE  Labels'
<1> DEFINE ch == channels[c]
<1>q. /\ ch.sendQ \in Seq(OwnSender) /\ ch.recvQ \in Seq(OwnWaiter)
      /\ runnable \in Seq(OwnEntry)
  BY Zenon DEF Labels
<1>w. /\ \A w \in OwnWaiter : w.id \in Ids /\ w.who = w.id
      /\ \A w \in OwnSender : w.id \in Ids /\ w.who = w.id
  BY DEF OwnWaiter, OwnSender, WaiterType, SenderType
<1>e. <<>> \in Seq(OwnSender) /\ <<>> \in Seq(OwnWaiter)
  OBVIOUS
<1>u. UNCHANGED <<waiters, timers, hosts>>
  BY Zenon DEF sendHandoff, sendBuffered, sendParked, recvBuffered, recvRefill,
               recvRendezvous, recvParked, channelClose, channelVars, taskVars, hostVars
<1>1. CASE sendHandoff(c)
  <2>1. Tail(ch.recvQ) \in Seq(OwnWaiter) /\ <<Head(ch.recvQ)>> \in Seq(OwnWaiter)
    BY <1>1, <1>q DEF sendHandoff
  <2>2. wakeChannelWaiters(<<Head(ch.recvQ)>>)
    BY <1>1, Zenon DEF sendHandoff
  <2>3. runnable' \in Seq(OwnEntry)
    BY <1>q, <1>w, <2>1, <2>2, WakeChannelOwn
  <2>4. channels' = [channels EXCEPT ![c] =
                       Chan(ch.capacity, ch.buffer, ch.sendQ, Tail(ch.recvQ), ch.closed)]
    BY <1>1, Zenon DEF sendHandoff
  <2> QED
    BY <1>q, <1>u, <2>1, <2>3, <2>4, ChannelOwn, Zenon
<1>2. CASE sendBuffered(c)
  <2>1. channels' = [channels EXCEPT ![c] =
                       Chan(ch.capacity, Append(ch.buffer, ledger[c].sent + 1), ch.sendQ,
                            ch.recvQ, ch.closed)]
        /\ runnable' = runnable
    BY <1>2, Zenon DEF sendBuffered
  <2> QED
    BY <1>q, <1>u, <2>1, ChannelOwn, Zenon
<1>3. CASE sendParked(c)
  <2>1. ledger[c].sent + 1 \in Values
    <3>1. ledger[c].sent \in 0..MaxSends
      BY DEF Typed, LedgerType
    <3>2. ledger[c].sent < MaxSends
      BY <1>3, Zenon DEF sendParked, canSend
    <3> QED
      BY <3>1, <3>2, BoundsAssumption DEF Values
  <2>2. Sender(ledger[c].sent + 1) \in OwnSender
    BY <1>3, <2>1, CallerOwn, Zenon DEF sendParked, canSend
  <2>3. Append(ch.sendQ, Sender(ledger[c].sent + 1)) \in Seq(OwnSender)
    BY <1>q, <2>2, AppendType, Zenon
  <2>4. channels' = [channels EXCEPT ![c] =
                       Chan(ch.capacity, ch.buffer,
                            Append(ch.sendQ, Sender(ledger[c].sent + 1)), ch.recvQ, ch.closed)]
        /\ runnable' = runnable
    BY <1>3, Zenon DEF sendParked
  <2> QED
    BY <1>q, <1>u, <2>3, <2>4, ChannelOwn, Zenon
<1>4. CASE recvBuffered(c)
  <2>1. channels' = [channels EXCEPT ![c] =
                       Chan(ch.capacity, Tail(ch.buffer), ch.sendQ, ch.recvQ, ch.closed)]
        /\ runnable' = runnable
    BY <1>4, Zenon DEF recvBuffered
  <2> QED
    BY <1>q, <1>u, <2>1, ChannelOwn, Zenon
<1>5. ASSUME recvRefill(c) \/ recvRendezvous(c)
      PROVE  /\ Tail(ch.sendQ) \in Seq(OwnSender)
             /\ runnable' \in Seq(OwnEntry)
  <2>1. ch.sendQ # <<>> /\ wakeChannelWaiters(<<Head(ch.sendQ)>>)
    BY <1>5, Zenon DEF recvRefill, recvRendezvous
  <2>2. Tail(ch.sendQ) \in Seq(OwnSender) /\ <<Head(ch.sendQ)>> \in Seq(OwnSender)
    BY <1>q, <2>1
  <2> QED
    BY <1>q, <1>w, <2>1, <2>2, WakeChannelOwn
<1>6. CASE recvRefill(c)
  <2>1. channels' = [channels EXCEPT ![c] =
                       Chan(ch.capacity, Append(Tail(ch.buffer), Head(ch.sendQ).value),
                            Tail(ch.sendQ), ch.recvQ, ch.closed)]
    BY <1>6, Zenon DEF recvRefill
  <2> QED
    BY <1>q, <1>u, <1>5, <1>6, <2>1, ChannelOwn, Zenon
<1>7. CASE recvRendezvous(c)
  <2>1. channels' = [channels EXCEPT ![c] =
                       Chan(ch.capacity, ch.buffer, Tail(ch.sendQ), ch.recvQ, ch.closed)]
    BY <1>7, Zenon DEF recvRendezvous
  <2> QED
    BY <1>q, <1>u, <1>5, <1>7, <2>1, ChannelOwn, Zenon
<1>8. CASE recvParked(c)
  <2>1. Caller \in OwnWaiter
    BY <1>8, CallerOwn DEF recvParked
  <2>2. Append(ch.recvQ, Caller) \in Seq(OwnWaiter)
    BY <1>q, <2>1, AppendType, Zenon
  <2>3. channels' = [channels EXCEPT ![c] =
                       Chan(ch.capacity, ch.buffer, ch.sendQ, Append(ch.recvQ, Caller),
                            ch.closed)]
        /\ runnable' = runnable
    BY <1>8, Zenon DEF recvParked
  <2> QED
    BY <1>q, <1>u, <2>2, <2>3, ChannelOwn, Zenon
<1>9. CASE channelClose(c)
  <2> DEFINE W == OwnWaiter \cup OwnSender
             r == ch.recvQ
             s == ch.sendQ
  <2>1. r \in Seq(W) /\ s \in Seq(W)
    <3>1. \A x \in Seq(OwnWaiter) : x \in Seq(W)
      OBVIOUS
    <3>2. \A x \in Seq(OwnSender) : x \in Seq(W)
      OBVIOUS
    <3> QED
      BY <1>q, <3>1, <3>2, Zenon
  <2>2. r \o s \in Seq(W)
    BY <2>1, ConcatType, Zenon
  <2>3. \A w \in W : w.id \in Ids /\ w.who = w.id
    BY <1>w, Zenon
  <2>4. wakeChannelWaiters(r \o s)
    BY <1>9, Zenon DEF channelClose
  <2>5. runnable' \in Seq(OwnEntry)
    BY <1>q, <2>2, <2>3, <2>4, WakeChannelOwn, Zenon
  <2>6. channels' = [channels EXCEPT ![c] = Chan(ch.capacity, ch.buffer, <<>>, <<>>, TRUE)]
    BY <1>9, Zenon DEF channelClose
  <2> QED
    BY <1>e, <1>u, <2>5, <2>6, ChannelOwn, Zenon
<1> QED
  BY <1>1, <1>2, <1>3, <1>4, <1>6, <1>7, <1>8, <1>9

LEMMA ChannelNewOwn ==
    ASSUME Typed, Labels, NEW cap \in 0..MaxCapacity, channelNew(cap)
    PROVE  Labels'
<1>1. nextChannelId \in ChannelIds
  BY BoundsAssumption DEF channelNew, Typed, ChannelIds
<1>2. <<>> \in Seq(OwnSender) /\ <<>> \in Seq(OwnWaiter)
  OBVIOUS
<1>3. /\ channels' = [channels EXCEPT ![nextChannelId] = Chan(cap, <<>>, <<>>, <<>>, FALSE)]
      /\ runnable' = runnable /\ UNCHANGED <<waiters, timers, hosts>>
  BY Zenon DEF channelNew, EmptyChannel, taskVars, hostVars
<1>4. runnable' \in Seq(OwnEntry)
  BY <1>3, Zenon DEF Labels
<1> QED
  BY <1>1, <1>2, <1>3, <1>4, ChannelOwn, Zenon

\* A microtask takes from the run queue, or adds to it who waited.
LEMMA MicrotaskOwn ==
    ASSUME Typed, Token, Labels, Microtask
    PROVE  Labels'
<1>1. CASE kick \/ hop \/ continueStack \/ unwindStack \/ onFailTop
  BY <1>1, Zenon DEF kick, hop, continueStack, unwindStack, onFailTop, promiseVars,
                     taskVars, chanVars, hostVars, Labels
<1>2. CASE runStart \/ runResume
  <2>1. runnable # <<>> /\ runnable' = Tail(runnable) /\ runnable \in Seq(OwnEntry)
    BY <1>2, Zenon DEF runStart, runResume, Labels
  <2>2. runnable' \in Seq(OwnEntry)
    BY <2>1
  <2> QED
    BY <1>2, <2>2, Zenon DEF runStart, runResume, taskVars, chanVars, hostVars, Labels
<1>3. CASE onComplete \/ onFailTask
  <2> DEFINE t == Head(micro).who
  <2>1. take("settle") /\ "settle" \in {"cont", "settle", "host"}
    BY <1>3, Zenon DEF onComplete, onFailTask
  <2>2. Head(micro) \in StackJobType
    BY <2>1, TakeType, Zenon
  <2>3. t \in Ids
    BY <2>2 DEF StackJobType
  <2>4. wakeWaiters(t, FALSE) \/ wakeWaiters(t, TRUE)
    BY <1>3, Zenon DEF onComplete, onFailTask
  <2>5. TRUE \in BOOLEAN /\ FALSE \in BOOLEAN
    OBVIOUS
  <2>6. /\ runnable' \in Seq(OwnEntry)
        /\ \A u \in Ids : waiters'[u] \in Seq(OwnAwaiter)
    BY <2>3, <2>4, <2>5, WakeWaitersOwn, Zenon
  <2> QED
    BY <1>3, <2>6, Zenon DEF onComplete, onFailTask, chanVars, hostVars, Labels
<1>4. ~hostHandler
  BY TakeWho, Zenon DEF hostHandler
<1> QED
  BY <1>1, <1>2, <1>3, <1>4, Zenon DEF Microtask

\* A timer or a host completion resumes under the label it was parked with.
LEMMA MacrotaskOwn ==
    ASSUME Labels, TimerFires \/ HostSettles
    PROVE  Labels'
<1>1. PICK w \in OwnWaiter, th \in BOOLEAN :
         /\ hostDone(w, th)
         /\ timers' \subseteq timers /\ hosts' \subseteq hosts
  <2>1. FALSE \in BOOLEAN
    OBVIOUS
  <2>2. CASE TimerFires
    <3>1. PICK w \in timers : timerFire(w)
      BY <2>2, Zenon DEF TimerFires
    <3>2. w \in OwnWaiter /\ hostDone(w, FALSE) /\ timers' \subseteq timers /\ hosts' = hosts
      BY <3>1, Zenon DEF timerFire, Labels
    <3> QED
      BY <2>1, <3>2, Zenon
  <2>3. CASE HostSettles
    <3>1. PICK w \in hosts, th \in BOOLEAN : hostSettle(w, th)
      BY <2>3, Zenon DEF HostSettles
    <3>2. w \in OwnWaiter /\ hostDone(w, th) /\ hosts' \subseteq hosts /\ timers' = timers
      BY <3>1, Zenon DEF hostSettle, Labels
    <3> QED
      BY <3>2, Zenon
  <2> QED
    BY <2>2, <2>3
<1>2. w.id \in Ids /\ w.who = w.id
  BY DEF OwnWaiter, WaiterType
<1>3. DirectHops \in 1..AsyncHops
  BY DEF DirectHops, AsyncHops
<1>4. ResumeEntry(w, DirectHops, th) \in OwnEntry
  BY <1>2, <1>3, ResumeOwn, Zenon
<1>5. runnable' = Append(runnable, ResumeEntry(w, DirectHops, th))
  BY <1>1, Zenon DEF hostDone
<1>6. runnable' \in Seq(OwnEntry)
  BY <1>4, <1>5, AppendType, Zenon DEF Labels
<1> QED
  BY <1>1, <1>6, Zenon DEF hostDone, taskVars, chanVars, Labels

LEMMA LabelsNext == Typed /\ Token /\ Labels /\ Next => Labels'
<1> SUFFICES ASSUME Typed, Token, Labels, Next PROVE Labels'
  OBVIOUS
<1>1. CASE Parks
  BY <1>1, TaskCallsOwn, Zenon DEF Parks
<1>2. CASE Calls
  <2>1. ChannelHandles \subseteq ChannelIds
    BY HandleType
  <2> QED
    BY <1>2, <2>1, TaskCallsOwn, ChannelNewOwn, ChannelCallsOwn, Zenon DEF Calls
<1> QED
  BY <1>1, <1>2, MicrotaskOwn, MacrotaskOwn, Zenon DEF Next

\* The top level runs from the start, and nothing is parked.
LEMMA TokenInit == Init => Token /\ Labels
<1> SUFFICES ASSUME Init PROVE Token /\ Labels
  OBVIOUS
<1>1. Token
  <2>1. exec # None /\ current = exec /\ micro = <<>>
    BY DEF Init, TOP, None
  <2>2. pumping = FALSE
    BY Zenon DEF Init
  <2>3. \A t \in Ids : state[t] \notin {"done", "failed"}
    BY DEF Init
  <2> QED
    BY <2>1, <2>2, <2>3, Zenon DEF Token, Running
<1>2. Labels
  <2>1. runnable = <<>> /\ timers = {} /\ hosts = {} /\ \A t \in Ids : waiters[t] = <<>>
    BY DEF Init
  <2>2. \A c \in ChannelIds : channels[c].sendQ = <<>> /\ channels[c].recvQ = <<>>
    BY DEF Init, EmptyChannel, Chan
  <2>3. /\ <<>> \in Seq(OwnEntry) /\ <<>> \in Seq(OwnAwaiter)
        /\ <<>> \in Seq(OwnSender) /\ <<>> \in Seq(OwnWaiter)
    OBVIOUS
  <2> QED
    BY <2>1, <2>2, <2>3, Zenon DEF Labels
<1> QED
  BY <1>1, <1>2

LEMMA TokenStutter == Token /\ Labels /\ UNCHANGED vars => Token' /\ Labels'
<1> SUFFICES ASSUME Token, Labels, UNCHANGED vars PROVE Token' /\ Labels'
  OBVIOUS
<1>1. /\ UNCHANGED <<micro, pumping, exec, current, kicked, state>>
      /\ UNCHANGED <<runnable, timers, hosts, waiters, channels>>
  BY Zenon DEF vars, taskVars, chanVars, hostVars, loopVars
<1>2. Token'
  BY <1>1, Zenon DEF Token, Running, Waiting, Pumped, Resuming, Settling, SettlingPumped
<1>3. Labels'
  BY <1>1, Zenon DEF Labels
<1> QED
  BY <1>2, <1>3

\* There is one token, and every parked label names its own stack.
LEMMA TokenInvariant ==
    ASSUME ~ImmediateHosts
    PROVE  Spec => [](Token /\ Labels)
<1>1. Init => Token /\ Labels
  BY TokenInit
<1>2. Spec => []Typed
  BY TypesHold
<1>3. Typed /\ (Token /\ Labels) /\ [Next]_vars => (Token /\ Labels)'
  BY TokenNext, LabelsNext, TokenStutter, Zenon
<1> QED
  BY <1>1, <1>2, <1>3, PTL DEF Spec

\* "When a task's Wasm code runs, scheduler.current is its id"
\* (runtime.mjs:763-768) for every program whose host calls complete as later
\* events, whatever the number of its tasks and channels: what an import parks,
\* it parks under the id of the stack that called it.
THEOREM CurrentIsOwnerHolds ==
    ASSUME ~ImmediateHosts
    PROVE  Spec => []CurrentIsOwner
<1>1. Token => CurrentIsOwner
  BY Zenon DEF Token, Running, Waiting, Pumped, Resuming, Settling, SettlingPumped,
               CurrentIsOwner
<1> QED
  BY <1>1, TokenInvariant, PTL
=============================================================================
