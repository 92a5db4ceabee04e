----------------------- MODULE SchedulerAccountProofs -----------------------
(***************************************************************************)
(* StacksAccounted for every value of the constants, in both host modes:   *)
(* a conservation law.  The places of a stack are counted; every action    *)
(* moves a stack from one place to another and keeps the sum, except       *)
(* taskCreate, which adds one, and the settling of a task, which takes one *)
(* away.  The counters of checkQuiescence are sizes of the same queues.    *)
(***************************************************************************)
EXTENDS TaskSchedulerProofs

SendQs(cs) == [c \in ChannelIds |-> cs[c].sendQ]
RecvQs(cs) == [c \in ChannelIds |-> cs[c].recvQ]
ParkedQs(cs) == [c \in ChannelIds |-> cs[c].sendQ \o cs[c].recvQ]

\* The number of places of a stack, kind of place by kind of place.
Thread(x, t) == IF x = t THEN 1 ELSE 0
Waits(ws, t) == Cardinality(Tagged("waiters", Ids, ws, t))
Sends(cs, t) == Cardinality(Tagged("sendQ", ChannelIds, SendQs(cs), t))
Recvs(cs, t) == Cardinality(Tagged("recvQ", ChannelIds, RecvQs(cs), t))
Hosted(W, t) == Cardinality(Holds(W, t))

Sum(t) ==
    Thread(exec, t) + Count(micro, t) + Count(runnable, t) + Hosted(timers, t)
    + Hosted(hosts, t) + Waits(waiters, t) + Sends(channels, t) + Recvs(channels, t)

Live(s) == IF s \in {"new", "running"} THEN 1 ELSE 0

\* What the counters count.
Awaiting(ws) == Cardinality(Entries(Ids, ws))
Parked(cs) == Cardinality(Entries(ChannelIds, ParkedQs(cs)))
HostJobs == {j \in JobType : j.job = "host"}
Pump == {RunOneJob}

(***************************************************************************)
(* The inductive invariant.                                                *)
(***************************************************************************)

EachOnce == \A t \in Ids : Sum(t) = Live(state[t])

Counted ==
    /\ blockedOnTask = Awaiting(waiters)
    /\ blockedOnChannel = Parked(channels)
    /\ pendingHost = Cardinality(timers) + Cardinality(hosts) + Num(micro, HostJobs)

Pumping ==
    /\ pumping = TRUE => Num(micro, Pump) = 1 /\ runnable # <<>>
    /\ pumping = FALSE => Num(micro, Pump) = 0

\* A start entry names its own stack.
Entry == {e \in EntryType : e.kind = "start" => e.id = e.who}

\* What is not created yet is not there.
Fresh ==
    /\ \A t \in Ids : t >= nextId => state[t] = "absent"
    /\ \A c \in ChannelIds : c >= nextChannelId =>
          channels[c].sendQ = <<>> /\ channels[c].recvQ = <<>>
    /\ runnable \in Seq(Entry)

Account == EachOnce /\ Counted /\ Pumping /\ Fresh

-----------------------------------------------------------------------------
(* The sets that are counted are finite.                                   *)

LEMMA IndexFinite == IsFiniteSet(Ids) /\ IsFiniteSet(ChannelIds)
<1>1. 0 \in Int /\ 1 \in Int /\ MaxTasks \in Int /\ MaxChannels \in Int
  BY BoundsAssumption
<1> QED
  BY <1>1, FS_Interval DEF Ids, ChannelIds

LEMMA WaiterFinite == \A W : W \subseteq WaiterType => IsFiniteSet(W)
<1> DEFINE f == [p \in Ids \X Ids |-> [id |-> p[1], who |-> p[2]]]
<1>1. f \in Surjection(Ids \X Ids, WaiterType)
  <2>1. f \in [Ids \X Ids -> WaiterType]
    BY DEF WaiterType
  <2>2. \A w \in WaiterType : \E p \in Ids \X Ids : f[p] = w
    <3> TAKE w \in WaiterType
    <3>1. w = [id |-> w.id, who |-> w.who] /\ w.id \in Ids /\ w.who \in Ids
      BY DEF WaiterType
    <3>2. <<w.id, w.who>> \in Ids \X Ids /\ f[<<w.id, w.who>>] = [id |-> w.id, who |-> w.who]
      BY <3>1
    <3> HIDE DEF f
    <3> QED
      BY <3>1, <3>2, Zenon
  <2> HIDE DEF f
  <2> QED
    BY <2>1, <2>2, Zenon DEF Surjection
<1>2. IsFiniteSet(Ids \X Ids)
  BY IndexFinite, FS_Product, Zenon
<1>3. IsFiniteSet(WaiterType)
  BY <1>1, <1>2, FS_Surjection, Zenon
<1> QED
  BY <1>3, FS_Subset, Zenon

LEMMA CountTypes ==
    ASSUME Typed, NEW t \in Ids
    PROVE  /\ Thread(exec, t) \in Nat
           /\ Count(micro, t) \in Nat
           /\ Count(runnable, t) \in Nat
           /\ Hosted(timers, t) \in Nat
           /\ Hosted(hosts, t) \in Nat
           /\ Waits(waiters, t) \in Nat
           /\ Sends(channels, t) \in Nat
           /\ Recvs(channels, t) \in Nat
           /\ IsFiniteSet(timers) /\ IsFiniteSet(hosts)
           /\ IsFiniteSet(Holds(timers, t)) /\ IsFiniteSet(Holds(hosts, t))
<1>1. Thread(exec, t) \in Nat
  BY DEF Thread
<1>2. Count(micro, t) \in Nat /\ Count(runnable, t) \in Nat
  BY CountNum, Zenon DEF Typed
<1>3. IsFiniteSet(timers) /\ IsFiniteSet(hosts)
  BY WaiterFinite, Zenon DEF Typed
<1>4. IsFiniteSet(Holds(timers, t)) /\ IsFiniteSet(Holds(hosts, t))
  <2>1. Holds(timers, t) \in SUBSET timers /\ Holds(hosts, t) \in SUBSET hosts
    BY DEF Holds
  <2> QED
    BY <1>3, <2>1, FS_Subset, Zenon
<1>5. Hosted(timers, t) \in Nat /\ Hosted(hosts, t) \in Nat
  BY <1>4, FS_CardinalityType, Zenon DEF Hosted
<1>6. Waits(waiters, t) \in Nat
  <2>1. \A u \in Ids : waiters[u] \in Seq(AwaiterType)
    BY DEF Typed
  <2> QED
    BY <2>1, IndexFinite, FamilyTypes, Zenon DEF Waits
<1>7. Sends(channels, t) \in Nat
  <2>1. \A c \in ChannelIds : SendQs(channels)[c] \in Seq(SenderType)
    BY DEF Typed, ChannelType, SendQs
  <2> QED
    BY <2>1, IndexFinite, FamilyTypes, Zenon DEF Sends
<1>8. Recvs(channels, t) \in Nat
  <2>1. \A c \in ChannelIds : RecvQs(channels)[c] \in Seq(WaiterType)
    BY DEF Typed, ChannelType, RecvQs
  <2> QED
    BY <2>1, IndexFinite, FamilyTypes, Zenon DEF Recvs
<1> QED
  BY <1>1, <1>2, <1>3, <1>4, <1>5, <1>6, <1>7, <1>8

\* The parts of Places do not overlap: the sum counts it.
LEMMA PlacesSum ==
    ASSUME Typed, NEW t \in Ids
    PROVE  Cardinality(Places(t)) = Sum(t)
<1> DEFINE P1 == {"thread"} \X ({exec} \cap {t})
           P2 == {"micro"} \X At(micro, t)
           P3 == {"runnable"} \X At(runnable, t)
           P4 == {"timers"} \X Holds(timers, t)
           P5 == {"hosts"} \X Holds(hosts, t)
           P6 == Tagged("waiters", Ids, waiters, t)
           P7 == Tagged("sendQ", ChannelIds, SendQs(channels), t)
           P8 == Tagged("recvQ", ChannelIds, RecvQs(channels), t)
<1>0. Places(t) = P1 \cup P2 \cup P3 \cup P4 \cup P5 \cup P6 \cup P7 \cup P8
  <2>1. P7 = UNION {{"sendQ"} \X {c} \X At(channels[c].sendQ, t) : c \in ChannelIds}
    BY DEF Tagged, SendQs
  <2>2. P8 = UNION {{"recvQ"} \X {c} \X At(channels[c].recvQ, t) : c \in ChannelIds}
    BY DEF Tagged, RecvQs
  <2>3. P6 = UNION {{"waiters"} \X {u} \X At(waiters[u], t) : u \in Ids}
    BY DEF Tagged
  <2> DEFINE Q6 == UNION {{"waiters"} \X {u} \X At(waiters[u], t) : u \in Ids}
             Q7 == UNION {{"sendQ"} \X {c} \X At(channels[c].sendQ, t) : c \in ChannelIds}
             Q8 == UNION {{"recvQ"} \X {c} \X At(channels[c].recvQ, t) : c \in ChannelIds}
  <2>5. Places(t) = P1 \cup P2 \cup P3 \cup P4 \cup P5 \cup Q6 \cup Q7 \cup Q8
    BY DEF Places, Holds
  <2>6. P6 = Q6 /\ P7 = Q7 /\ P8 = Q8
    BY <2>1, <2>2, <2>3, Zenon
  <2> HIDE DEF P1, P2, P3, P4, P5, P6, P7, P8, Q6, Q7, Q8
  <2> QED
    BY <2>5, <2>6, Zenon
<1>1. IsFiniteSet(P1) /\ Cardinality(P1) = Thread(exec, t)
  <2>1. CASE exec = t
    <3>1. {exec} \cap {t} = {t} /\ IsFiniteSet({t}) /\ Cardinality({t}) = 1
      BY <2>1, FS_Singleton
    <3>2. IsFiniteSet({"thread"} \X {t}) /\ Cardinality({"thread"} \X {t}) = Cardinality({t})
      BY <3>1, CardPair, Zenon
    <3> QED
      BY <2>1, <3>1, <3>2, Zenon DEF Thread
  <2>2. CASE exec # t
    <3>1. P1 = {}
      BY <2>2
    <3> QED
      BY <2>2, <3>1, FS_EmptySet, Zenon DEF Thread
  <2> QED
    BY <2>1, <2>2
<1>2. /\ IsFiniteSet(P2) /\ Cardinality(P2) = Count(micro, t)
      /\ IsFiniteSet(P3) /\ Cardinality(P3) = Count(runnable, t)
  <2>1. IsFiniteSet(At(micro, t)) /\ IsFiniteSet(At(runnable, t))
    BY CountNum, Zenon DEF Typed
  <2> QED
    BY <2>1, CardPair, Zenon DEF Count
<1>3. /\ IsFiniteSet(P4) /\ Cardinality(P4) = Hosted(timers, t)
      /\ IsFiniteSet(P5) /\ Cardinality(P5) = Hosted(hosts, t)
  BY CountTypes, CardPair, Zenon DEF Hosted
<1>4. IsFiniteSet(P6) /\ Cardinality(P6) = Waits(waiters, t)
  <2>1. \A u \in Ids : waiters[u] \in Seq(AwaiterType)
    BY DEF Typed
  <2> QED
    BY <2>1, IndexFinite, FamilyTypes, Zenon DEF Waits
<1>5. IsFiniteSet(P7) /\ Cardinality(P7) = Sends(channels, t)
  <2>1. \A c \in ChannelIds : SendQs(channels)[c] \in Seq(SenderType)
    BY DEF Typed, ChannelType, SendQs
  <2> QED
    BY <2>1, IndexFinite, FamilyTypes, Zenon DEF Sends
<1>6. IsFiniteSet(P8) /\ Cardinality(P8) = Recvs(channels, t)
  <2>1. \A c \in ChannelIds : RecvQs(channels)[c] \in Seq(WaiterType)
    BY DEF Typed, ChannelType, RecvQs
  <2> QED
    BY <2>1, IndexFinite, FamilyTypes, Zenon DEF Recvs
<1>7. /\ \A x \in P1 : x[1] = "thread"
      /\ \A x \in P2 : x[1] = "micro"
      /\ \A x \in P3 : x[1] = "runnable"
      /\ \A x \in P4 : x[1] = "timers"
      /\ \A x \in P5 : x[1] = "hosts"
      /\ \A x \in P6 : x[1] = "waiters"
      /\ \A x \in P7 : x[1] = "sendQ"
      /\ \A x \in P8 : x[1] = "recvQ"
  BY DEF Tagged
<1> HIDE DEF P1, P2, P3, P4, P5, P6, P7, P8
<1> DEFINE U2 == P1 \cup P2
           U3 == U2 \cup P3
           U4 == U3 \cup P4
           U5 == U4 \cup P5
           U6 == U5 \cup P6
           U7 == U6 \cup P7
           U8 == U7 \cup P8
<1>8. /\ P1 \cap P2 = {} /\ U2 \cap P3 = {} /\ U3 \cap P4 = {} /\ U4 \cap P5 = {}
      /\ U5 \cap P6 = {} /\ U6 \cap P7 = {} /\ U7 \cap P8 = {}
  BY <1>7
<1>9. IsFiniteSet(U2) /\ Cardinality(U2) = Cardinality(P1) + Cardinality(P2)
  BY <1>1, <1>2, <1>8, CardDisjoint, Zenon
<1> HIDE DEF U2
<1>10. IsFiniteSet(U3) /\ Cardinality(U3) = Cardinality(U2) + Cardinality(P3)
  BY <1>2, <1>9, <1>8, CardDisjoint, Zenon
<1> HIDE DEF U3
<1>11. IsFiniteSet(U4) /\ Cardinality(U4) = Cardinality(U3) + Cardinality(P4)
  BY <1>3, <1>10, <1>8, CardDisjoint, Zenon
<1> HIDE DEF U4
<1>12. IsFiniteSet(U5) /\ Cardinality(U5) = Cardinality(U4) + Cardinality(P5)
  BY <1>3, <1>11, <1>8, CardDisjoint, Zenon
<1> HIDE DEF U5
<1>13. IsFiniteSet(U6) /\ Cardinality(U6) = Cardinality(U5) + Cardinality(P6)
  BY <1>4, <1>12, <1>8, CardDisjoint, Zenon
<1> HIDE DEF U6
<1>14. IsFiniteSet(U7) /\ Cardinality(U7) = Cardinality(U6) + Cardinality(P7)
  BY <1>5, <1>13, <1>8, CardDisjoint, Zenon
<1> HIDE DEF U7
<1>15. IsFiniteSet(U8) /\ Cardinality(U8) = Cardinality(U7) + Cardinality(P8)
  BY <1>6, <1>14, <1>8, CardDisjoint, Zenon
<1>16. Places(t) = U8
  BY <1>0, Zenon DEF U2, U3, U4, U5, U6, U7
<1> HIDE DEF U8
<1>17. Cardinality(U8) = Sum(t)
  BY <1>1, <1>2, <1>3, <1>4, <1>5, <1>6, <1>9, <1>10, <1>11, <1>12, <1>13, <1>14, <1>15,
     CountTypes DEF Sum
<1> QED
  BY <1>16, <1>17, Zenon

-----------------------------------------------------------------------------
(* What the operations do to the counts.                                   *)

\* schedule() moves no stack; it queues runOne once, over a queue with work.
LEMMA ScheduleAccount ==
    ASSUME Typed, NEW m \in Seq(JobType), schedule(m),
           pumping = TRUE => Num(m, Pump) = 1 /\ runnable' # <<>>,
           pumping = FALSE => Num(m, Pump) = 0
    PROVE  /\ \A t \in Ids : Count(micro', t) = Count(m, t)
           /\ Num(micro', HostJobs) = Num(m, HostJobs)
           /\ Pumping'
<1>1. RunOneJob \in JobType /\ RunOneJob.who = None /\ RunOneJob \notin HostJobs /\ RunOneJob \in Pump
  BY DEF JobType, RunOneJob, Job, HostJobs, Pump
<1>2. \A t \in Ids : t # None
  BY DEF Ids, None
<1>3. \A t \in Ids : Count(Append(m, RunOneJob), t) = Count(m, t)
  <2> TAKE t \in Ids
  <2>1. Count(Append(m, RunOneJob), t) = Count(m, t) + Own(RunOneJob, t)
    BY <1>1, CountAppend
  <2>2. Own(RunOneJob, t) = 0 /\ Count(m, t) \in Nat
    BY <1>1, <1>2, CountNum, Zenon DEF Own
  <2> QED
    BY <2>1, <2>2
<1>4. Num(Append(m, RunOneJob), HostJobs) = Num(m, HostJobs)
  <2>1. Num(Append(m, RunOneJob), HostJobs) = Num(m, HostJobs) + In(RunOneJob, HostJobs)
    BY <1>1, NumAppend
  <2>2. In(RunOneJob, HostJobs) = 0 /\ Num(m, HostJobs) \in Nat
    BY <1>1, PosFinite, Zenon DEF In
  <2> QED
    BY <2>1, <2>2
<1>5. Num(Append(m, RunOneJob), Pump) = Num(m, Pump) + 1
  <2>1. Num(Append(m, RunOneJob), Pump) = Num(m, Pump) + In(RunOneJob, Pump)
    BY <1>1, NumAppend
  <2>2. In(RunOneJob, Pump) = 1
    BY <1>1, Zenon DEF In
  <2> QED
    BY <2>1, <2>2
<1>6. pumping \in {TRUE, FALSE}
  BY DEF Typed
<1>7. CASE pumping = TRUE
  <2>1. micro' = m /\ pumping' = TRUE
    BY <1>7, Zenon DEF schedule
  <2> QED
    BY <1>7, <2>1, Zenon DEF Pumping
<1>8. CASE pumping = FALSE
  <2>1. CASE micro' = m /\ pumping' = FALSE
    BY <1>8, <2>1, Zenon DEF Pumping
  <2>2. CASE micro' = Append(m, RunOneJob) /\ pumping' = TRUE /\ runnable' # <<>>
    <3>1. Num(micro', Pump) = 1
      BY <1>5, <1>8, <2>2
    <3> QED
      BY <1>3, <1>4, <2>2, <3>1, Zenon DEF Pumping
  <2> QED
    BY <1>8, <2>1, <2>2, Zenon DEF schedule
<1> QED
  BY <1>6, <1>7, <1>8

\* A job of a stack joins the microtask queue.
LEMMA QueueJob ==
    ASSUME NEW m \in Seq(JobType), NEW j \in StackJobType
    PROVE  /\ Append(m, j) \in Seq(JobType)
           /\ \A t \in Ids : Count(Append(m, j), t) = Count(m, t) + Own(j, t)
           /\ Num(Append(m, j), Pump) = Num(m, Pump)
           /\ j.job # "host" => Num(Append(m, j), HostJobs) = Num(m, HostJobs)
           /\ j.job = "host" => Num(Append(m, j), HostJobs) = Num(m, HostJobs) + 1
<1>1. j \in JobType /\ j \notin Pump /\ (j \in HostJobs <=> j.job = "host")
  BY DEF JobType, StackJobType, RunOneJob, Job, Pump, HostJobs
<1>2. Num(m, Pump) \in Nat /\ Num(m, HostJobs) \in Nat
  BY PosFinite, Zenon
<1>3. \A t : Count(Append(m, j), t) = Count(m, t) + Own(j, t)
  BY <1>1, CountAppend
<1>4. /\ Num(Append(m, j), Pump) = Num(m, Pump) + In(j, Pump)
      /\ Num(Append(m, j), HostJobs) = Num(m, HostJobs) + In(j, HostJobs)
  BY <1>1, NumAppend
<1>5. In(j, Pump) = 0 /\ (j.job = "host" => In(j, HostJobs) = 1)
      /\ (j.job # "host" => In(j, HostJobs) = 0)
  BY <1>1, Zenon DEF In
<1>6. Append(m, j) \in Seq(JobType)
  BY <1>1
<1> QED
  BY <1>2, <1>3, <1>4, <1>5, <1>6

\* A job leaves the microtask queue.
LEMMA TakeJob ==
    ASSUME Typed, micro # <<>>
    PROVE  /\ Tail(micro) \in Seq(JobType) /\ Head(micro) \in JobType
           /\ \A t \in Ids : Count(Tail(micro), t) = Count(micro, t) - Own(Head(micro), t)
           /\ Head(micro).job = "runOne" =>
                 /\ Num(Tail(micro), Pump) = Num(micro, Pump) - 1
                 /\ Num(Tail(micro), HostJobs) = Num(micro, HostJobs)
                 /\ \A t \in Ids : Own(Head(micro), t) = 0
           /\ Head(micro).job # "runOne" =>
                 /\ Head(micro) \in StackJobType
                 /\ Num(Tail(micro), Pump) = Num(micro, Pump)
           /\ Head(micro).job = "host" =>
                 Num(Tail(micro), HostJobs) = Num(micro, HostJobs) - 1
           /\ Head(micro).job # "host" =>
                 Num(Tail(micro), HostJobs) = Num(micro, HostJobs)
<1> DEFINE h == Head(micro)
<1>1. micro \in Seq(JobType)
  BY DEF Typed
<1>2. Tail(micro) \in Seq(JobType) /\ h \in JobType
  BY <1>1
<1>3. /\ Num(Tail(micro), Pump) = Num(micro, Pump) - In(h, Pump)
      /\ Num(Tail(micro), HostJobs) = Num(micro, HostJobs) - In(h, HostJobs)
      /\ \A t : Count(Tail(micro), t) = Count(micro, t) - Own(h, t)
  BY <1>1, NumTail, CountTail
<1>4. Num(micro, Pump) \in Nat /\ Num(micro, HostJobs) \in Nat
  BY <1>1, PosFinite, Zenon
<1> HIDE DEF h
<1>5. CASE h = RunOneJob
  <2>1. h.job = "runOne" /\ h.who = None /\ h \in Pump /\ h \notin HostJobs
    BY <1>5 DEF RunOneJob, Job, HostJobs, Pump
  <2>2. In(h, Pump) = 1 /\ In(h, HostJobs) = 0
    BY <2>1, Zenon DEF In
  <2>3. \A t \in Ids : t # None
    BY DEF Ids, None
  <2>4. \A t \in Ids : Own(h, t) = 0
    BY <2>1, <2>3, Zenon DEF Own
  <2> QED
    BY <1>2, <1>3, <1>4, <2>1, <2>2, <2>4 DEF h
<1>6. CASE h \in StackJobType
  <2>1. h.job # "runOne" /\ h \notin Pump /\ (h \in HostJobs <=> h.job = "host")
    BY <1>2, <1>6 DEF StackJobType, RunOneJob, Job, HostJobs, Pump
  <2>2. In(h, Pump) = 0 /\ (h.job = "host" => In(h, HostJobs) = 1)
        /\ (h.job # "host" => In(h, HostJobs) = 0)
    BY <2>1, Zenon DEF In
  <2> QED
    BY <1>2, <1>3, <1>4, <1>6, <2>1, <2>2 DEF h
<1> QED
  BY <1>2, <1>5, <1>6 DEF JobType

LEMMA ResumeIsEntry ==
    ASSUME NEW w, w.id \in Ids, w.who \in Ids, NEW n \in 1..AsyncHops, NEW th \in BOOLEAN
    PROVE  /\ ResumeEntry(w, n, th) \in Entry
           /\ ResumeEntry(w, n, th).who = w.who
           /\ \A t : Own(ResumeEntry(w, n, th), t) = Own(w, t)
<1>1. ResumeEntry(w, n, th) \in EntryType
  BY ResumeType, Zenon
<1>2. ResumeEntry(w, n, th).kind = "resume" /\ ResumeEntry(w, n, th).who = w.who
  BY DEF ResumeEntry
<1> QED
  BY <1>1, <1>2 DEF Entry, Own

\* An entry joins the run queue.
LEMMA Enqueue ==
    ASSUME runnable \in Seq(Entry), NEW e \in Entry, runnable' = Append(runnable, e)
    PROVE  /\ runnable' \in Seq(Entry) /\ runnable' # <<>>
           /\ \A t \in Ids : Count(runnable', t) = Count(runnable, t) + Own(e, t)
<1>1. runnable' \in Seq(Entry) /\ runnable' # <<>>
  OBVIOUS
<1>2. \A t : Count(Append(runnable, e), t) = Count(runnable, t) + Own(e, t)
  BY CountAppend
<1> QED
  BY <1>1, <1>2

\* The waiters of ws, resumed, join the run queue.
LEMMA EnqueueAll ==
    ASSUME runnable \in Seq(Entry), NEW W, NEW ws \in Seq(W), NEW f,
           DOMAIN f = DOMAIN ws,
           \A i \in DOMAIN ws : f[i] \in Entry /\ f[i].who = ws[i].who,
           f = [i \in DOMAIN ws |-> f[i]],
           runnable' = runnable \o f
    PROVE  /\ runnable' \in Seq(Entry)
           /\ runnable # <<>> => runnable' # <<>>
           /\ \A t \in Ids : Count(runnable', t) = Count(runnable, t) + Count(ws, t)
<1>1. Len(ws) \in Nat /\ DOMAIN ws = 1..Len(ws)
  OBVIOUS
<1>2. f \in [1..Len(ws) -> Entry]
  <2>1. [i \in DOMAIN ws |-> f[i]] \in [1..Len(ws) -> Entry]
    BY <1>1, Zenon
  <2> QED
    BY <2>1, Zenon
<1>3. f \in Seq(Entry)
  BY <1>1, <1>2, FunctionSeq, Zenon
<1>4. \A t : Count(f, t) = Count(ws, t)
  BY CountSame, Zenon
<1>5. \A t : Count(runnable \o f, t) = Count(runnable, t) + Count(f, t)
  BY <1>3, CountConcat
<1>6. runnable \o f \in Seq(Entry) /\ (runnable # <<>> => runnable \o f # <<>>)
  BY <1>3
<1> QED
  BY <1>4, <1>5, <1>6

LEMMA WakeChannelAccount ==
    ASSUME runnable \in Seq(Entry), NEW W, NEW ws \in Seq(W),
           \A w \in W : w.id \in Ids /\ w.who \in Ids,
           wakeChannelWaiters(ws)
    PROVE  /\ runnable' \in Seq(Entry)
           /\ runnable # <<>> => runnable' # <<>>
           /\ \A t \in Ids : Count(runnable', t) = Count(runnable, t) + Count(ws, t)
           /\ blockedOnChannel' = blockedOnChannel - Len(ws)
<1> DEFINE f == [i \in DOMAIN ws |-> ResumeEntry(ws[i], DirectHops, FALSE)]
<1>1. \A i \in DOMAIN ws : ws[i] \in W
  OBVIOUS
<1>2. DirectHops \in 1..AsyncHops /\ FALSE \in BOOLEAN
  BY DEF DirectHops, AsyncHops
<1>3. \A i \in DOMAIN ws : f[i] \in Entry /\ f[i].who = ws[i].who
  BY <1>1, <1>2, ResumeIsEntry, Zenon
<1>4. runnable' = runnable \o f /\ blockedOnChannel' = blockedOnChannel - Len(ws)
  BY Zenon DEF wakeChannelWaiters
<1>5. DOMAIN f = DOMAIN ws /\ f = [i \in DOMAIN ws |-> f[i]]
  OBVIOUS
<1> HIDE DEF f
<1>6. /\ runnable' \in Seq(Entry)
      /\ runnable # <<>> => runnable' # <<>>
      /\ \A t \in Ids : Count(runnable', t) = Count(runnable, t) + Count(ws, t)
  BY <1>3, <1>4, <1>5, EnqueueAll, Zenon
<1> QED
  BY <1>4, <1>6, Zenon

\* The queue of waiters of one task is replaced.
LEMMA WaitersMove ==
    ASSUME NEW u, NEW ws, NEW vs, OneQueue(Ids, u, AwaiterType, ws, vs)
    PROVE  /\ \A t \in Ids : Waits(vs, t) = Waits(ws, t) - Count(ws[u], t) + Count(vs[u], t)
           /\ Awaiting(vs) = Awaiting(ws) - Len(ws[u]) + Len(vs[u])
<1>1. \A t : Cardinality(Tagged("waiters", Ids, vs, t)) =
                Cardinality(Tagged("waiters", Ids, ws, t)) - Count(ws[u], t) + Count(vs[u], t)
  BY TaggedUpdate
<1>2. Cardinality(Entries(Ids, vs)) = Cardinality(Entries(Ids, ws)) - Len(ws[u]) + Len(vs[u])
  BY EntriesUpdate
<1> QED
  BY <1>1, <1>2, Zenon DEF Waits, Awaiting

LEMMA WaitersExcept ==
    ASSUME Typed, NEW u \in Ids, NEW q \in Seq(AwaiterType),
           waiters' = [waiters EXCEPT ![u] = q]
    PROVE  OneQueue(Ids, u, AwaiterType, waiters, waiters') /\ waiters'[u] = q
<1>1. /\ \A k \in Ids : waiters[k] \in Seq(AwaiterType) /\ waiters'[k] \in Seq(AwaiterType)
      /\ \A k \in Ids : k # u => waiters[k] = waiters'[k]
      /\ waiters'[u] = q
  BY DEF Typed
<1> QED
  BY <1>1, IndexFinite, Zenon DEF OneQueue

LEMMA WakeWaitersAccount ==
    ASSUME Typed, runnable \in Seq(Entry), NEW u \in Ids, NEW failed \in BOOLEAN,
           wakeWaiters(u, failed)
    PROVE  /\ runnable' \in Seq(Entry)
           /\ runnable # <<>> => runnable' # <<>>
           /\ \A t \in Ids : Waits(waiters', t) + Count(runnable', t) =
                                Waits(waiters, t) + Count(runnable, t)
           /\ blockedOnTask = Awaiting(waiters) => blockedOnTask' = Awaiting(waiters')
<1> DEFINE ws == waiters[u]
           th(i) == failed /\ ~ws[i].tryMode
           f == [i \in DOMAIN ws |-> ResumeEntry(ws[i], AsyncHops, th(i))]
<1>1. ws \in Seq(AwaiterType)
  BY DEF Typed
<1>2. \A i \in DOMAIN ws : ws[i].id \in Ids /\ ws[i].who \in Ids
  <2>1. \A i \in DOMAIN ws : ws[i] \in AwaiterType
    BY <1>1
  <2> QED
    BY <2>1 DEF AwaiterType
<1>3. \A i \in DOMAIN ws : f[i] \in Entry /\ f[i].who = ws[i].who
  <2> TAKE i \in DOMAIN ws
  <2>1. th(i) \in BOOLEAN /\ AsyncHops \in 1..AsyncHops
    BY DEF AsyncHops
  <2>2. f[i] = ResumeEntry(ws[i], AsyncHops, th(i))
    BY Zenon
  <2> QED
    BY <1>2, <2>1, <2>2, ResumeIsEntry, Zenon
<1>4. /\ runnable' = runnable \o f
      /\ waiters' = [waiters EXCEPT ![u] = <<>>]
      /\ blockedOnTask' = blockedOnTask - Len(ws)
  BY Zenon DEF wakeWaiters
<1>5. DOMAIN f = DOMAIN ws /\ f = [i \in DOMAIN ws |-> f[i]]
  BY Zenon
<1> HIDE DEF f
<1>6. /\ runnable' \in Seq(Entry)
      /\ runnable # <<>> => runnable' # <<>>
      /\ \A t \in Ids : Count(runnable', t) = Count(runnable, t) + Count(ws, t)
  BY <1>1, <1>3, <1>4, <1>5, EnqueueAll, Zenon
<1>7. <<>> \in Seq(AwaiterType) /\ Len(<<>>) = 0
  OBVIOUS
<1>8. /\ \A t \in Ids : Waits(waiters', t) = Waits(waiters, t) - Count(ws, t) + Count(<<>>, t)
      /\ Awaiting(waiters') = Awaiting(waiters) - Len(ws) + Len(<<>>)
  <2>1. OneQueue(Ids, u, AwaiterType, waiters, waiters') /\ waiters'[u] = <<>>
    BY <1>4, <1>7, WaitersExcept, Zenon
  <2>2. /\ \A t \in Ids : Waits(waiters', t) = Waits(waiters, t) - Count(ws, t) + Count(waiters'[u], t)
        /\ Awaiting(waiters') = Awaiting(waiters) - Len(ws) + Len(waiters'[u])
    BY <2>1, WaitersMove
  <2> QED
    BY <2>1, <2>2, Zenon
<1>9. \A t \in Ids : /\ Count(<<>>, t) = 0 /\ Count(ws, t) \in Nat
                     /\ Count(runnable, t) \in Nat /\ Waits(waiters, t) \in Nat
  BY <1>1, CountEmpty, CountNum, CountTypes, Zenon
<1>10. \A t \in Ids : Waits(waiters', t) + Count(runnable', t) =
                         Waits(waiters, t) + Count(runnable, t)
  BY <1>6, <1>8, <1>9
<1>11. Len(ws) \in Nat
  BY <1>1
<1> HIDE DEF ws
<1>12. blockedOnTask = Awaiting(waiters) => blockedOnTask' = Awaiting(waiters')
  BY <1>4, <1>7, <1>8, <1>11 DEF Typed
<1> QED
  BY <1>6, <1>10, <1>12

\* The queues of one channel are replaced.
OneChannel(c, cs, ds) ==
    /\ c \in ChannelIds
    /\ \A k \in ChannelIds : cs[k] \in ChannelType /\ ds[k] \in ChannelType
    /\ \A k \in ChannelIds : k # c => ds[k] = cs[k]

LEMMA ChannelMove ==
    ASSUME NEW c, NEW cs, NEW ds, OneChannel(c, cs, ds)
    PROVE  /\ \A t \in Ids : Sends(ds, t) = Sends(cs, t) - Count(cs[c].sendQ, t) + Count(ds[c].sendQ, t)
           /\ \A t \in Ids : Recvs(ds, t) = Recvs(cs, t) - Count(cs[c].recvQ, t) + Count(ds[c].recvQ, t)
           /\ Parked(ds) = Parked(cs) - (Len(cs[c].sendQ) + Len(cs[c].recvQ))
                                      + (Len(ds[c].sendQ) + Len(ds[c].recvQ))
<1>c. c \in ChannelIds
  BY DEF OneChannel
<1>q. \A k \in ChannelIds :
         /\ cs[k].sendQ \in Seq(SenderType) /\ ds[k].sendQ \in Seq(SenderType)
         /\ cs[k].recvQ \in Seq(WaiterType) /\ ds[k].recvQ \in Seq(WaiterType)
  BY DEF OneChannel, ChannelType
<1>1. \A t \in Ids : Sends(ds, t) = Sends(cs, t) - Count(cs[c].sendQ, t) + Count(ds[c].sendQ, t)
  <2>1. \A k \in ChannelIds : SendQs(cs)[k] = cs[k].sendQ /\ SendQs(ds)[k] = ds[k].sendQ
    BY DEF SendQs
  <2>2. OneQueue(ChannelIds, c, SenderType, SendQs(cs), SendQs(ds))
    BY <1>q, <2>1, IndexFinite, Zenon DEF OneQueue, OneChannel
  <2>3. \A t : Cardinality(Tagged("sendQ", ChannelIds, SendQs(ds), t)) =
                  Cardinality(Tagged("sendQ", ChannelIds, SendQs(cs), t))
                  - Count(SendQs(cs)[c], t) + Count(SendQs(ds)[c], t)
    BY <2>2, TaggedUpdate
  <2> QED
    BY <1>c, <2>1, <2>3, Zenon DEF Sends
<1>2. \A t \in Ids : Recvs(ds, t) = Recvs(cs, t) - Count(cs[c].recvQ, t) + Count(ds[c].recvQ, t)
  <2>1. \A k \in ChannelIds : RecvQs(cs)[k] = cs[k].recvQ /\ RecvQs(ds)[k] = ds[k].recvQ
    BY DEF RecvQs
  <2>2. OneQueue(ChannelIds, c, WaiterType, RecvQs(cs), RecvQs(ds))
    BY <1>q, <2>1, IndexFinite, Zenon DEF OneQueue, OneChannel
  <2>3. \A t : Cardinality(Tagged("recvQ", ChannelIds, RecvQs(ds), t)) =
                  Cardinality(Tagged("recvQ", ChannelIds, RecvQs(cs), t))
                  - Count(RecvQs(cs)[c], t) + Count(RecvQs(ds)[c], t)
    BY <2>2, TaggedUpdate
  <2> QED
    BY <1>c, <2>1, <2>3, Zenon DEF Recvs
<1>3. Parked(ds) = Parked(cs) - (Len(cs[c].sendQ) + Len(cs[c].recvQ))
                              + (Len(ds[c].sendQ) + Len(ds[c].recvQ))
  <2>1. \A k \in ChannelIds : /\ ParkedQs(cs)[k] = cs[k].sendQ \o cs[k].recvQ
                              /\ ParkedQs(ds)[k] = ds[k].sendQ \o ds[k].recvQ
    BY DEF ParkedQs
  <2>2. \A a \in Seq(SenderType), b \in Seq(WaiterType) :
           a \o b \in Seq(SenderType \cup WaiterType) /\ Len(a \o b) = Len(a) + Len(b)
    OBVIOUS
  <2>3. OneQueue(ChannelIds, c, SenderType \cup WaiterType, ParkedQs(cs), ParkedQs(ds))
    BY <1>q, <2>1, <2>2, IndexFinite, Zenon DEF OneQueue, OneChannel
  <2>4. Cardinality(Entries(ChannelIds, ParkedQs(ds))) =
           Cardinality(Entries(ChannelIds, ParkedQs(cs)))
           - Len(ParkedQs(cs)[c]) + Len(ParkedQs(ds)[c])
    BY <2>3, EntriesUpdate
  <2>5. /\ Len(ParkedQs(cs)[c]) = Len(cs[c].sendQ) + Len(cs[c].recvQ)
        /\ Len(ParkedQs(ds)[c]) = Len(ds[c].sendQ) + Len(ds[c].recvQ)
    BY <1>c, <1>q, <2>1, <2>2, Zenon
  <2> QED
    BY <2>4, <2>5, Zenon DEF Parked
<1> QED
  BY <1>1, <1>2, <1>3

LEMMA ChannelExcept ==
    ASSUME Typed, NEW c \in ChannelIds, NEW r \in ChannelType,
           channels' = [channels EXCEPT ![c] = r]
    PROVE  OneChannel(c, channels, channels') /\ channels'[c] = r
<1>1. /\ \A k \in ChannelIds : channels[k] \in ChannelType /\ channels'[k] \in ChannelType
      /\ \A k \in ChannelIds : k # c => channels'[k] = channels[k]
      /\ channels'[c] = r
  BY DEF Typed
<1> QED
  BY <1>1, Zenon DEF OneChannel

-----------------------------------------------------------------------------
(* The actions.                                                            *)

LEMMA OwnNat == \A w, t : Own(w, t) \in Nat
BY DEF Own

\* A step after which the counts of every stack agree with its state.
LEMMA AccountStep ==
    ASSUME Typed, Account, nextId' = nextId, state' = state,
           nextChannelId' = nextChannelId, channels' = channels,
           runnable' \in Seq(Entry), Pumping', Counted',
           \A t \in Ids : Sum(t)' = Sum(t)
    PROVE  Account'
BY Zenon DEF Account, EachOnce, Fresh

LEMMA CreateAccount ==
    ASSUME Typed, Account, taskCreate
    PROVE  Account'
<1>1. nextId \in Ids /\ nextId <= MaxTasks
  BY BoundsAssumption DEF taskCreate, Typed, Ids
<1>2. StartEntry(nextId) \in Entry /\ StartEntry(nextId).who = nextId
  BY <1>1 DEF StartEntry, EntryType, Entry, AsyncHops
<1>3. /\ runnable' \in Seq(Entry) /\ runnable' # <<>>
      /\ \A t \in Ids : Count(runnable', t) = Count(runnable, t) + Own(StartEntry(nextId), t)
  BY <1>2, Enqueue, Zenon DEF taskCreate, Account, Fresh
<1>4. /\ micro' = micro /\ pumping' = pumping /\ exec' = exec
      /\ waiters' = waiters /\ channels' = channels /\ timers' = timers /\ hosts' = hosts
      /\ blockedOnTask' = blockedOnTask /\ blockedOnChannel' = blockedOnChannel
      /\ pendingHost' = pendingHost /\ nextId' = nextId + 1 /\ nextChannelId' = nextChannelId
      /\ state' = [state EXCEPT ![nextId] = "new"]
  BY StayType, Zenon DEF taskCreate, chanVars, hostVars
<1>5. EachOnce'
  <2> SUFFICES ASSUME NEW t \in Ids PROVE Sum(t)' = Live(state'[t])
    BY DEF EachOnce
  <2>1. Sum(t) = Live(state[t])
    BY DEF Account, EachOnce
  <2>2. Sum(t)' = Sum(t) + Own(StartEntry(nextId), t)
    <3>1. Count(runnable', t) = Count(runnable, t) + Own(StartEntry(nextId), t)
      BY <1>3
    <3>2. Own(StartEntry(nextId), t) \in Nat
      BY OwnNat
    <3> QED
      BY <1>4, <3>1, <3>2, CountTypes DEF Sum
  <2>3. CASE t = nextId
    <3>1. state[t] = "absent"
      BY <1>1, <2>3 DEF Account, Fresh, Ids
    <3>2. state'[t] = "new"
      BY <1>4, <2>3 DEF Typed
    <3> QED
      BY <1>2, <2>1, <2>2, <2>3, <3>1, <3>2 DEF Own, Live
  <2>4. CASE t # nextId
    <3>1. state'[t] = state[t]
      BY <1>4, <2>4 DEF Typed
    <3>2. Live(state[t]) \in Nat
      BY DEF Live
    <3> QED
      BY <1>2, <2>1, <2>2, <2>4, <3>1, <3>2 DEF Own
  <2> QED
    BY <2>3, <2>4
<1>6. Counted'
  BY <1>4, Zenon DEF Account, Counted
<1>7. Pumping'
  BY <1>3, <1>4, Zenon DEF Account, Pumping
<1>8. Fresh'
  <2>1. \A t \in Ids : t >= nextId' => state'[t] = "absent"
    BY <1>1, <1>4 DEF Account, Fresh, Ids, Typed
  <2> QED
    BY <1>3, <1>4, <2>1, Zenon DEF Account, Fresh
<1> QED
  BY <1>5, <1>6, <1>7, <1>8 DEF Account

\* The stack on the thread gives it up.
LEMMA LeavesThread ==
    ASSUME exec \in Ids, exec' = None, NEW t \in Ids
    PROVE  /\ Thread(exec', t) = 0
           /\ \A w : w.who = exec => Own(w, t) = Thread(exec, t)
<1>1. None # t
  BY DEF None, Ids
<1> QED
  BY <1>1 DEF Thread, Own

LEMMA SuspendAccount ==
    ASSUME Typed, Account, schedule(micro), runnable # <<>> => runnable' # <<>>
    PROVE  /\ \A t \in Ids : Count(micro', t) = Count(micro, t)
           /\ Num(micro', HostJobs) = Num(micro, HostJobs)
           /\ Pumping'
<1>1. micro \in Seq(JobType)
  BY DEF Typed
<1>2. /\ pumping = TRUE => Num(micro, Pump) = 1 /\ runnable' # <<>>
      /\ pumping = FALSE => Num(micro, Pump) = 0
  BY Zenon DEF Account, Pumping
<1> QED
  BY <1>1, <1>2, ScheduleAccount, Zenon

LEMMA AwaitAccount ==
    ASSUME Typed, Account, NEW tid \in Handles, NEW tryMode \in BOOLEAN,
           awaitParked(tid, tryMode)
    PROVE  Account'
<1> DEFINE a == [id |-> current, who |-> exec, tryMode |-> tryMode]
           q == Append(waiters[tid], a)
<1>1. tid \in Ids /\ exec \in Ids /\ current \in Ids
  BY HandleType, GuestType DEF awaitParked, Typed
<1>2. a \in AwaiterType /\ a.who = exec /\ waiters[tid] \in Seq(AwaiterType)
  BY <1>1 DEF AwaiterType, Typed
<1>3. /\ waiters' = [waiters EXCEPT ![tid] = q]
      /\ nextId' = nextId /\ state' = state /\ runnable' = runnable /\ timers' = timers
      /\ hosts' = hosts /\ channels' = channels /\ nextChannelId' = nextChannelId
      /\ blockedOnTask' = blockedOnTask + 1 /\ blockedOnChannel' = blockedOnChannel
      /\ pendingHost' = pendingHost /\ exec' = None /\ schedule(micro)
  BY Zenon DEF awaitParked, suspend, chanVars, hostVars
<1>4. q \in Seq(AwaiterType) /\ Len(q) = Len(waiters[tid]) + 1 /\ Len(waiters[tid]) \in Nat
  BY <1>2
<1> HIDE DEF a
<1>5. \A t : Count(q, t) = Count(waiters[tid], t) + Own(a, t)
  BY <1>2, CountAppend
<1> HIDE DEF q
<1>6. OneQueue(Ids, tid, AwaiterType, waiters, waiters') /\ waiters'[tid] = q
  BY <1>1, <1>3, <1>4, WaitersExcept, Zenon
<1>7. /\ \A t \in Ids : Waits(waiters', t) = Waits(waiters, t) - Count(waiters[tid], t) + Count(waiters'[tid], t)
      /\ Awaiting(waiters') = Awaiting(waiters) - Len(waiters[tid]) + Len(waiters'[tid])
  BY <1>6, WaitersMove
<1>8. /\ \A t \in Ids : Count(micro', t) = Count(micro, t)
      /\ Num(micro', HostJobs) = Num(micro, HostJobs)
      /\ Pumping'
  BY <1>3, SuspendAccount, Zenon
<1>9. ASSUME NEW t \in Ids PROVE Sum(t)' = Sum(t)
  <2>1. Thread(exec', t) = 0 /\ Own(a, t) = Thread(exec, t)
    BY <1>1, <1>2, <1>3, LeavesThread, Zenon
  <2>2. Waits(waiters', t) = Waits(waiters, t) - Count(waiters[tid], t) + Count(q, t)
    BY <1>6, <1>7, Zenon
  <2>3. Count(waiters[tid], t) \in Nat
    BY <1>2, CountNum, Zenon
  <2>4. Count(micro', t) = Count(micro, t) /\ Count(q, t) = Count(waiters[tid], t) + Own(a, t)
    BY <1>5, <1>8, Zenon
  <2> QED
    BY <1>3, <2>1, <2>2, <2>3, <2>4, CountTypes DEF Sum
<1>10. Counted'
  <2>1. blockedOnTask' = Awaiting(waiters')
    <3>1. blockedOnTask \in Int /\ blockedOnTask = Awaiting(waiters)
      BY DEF Account, Counted, Typed
    <3>2. Awaiting(waiters') = Awaiting(waiters) - Len(waiters[tid]) + Len(q)
      BY <1>6, <1>7, Zenon
    <3>3. blockedOnTask' = blockedOnTask + 1
      BY <1>3
    <3> QED
      BY <1>4, <3>1, <3>2, <3>3
  <2> QED
    BY <1>3, <1>8, <2>1, Zenon DEF Account, Counted
<1>11. runnable' \in Seq(Entry)
  BY <1>3, Zenon DEF Account, Fresh
<1> QED
  BY <1>3, <1>8, <1>9, <1>10, <1>11, AccountStep, Zenon

\* The stack leaves the thread for the microtask queue.
LEMMA QueueSelfAccount ==
    ASSUME Typed, Account, exec \in Ids, exec' = None, NEW j \in StackJobType,
           j.who = exec, j.job # "host", micro' = Append(micro, j),
           UNCHANGED <<nextId, state, waiters, blockedOnTask, runnable, pumping,
                       chanVars, hostVars>>
    PROVE  Account'
<1>0. micro \in Seq(JobType)
  BY DEF Typed
<1>1. /\ \A t \in Ids : Count(micro', t) = Count(micro, t) + Own(j, t)
      /\ Num(micro', Pump) = Num(micro, Pump)
      /\ Num(micro', HostJobs) = Num(micro, HostJobs)
  BY <1>0, QueueJob, Zenon
<1>2. /\ nextId' = nextId /\ state' = state /\ runnable' = runnable /\ timers' = timers
      /\ hosts' = hosts /\ channels' = channels /\ nextChannelId' = nextChannelId
      /\ blockedOnTask' = blockedOnTask /\ blockedOnChannel' = blockedOnChannel
      /\ pendingHost' = pendingHost /\ waiters' = waiters /\ pumping' = pumping
  BY Zenon DEF chanVars, hostVars
<1>3. ASSUME NEW t \in Ids PROVE Sum(t)' = Sum(t)
  <2>1. Thread(exec', t) = 0 /\ Own(j, t) = Thread(exec, t)
    BY LeavesThread, Zenon
  <2>2. Count(micro', t) = Count(micro, t) + Own(j, t)
    BY <1>1, Zenon
  <2> QED
    BY <1>2, <2>1, <2>2, CountTypes, SMTT(30) DEF Sum
<1>4. Counted' /\ Pumping' /\ runnable' \in Seq(Entry)
  BY <1>1, <1>2, Zenon DEF Account, Counted, Pumping, Fresh
<1> QED
  BY <1>2, <1>3, <1>4, AccountStep, Zenon

LEMMA SettledAccount ==
    ASSUME Typed, Account, NEW tid \in Handles, NEW tryMode \in BOOLEAN,
           awaitSettled(tid, tryMode)
    PROVE  Account'
<1> DEFINE th == (state[tid] = "failed" /\ ~tryMode)
           j == ContJob(exec, DirectHops, th)
<1>1. exec \in Ids /\ exec' = None
  BY GuestType DEF awaitSettled
<1>2. th \in BOOLEAN
  BY Zenon
<1> HIDE DEF th
<1>3. j \in StackJobType /\ j.who = exec /\ j.job # "host"
  BY <1>1, <1>2 DEF ContJob, Job, StackJobType, DirectHops, HostHops
<1>4. micro' = Append(micro, j)
  BY Zenon DEF awaitSettled, th
<1>5. UNCHANGED <<nextId, state, waiters, blockedOnTask, runnable, pumping,
                  chanVars, hostVars>>
  BY DEF awaitSettled
<1> HIDE DEF j
<1> QED
  BY <1>1, <1>3, <1>4, <1>5, QueueSelfAccount, Zenon

LEMMA FinishAccount ==
    ASSUME Typed, Account, NEW throws \in BOOLEAN, finish(throws)
    PROVE  Account'
<1> DEFINE j == SettleJob(exec, throws)
<1>1. exec \in Ids /\ exec' = None
  BY GuestType DEF finish
<1>3. j \in StackJobType /\ j.who = exec /\ j.job # "host"
  BY <1>1 DEF SettleJob, Job, StackJobType, HostHops
<1>4. micro' = Append(micro, j)
  BY Zenon DEF finish
<1>5. UNCHANGED <<nextId, state, waiters, blockedOnTask, runnable, pumping,
                  chanVars, hostVars>>
  BY DEF finish, taskVars
<1> HIDE DEF j
<1> QED
  BY <1>1, <1>3, <1>4, <1>5, QueueSelfAccount, Zenon

LEMMA CallerFacts ==
    ASSUME Typed, guest
    PROVE  /\ exec \in Ids /\ Caller \in WaiterType /\ Caller.who = exec
           /\ Caller.id \in Ids /\ Caller.who \in Ids
<1>1. exec \in Ids /\ current \in Ids
  BY GuestType DEF Typed
<1> QED
  BY <1>1 DEF Caller, WaiterType

LEMMA YieldFastAccount ==
    ASSUME Typed, Account, yieldFast
    PROVE  Account'
<1> DEFINE e == ResumeEntry(Caller, DirectHops, FALSE)
<1>1. exec \in Ids /\ Caller.id \in Ids /\ Caller.who \in Ids /\ Caller.who = exec
  BY CallerFacts, Zenon DEF yieldFast
<1>2. DirectHops \in 1..AsyncHops /\ FALSE \in BOOLEAN
  BY DEF DirectHops, AsyncHops
<1>3. e \in Entry /\ \A t : Own(e, t) = Own(Caller, t)
  BY <1>1, <1>2, ResumeIsEntry, Zenon
<1>4. /\ runnable' = Append(runnable, e)
      /\ nextId' = nextId /\ state' = state /\ waiters' = waiters /\ timers' = timers
      /\ hosts' = hosts /\ channels' = channels /\ nextChannelId' = nextChannelId
      /\ blockedOnTask' = blockedOnTask /\ blockedOnChannel' = blockedOnChannel
      /\ pendingHost' = pendingHost /\ exec' = None /\ schedule(micro)
  BY Zenon DEF yieldFast, suspend, taskVars, chanVars
<1>5. runnable \in Seq(Entry)
  BY DEF Account, Fresh
<1> HIDE DEF e
<1>6. /\ runnable' \in Seq(Entry) /\ runnable' # <<>>
      /\ \A t \in Ids : Count(runnable', t) = Count(runnable, t) + Own(e, t)
  BY <1>3, <1>4, <1>5, Enqueue, Zenon
<1>7. /\ \A t \in Ids : Count(micro', t) = Count(micro, t)
      /\ Num(micro', HostJobs) = Num(micro, HostJobs)
      /\ Pumping'
  BY <1>4, <1>6, SuspendAccount, Zenon
<1>8. ASSUME NEW t \in Ids PROVE Sum(t)' = Sum(t)
  <2>1. Thread(exec', t) = 0 /\ Own(Caller, t) = Thread(exec, t)
    BY <1>1, <1>4, LeavesThread, Zenon
  <2>2. Count(micro', t) = Count(micro, t) /\ Count(runnable', t) = Count(runnable, t) + Thread(exec, t)
    BY <1>3, <1>6, <1>7, <2>1, Zenon
  <2> QED
    BY <1>4, <2>1, <2>2, CountTypes DEF Sum
<1>9. Counted'
  BY <1>4, <1>7, Zenon DEF Account, Counted
<1> QED
  BY <1>4, <1>6, <1>7, <1>8, <1>9, AccountStep, Zenon

\* The caller is on the thread, so it is not among the parked.
LEMMA CallerNotHosted ==
    ASSUME Typed, Account, exec \in Ids, Caller.who = exec
    PROVE  Caller \notin timers /\ Caller \notin hosts
<1> PICK t \in Ids : t = exec
  OBVIOUS
<1>1. Sum(t) <= 1 /\ Thread(exec, t) = 1
  BY DEF Account, EachOnce, Live, Thread
<1>2. Hosted(timers, t) = 0 /\ Hosted(hosts, t) = 0
  <2>1. /\ Count(micro, t) \in Nat /\ Count(runnable, t) \in Nat /\ Hosted(timers, t) \in Nat
        /\ Hosted(hosts, t) \in Nat /\ Waits(waiters, t) \in Nat /\ Sends(channels, t) \in Nat
        /\ Recvs(channels, t) \in Nat
    BY CountTypes, Zenon
  <2> QED
    BY <1>1, <2>1, SMTT(30) DEF Sum
<1>3. Holds(timers, t) = {} /\ Holds(hosts, t) = {}
  BY <1>2, CountTypes, FS_EmptySet, Zenon DEF Hosted
<1> QED
  BY <1>3 DEF Holds

LEMMA YieldHopAccount ==
    ASSUME Typed, Account, yieldHop
    PROVE  Account'
<1>1. exec \in Ids /\ Caller.who = exec
  BY CallerFacts, Zenon DEF yieldHop
<1>2. /\ runnable' = runnable /\ micro' = micro /\ pumping' = pumping
      /\ nextId' = nextId /\ state' = state /\ waiters' = waiters
      /\ timers' = timers \cup {Caller}
      /\ hosts' = hosts /\ channels' = channels /\ nextChannelId' = nextChannelId
      /\ blockedOnTask' = blockedOnTask /\ blockedOnChannel' = blockedOnChannel
      /\ pendingHost' = pendingHost + 1 /\ exec' = None
  BY Zenon DEF yieldHop, taskVars, chanVars
<1>3. Caller \notin timers
  BY <1>1, CallerNotHosted, Zenon
<1>4. IsFiniteSet(timers) /\ IsFiniteSet(hosts)
  BY <1>1, CountTypes, Zenon
<1>5. \A t : /\ Cardinality(Holds(timers \cup {Caller}, t)) = Cardinality(Holds(timers, t)) + Own(Caller, t)
             /\ Cardinality(timers \cup {Caller}) = Cardinality(timers) + 1
  BY <1>3, <1>4, HoldsAdd, SMTT(30)
<1>6. ASSUME NEW t \in Ids PROVE Sum(t)' = Sum(t)
  <2>1. Thread(exec', t) = 0 /\ Own(Caller, t) = Thread(exec, t)
    BY <1>1, <1>2, LeavesThread, Zenon
  <2>2. Hosted(timers', t) = Hosted(timers, t) + Thread(exec, t)
    BY <1>2, <1>5, <2>1, Zenon DEF Hosted
  <2> QED
    BY <1>2, <2>1, <2>2, CountTypes DEF Sum
<1>7. Counted'
  <2>1. pendingHost' = Cardinality(timers') + Cardinality(hosts') + Num(micro', HostJobs)
    <3>1. Cardinality(timers') = Cardinality(timers) + 1
      BY <1>2, <1>5, Zenon
    <3>2. pendingHost = Cardinality(timers) + Cardinality(hosts) + Num(micro, HostJobs)
      BY DEF Account, Counted
    <3>3. Cardinality(timers) \in Nat /\ Cardinality(hosts) \in Nat
      BY <1>4, FS_CardinalityType, Zenon
    <3>4. Num(micro, HostJobs) \in Nat
      BY PosFinite, Zenon DEF Typed
    <3> QED
      BY <1>2, <3>1, <3>2, <3>3, <3>4
  <2> QED
    BY <1>2, <2>1, Zenon DEF Account, Counted
<1>8. Pumping' /\ runnable' \in Seq(Entry)
  BY <1>2, Zenon DEF Account, Pumping, Fresh
<1> QED
  BY <1>2, <1>6, <1>7, <1>8, AccountStep, Zenon

LEMMA DeferredAccount ==
    ASSUME Typed, Account, hostDeferred
    PROVE  Account'
<1>1. exec \in Ids /\ Caller.who = exec
  BY CallerFacts, Zenon DEF hostDeferred
<1>2. /\ runnable' = runnable
      /\ nextId' = nextId /\ state' = state /\ waiters' = waiters
      /\ hosts' = hosts \cup {Caller}
      /\ timers' = timers /\ channels' = channels /\ nextChannelId' = nextChannelId
      /\ blockedOnTask' = blockedOnTask /\ blockedOnChannel' = blockedOnChannel
      /\ pendingHost' = pendingHost + 1 /\ exec' = None /\ schedule(micro)
  BY Zenon DEF hostDeferred, suspend, taskVars, chanVars
<1>3. Caller \notin hosts
  BY <1>1, CallerNotHosted, Zenon
<1>4. IsFiniteSet(timers) /\ IsFiniteSet(hosts)
  BY <1>1, CountTypes, Zenon
<1>5. \A t : /\ Cardinality(Holds(hosts \cup {Caller}, t)) = Cardinality(Holds(hosts, t)) + Own(Caller, t)
             /\ Cardinality(hosts \cup {Caller}) = Cardinality(hosts) + 1
  BY <1>3, <1>4, HoldsAdd
<1>6. /\ \A t \in Ids : Count(micro', t) = Count(micro, t)
      /\ Num(micro', HostJobs) = Num(micro, HostJobs)
      /\ Pumping'
  BY <1>2, SuspendAccount, Zenon
<1>7. ASSUME NEW t \in Ids PROVE Sum(t)' = Sum(t)
  <2>1. Thread(exec', t) = 0 /\ Own(Caller, t) = Thread(exec, t)
    BY <1>1, <1>2, LeavesThread, Zenon
  <2>2. Hosted(hosts', t) = Hosted(hosts, t) + Thread(exec, t) /\ Count(micro', t) = Count(micro, t)
    BY <1>2, <1>5, <1>6, <2>1, Zenon DEF Hosted
  <2> QED
    BY <1>2, <2>1, <2>2, CountTypes DEF Sum
<1>8. Counted'
  <2>1. pendingHost' = Cardinality(timers') + Cardinality(hosts') + Num(micro', HostJobs)
    <3>1. Cardinality(hosts') = Cardinality(hosts) + 1
      BY <1>2, <1>5, Zenon
    <3>2. pendingHost = Cardinality(timers) + Cardinality(hosts) + Num(micro, HostJobs)
      BY DEF Account, Counted
    <3>3. Cardinality(timers) \in Nat /\ Cardinality(hosts) \in Nat
      BY <1>4, FS_CardinalityType, Zenon
    <3>4. Num(micro, HostJobs) \in Nat /\ Num(micro', HostJobs) = Num(micro, HostJobs)
      BY <1>6, PosFinite, Zenon DEF Typed
    <3> QED
      BY <1>2, <3>1, <3>2, <3>3, <3>4
  <2> QED
    BY <1>2, <2>1, Zenon DEF Account, Counted
<1>9. runnable' \in Seq(Entry)
  BY <1>2, Zenon DEF Account, Fresh
<1> QED
  BY <1>2, <1>6, <1>7, <1>8, <1>9, AccountStep, Zenon

LEMMA ImmediateAccount ==
    ASSUME Typed, Account, NEW throws \in BOOLEAN, hostImmediate(throws)
    PROVE  Account'
<1> DEFINE j == Job("host", current, exec, HostHops, throws)
           m == Append(micro, j)
<1>1. exec \in Ids
  BY CallerFacts, Zenon DEF hostImmediate
<1>2. j \in StackJobType /\ j.who = exec /\ j.job = "host"
  BY <1>1 DEF Job, StackJobType, HostHops, Typed
<1>3. /\ runnable' = runnable /\ timers' = timers /\ hosts' = hosts
      /\ nextId' = nextId /\ state' = state /\ waiters' = waiters
      /\ channels' = channels /\ nextChannelId' = nextChannelId
      /\ blockedOnTask' = blockedOnTask /\ blockedOnChannel' = blockedOnChannel
      /\ pendingHost' = pendingHost + 1 /\ exec' = None /\ schedule(m)
  BY Zenon DEF hostImmediate, taskVars, chanVars
<1>4. micro \in Seq(JobType)
  BY DEF Typed
<1> HIDE DEF j
<1>5. /\ m \in Seq(JobType)
      /\ \A t \in Ids : Count(m, t) = Count(micro, t) + Own(j, t)
      /\ Num(m, Pump) = Num(micro, Pump)
      /\ Num(m, HostJobs) = Num(micro, HostJobs) + 1
  BY <1>2, <1>4, QueueJob, Zenon
<1> HIDE DEF m
<1>6. /\ \A t \in Ids : Count(micro', t) = Count(m, t)
      /\ Num(micro', HostJobs) = Num(m, HostJobs)
      /\ Pumping'
  <2>1. /\ pumping = TRUE => Num(m, Pump) = 1 /\ runnable' # <<>>
        /\ pumping = FALSE => Num(m, Pump) = 0
    BY <1>3, <1>5, Zenon DEF Account, Pumping
  <2> QED
    BY <1>3, <1>5, <2>1, ScheduleAccount, Zenon
<1>7. ASSUME NEW t \in Ids PROVE Sum(t)' = Sum(t)
  <2>1. Thread(exec', t) = 0 /\ Own(j, t) = Thread(exec, t)
    BY <1>1, <1>2, <1>3, LeavesThread, Zenon
  <2>2. Count(micro', t) = Count(micro, t) + Thread(exec, t)
    BY <1>5, <1>6, <2>1, Zenon
  <2> QED
    BY <1>3, <2>1, <2>2, CountTypes DEF Sum
<1>8. Counted'
  <2>1. pendingHost' = Cardinality(timers') + Cardinality(hosts') + Num(micro', HostJobs)
    <3>1. Num(micro', HostJobs) = Num(micro, HostJobs) + 1
      BY <1>5, <1>6, Zenon
    <3>2. pendingHost = Cardinality(timers) + Cardinality(hosts) + Num(micro, HostJobs)
      BY DEF Account, Counted
    <3>3. Cardinality(timers) \in Nat /\ Cardinality(hosts) \in Nat
      BY <1>1, CountTypes, FS_CardinalityType, Zenon
    <3>4. Num(micro, HostJobs) \in Nat
      BY <1>4, PosFinite, Zenon
    <3> QED
      BY <1>3, <3>1, <3>2, <3>3, <3>4
  <2> QED
    BY <1>3, <2>1, Zenon DEF Account, Counted
<1>9. runnable' \in Seq(Entry)
  BY <1>3, Zenon DEF Account, Fresh
<1> QED
  BY <1>3, <1>6, <1>7, <1>8, <1>9, AccountStep, Zenon

LEMMA Balance ==
    ASSUME NEW p \in Int, NEW d \in Int, NEW a \in Nat, NEW b \in Nat, NEW e \in Nat,
           NEW f \in Nat, NEW r, r = p - (a + b) + (e + f), d + a + b = p + e + f
    PROVE  d = r
OBVIOUS

\* A step that changes the queues of one channel, moving stacks between them,
\* the thread and the run queue.
ChannelMoves(c, sq, rq) ==
    /\ OneChannel(c, channels, channels')
    /\ sq \in Seq(SenderType) /\ rq \in Seq(WaiterType)
    /\ channels'[c].sendQ = sq /\ channels'[c].recvQ = rq
    /\ runnable' \in Seq(Entry) /\ Pumping'
    /\ Num(micro', HostJobs) = Num(micro, HostJobs)
    /\ \A t \in Ids :
          Thread(exec', t) + Count(micro', t) + Count(runnable', t) + Count(sq, t) + Count(rq, t) =
          Thread(exec, t) + Count(micro, t) + Count(runnable, t)
             + Count(channels[c].sendQ, t) + Count(channels[c].recvQ, t)
    /\ blockedOnChannel' + Len(channels[c].sendQ) + Len(channels[c].recvQ) =
          blockedOnChannel + Len(sq) + Len(rq)
    /\ UNCHANGED channelVars

LEMMA ChannelStep ==
    ASSUME Typed, Typed', Account, NEW c \in ChannelHandles, NEW sq, NEW rq,
           ChannelMoves(c, sq, rq)
    PROVE  Account'
<1>0. sq \in Seq(SenderType) /\ rq \in Seq(WaiterType) /\ runnable' \in Seq(Entry) /\ Pumping'
  BY Zenon DEF ChannelMoves
<1>1. c \in ChannelIds /\ c < nextChannelId
  BY HandleType, SMTT(30) DEF ChannelHandles, Typed
<1>2. /\ OneChannel(c, channels, channels')
      /\ channels'[c].sendQ = sq /\ channels'[c].recvQ = rq
  BY Zenon DEF ChannelMoves
<1>3. /\ \A t \in Ids : Sends(channels', t) = Sends(channels, t) - Count(channels[c].sendQ, t) + Count(channels'[c].sendQ, t)
      /\ \A t \in Ids : Recvs(channels', t) = Recvs(channels, t) - Count(channels[c].recvQ, t) + Count(channels'[c].recvQ, t)
      /\ Parked(channels') = Parked(channels) - (Len(channels[c].sendQ) + Len(channels[c].recvQ))
                                      + (Len(channels'[c].sendQ) + Len(channels'[c].recvQ))
  BY <1>2, ChannelMove
<1>4. channels[c].sendQ \in Seq(SenderType) /\ channels[c].recvQ \in Seq(WaiterType)
  BY <1>1 DEF Typed, ChannelType
<1>5. /\ nextId' = nextId /\ state' = state /\ waiters' = waiters
      /\ timers' = timers /\ hosts' = hosts /\ pendingHost' = pendingHost
      /\ blockedOnTask' = blockedOnTask /\ nextChannelId' = nextChannelId
  BY DEF ChannelMoves, channelVars, taskVars, hostVars
<1>6. EachOnce'
  <2> SUFFICES ASSUME NEW t \in Ids PROVE Sum(t)' = Live(state'[t])
    BY DEF EachOnce
  <2>0. Sum(t) = Live(state'[t])
    BY <1>5, Zenon DEF Account, EachOnce
  <2>1. /\ Sends(channels', t) = Sends(channels, t) - Count(channels[c].sendQ, t) + Count(sq, t)
        /\ Recvs(channels', t) = Recvs(channels, t) - Count(channels[c].recvQ, t) + Count(rq, t)
    BY <1>2, <1>3, Zenon
  <2>2. /\ Count(channels[c].sendQ, t) \in Nat /\ Count(channels[c].recvQ, t) \in Nat
        /\ Count(sq, t) \in Nat /\ Count(rq, t) \in Nat
    BY <1>0, <1>4, CountNum, Zenon
  <2>3. Thread(exec', t) \in Nat
    BY DEF Thread
  <2>4. Count(micro', t) \in Nat /\ Count(runnable', t) \in Nat
    BY CountNum, Zenon DEF Typed
  <2>5. Thread(exec', t) + Count(micro', t) + Count(runnable', t) + Count(sq, t) + Count(rq, t) =
        Thread(exec, t) + Count(micro, t) + Count(runnable, t)
           + Count(channels[c].sendQ, t) + Count(channels[c].recvQ, t)
    BY Zenon DEF ChannelMoves
  <2>6. Sum(t)' = Thread(exec', t) + Count(micro', t) + Count(runnable', t) + Hosted(timers, t)
                  + Hosted(hosts, t) + Waits(waiters, t) + Sends(channels', t) + Recvs(channels', t)
    BY <1>5, Zenon DEF Sum
  <2>7. /\ Thread(exec, t) \in Nat /\ Count(micro, t) \in Nat /\ Count(runnable, t) \in Nat
        /\ Hosted(timers, t) \in Nat /\ Hosted(hosts, t) \in Nat /\ Waits(waiters, t) \in Nat
        /\ Sends(channels, t) \in Nat /\ Recvs(channels, t) \in Nat
    BY CountTypes, Zenon
  <2>8. Sum(t)' = Sum(t)
    BY <2>1, <2>2, <2>3, <2>4, <2>5, <2>6, <2>7 DEF Sum
  <2> QED
    BY <2>0, <2>8, Zenon
<1>9. Num(micro', HostJobs) = Num(micro, HostJobs)
  BY Zenon DEF ChannelMoves
<1>7. Counted'
  <2>1. blockedOnChannel' = Parked(channels')
    <3>1. Parked(channels') = Parked(channels) - (Len(channels[c].sendQ) + Len(channels[c].recvQ))
                                               + (Len(sq) + Len(rq))
      BY <1>2, <1>3, Zenon
    <3>2. blockedOnChannel = Parked(channels) /\ blockedOnChannel \in Int /\ blockedOnChannel' \in Int
      BY DEF Account, Counted, Typed
    <3>3. Len(channels[c].sendQ) \in Nat /\ Len(channels[c].recvQ) \in Nat
          /\ Len(sq) \in Nat /\ Len(rq) \in Nat
      BY <1>0, <1>4
    <3>4. blockedOnChannel' + Len(channels[c].sendQ) + Len(channels[c].recvQ) =
             blockedOnChannel + Len(sq) + Len(rq)
      BY Zenon DEF ChannelMoves
    <3> DEFINE n1 == Len(channels[c].sendQ)
               n2 == Len(channels[c].recvQ)
               n3 == Len(sq)
               n4 == Len(rq)
               p == Parked(channels)
               r == Parked(channels')
    <3>5. /\ n1 \in Nat /\ n2 \in Nat /\ n3 \in Nat /\ n4 \in Nat
          /\ r = p - (n1 + n2) + (n3 + n4)
          /\ blockedOnChannel' + n1 + n2 = blockedOnChannel + n3 + n4
          /\ blockedOnChannel = p
      BY <3>1, <3>2, <3>3, <3>4, Zenon
    <3> HIDE DEF n1, n2, n3, n4, p, r
    <3>6. blockedOnChannel' = r
      <4>1. r = p - (n1 + n2) + (n3 + n4)
        BY <3>5
      <4>2. blockedOnChannel' + n1 + n2 = p + n3 + n4
        BY <3>5
      <4>3. p \in Int /\ blockedOnChannel' \in Int /\ n1 \in Nat /\ n2 \in Nat /\ n3 \in Nat /\ n4 \in Nat
        BY <3>2, <3>5
      <4> QED
        BY <4>1, <4>2, <4>3, Balance
    <3> QED
      BY <3>6, Zenon DEF r
  <2> QED
    BY <1>5, <1>9, <2>1, Zenon DEF Account, Counted
<1>8. Fresh'
  <2>1. \A d \in ChannelIds : d >= nextChannelId' => channels'[d] = channels[d]
    BY <1>1, <1>2, <1>5 DEF OneChannel, ChannelIds, Typed
  <2> QED
    BY <1>0, <1>5, <2>1, Zenon DEF Account, Fresh
<1> QED
  BY <1>0, <1>6, <1>7, <1>8, Zenon DEF Account

LEMMA Released ==
    ASSUME NEW p \in Int, NEW d, NEW n \in Nat, NEW a \in Nat, NEW b \in Nat, NEW e \in Nat,
           NEW f \in Nat, d = p - n, a + b = n + e + f
    PROVE  d + a + b = p + e + f
OBVIOUS

\* An import that takes the waiters ws out of the queues of a channel, leaves
\* sq and rq, and returns.
Wakes(c, ws, sq, rq) ==
    /\ OneChannel(c, channels, channels')
    /\ channels'[c].sendQ = sq /\ channels'[c].recvQ = rq
    /\ sq \in Seq(SenderType) /\ rq \in Seq(WaiterType)
    /\ ws \in Seq(SenderType \cup WaiterType)
    /\ Len(channels[c].sendQ) + Len(channels[c].recvQ) = Len(ws) + Len(sq) + Len(rq)
    /\ \A t \in Ids : Count(channels[c].sendQ, t) + Count(channels[c].recvQ, t) =
                         Count(ws, t) + Count(sq, t) + Count(rq, t)
    /\ wakeChannelWaiters(ws)
    /\ stay
    /\ UNCHANGED channelVars

LEMMA WakesMove ==
    ASSUME Typed, Account, NEW c, NEW ws, NEW sq, NEW rq, Wakes(c, ws, sq, rq)
    PROVE  ChannelMoves(c, sq, rq)
<1>1. /\ OneChannel(c, channels, channels')
      /\ channels'[c].sendQ = sq /\ channels'[c].recvQ = rq
      /\ sq \in Seq(SenderType) /\ rq \in Seq(WaiterType)
      /\ ws \in Seq(SenderType \cup WaiterType) /\ wakeChannelWaiters(ws)
      /\ UNCHANGED channelVars
  BY Zenon DEF Wakes
<1>2. \A w \in SenderType \cup WaiterType : w.id \in Ids /\ w.who \in Ids
  BY DEF SenderType, WaiterType
<1>3. runnable \in Seq(Entry)
  BY DEF Account, Fresh
<1>4. /\ runnable' \in Seq(Entry)
      /\ runnable # <<>> => runnable' # <<>>
      /\ \A t \in Ids : Count(runnable', t) = Count(runnable, t) + Count(ws, t)
      /\ blockedOnChannel' = blockedOnChannel - Len(ws)
  BY <1>1, <1>2, <1>3, WakeChannelAccount, Zenon
<1>5. micro' = micro /\ pumping' = pumping /\ exec' = exec
  BY StayType, Zenon DEF Wakes
<1>6. Pumping' /\ Num(micro', HostJobs) = Num(micro, HostJobs)
  BY <1>4, <1>5, Zenon DEF Account, Pumping
<1>c. channels[c].sendQ \in Seq(SenderType) /\ channels[c].recvQ \in Seq(WaiterType)
  BY DEF Wakes, OneChannel, ChannelType
<1>7. ASSUME NEW t \in Ids
      PROVE  Thread(exec', t) + Count(micro', t) + Count(runnable', t) + Count(sq, t) + Count(rq, t) =
             Thread(exec, t) + Count(micro, t) + Count(runnable, t)
                + Count(channels[c].sendQ, t) + Count(channels[c].recvQ, t)
  <2>1. /\ Thread(exec', t) = Thread(exec, t) /\ Count(micro', t) = Count(micro, t)
        /\ Count(runnable', t) = Count(runnable, t) + Count(ws, t)
    BY <1>4, <1>5, Zenon
  <2>2. Count(channels[c].sendQ, t) + Count(channels[c].recvQ, t) =
           Count(ws, t) + Count(sq, t) + Count(rq, t)
    BY Zenon DEF Wakes
  <2>3. /\ Count(ws, t) \in Nat /\ Count(sq, t) \in Nat /\ Count(rq, t) \in Nat
        /\ Count(channels[c].sendQ, t) \in Nat /\ Count(channels[c].recvQ, t) \in Nat
    BY <1>1, <1>c, CountNum, Zenon
  <2>4. Thread(exec, t) \in Nat /\ Count(micro, t) \in Nat /\ Count(runnable, t) \in Nat
    BY CountTypes, Zenon
  <2> QED
    BY <2>1, <2>2, <2>3, <2>4
<1>8. blockedOnChannel' + Len(channels[c].sendQ) + Len(channels[c].recvQ) =
         blockedOnChannel + Len(sq) + Len(rq)
  <2>1. /\ Len(ws) \in Nat /\ Len(sq) \in Nat /\ Len(rq) \in Nat
        /\ Len(channels[c].sendQ) \in Nat /\ Len(channels[c].recvQ) \in Nat
    BY <1>1, <1>c
  <2>2. Len(channels[c].sendQ) + Len(channels[c].recvQ) = Len(ws) + Len(sq) + Len(rq)
    BY Zenon DEF Wakes
  <2>3. blockedOnChannel \in Int
    BY DEF Typed
  <2>4. blockedOnChannel' = blockedOnChannel - Len(ws)
    BY <1>4, Zenon
  <2> DEFINE n == Len(ws)
             n1 == Len(channels[c].sendQ)
             n2 == Len(channels[c].recvQ)
             n3 == Len(sq)
             n4 == Len(rq)
  <2>5. /\ n \in Nat /\ n1 \in Nat /\ n2 \in Nat /\ n3 \in Nat /\ n4 \in Nat
        /\ n1 + n2 = n + n3 + n4 /\ blockedOnChannel' = blockedOnChannel - n
    BY <2>1, <2>2, <2>4, Zenon
  <2> HIDE DEF n, n1, n2, n3, n4
  <2>6. blockedOnChannel' + n1 + n2 = blockedOnChannel + n3 + n4
    BY <2>3, <2>5, Released
  <2> QED
    BY <2>6, Zenon DEF n1, n2, n3, n4
<1> QED
  BY <1>1, <1>4, <1>6, <1>7, <1>8, Zenon DEF ChannelMoves

\* Taking the first of a queue.
LEMMA HeadTail ==
    ASSUME NEW T, NEW q \in Seq(T), q # <<>>
    PROVE  /\ <<Head(q)>> \in Seq(T) /\ Tail(q) \in Seq(T) /\ Head(q) \in T
           /\ Len(<<Head(q)>>) = 1 /\ Len(q) = Len(Tail(q)) + 1 /\ Len(Tail(q)) \in Nat
           /\ \A t : Count(q, t) = Count(<<Head(q)>>, t) + Count(Tail(q), t)
<1>1. /\ <<Head(q)>> \in Seq(T) /\ Tail(q) \in Seq(T) /\ Head(q) \in T
      /\ q = <<Head(q)>> \o Tail(q)
  OBVIOUS
<1>2. Len(<<Head(q)>>) = 1 /\ Len(q) = Len(Tail(q)) + 1 /\ Len(Tail(q)) \in Nat
  OBVIOUS
<1>3. \A t : Count(<<Head(q)>> \o Tail(q), t) = Count(<<Head(q)>>, t) + Count(Tail(q), t)
  BY <1>1, CountConcat
<1> QED
  BY <1>1, <1>2, <1>3, Zenon

\* What the imports need to know of the channel they work on.
ChannelFacts(c) ==
    /\ c \in ChannelIds
    /\ channels[c].capacity \in 0..MaxCapacity /\ channels[c].buffer \in Seq(Values)
    /\ channels[c].sendQ \in Seq(SenderType) /\ channels[c].recvQ \in Seq(WaiterType)
    /\ channels[c].closed \in BOOLEAN
    /\ Len(channels[c].sendQ) \in Nat /\ Len(channels[c].recvQ) \in Nat
    /\ \A t : Count(channels[c].sendQ, t) \in Nat /\ Count(channels[c].recvQ, t) \in Nat

LEMMA ChannelKnown ==
    ASSUME Typed, NEW c \in ChannelHandles
    PROVE  ChannelFacts(c)
<1>1. c \in ChannelIds
  BY HandleType
<1>2. /\ channels[c].capacity \in 0..MaxCapacity /\ channels[c].buffer \in Seq(Values)
      /\ channels[c].sendQ \in Seq(SenderType) /\ channels[c].recvQ \in Seq(WaiterType)
      /\ channels[c].closed \in BOOLEAN
  BY <1>1 DEF Typed, ChannelType
<1>3. Len(channels[c].sendQ) \in Nat /\ Len(channels[c].recvQ) \in Nat
  BY <1>2
<1>4. \A t : Count(channels[c].sendQ, t) \in Nat /\ Count(channels[c].recvQ, t) \in Nat
  BY <1>2, CountNum, Zenon
<1> QED
  BY <1>1, <1>2, <1>3, <1>4, Zenon DEF ChannelFacts

LEMMA Unions ==
    ASSUME NEW A, NEW B
    PROVE  \A q : q \in Seq(A) \/ q \in Seq(B) => q \in Seq(A \cup B)
OBVIOUS

LEMMA ConcatLength ==
    ASSUME NEW T, NEW a \in Seq(T), NEW b \in Seq(T)
    PROVE  a \o b \in Seq(T) /\ Len(b) + Len(a) = Len(a \o b) + 0 + 0
OBVIOUS

\* The oldest parked sender of a channel is resumed.
WakesSender(c, b) ==
    /\ channels[c].sendQ # <<>> /\ b \in Seq(Values)
    /\ channels' = [channels EXCEPT ![c] =
          Chan(channels[c].capacity, b, Tail(channels[c].sendQ), channels[c].recvQ, channels[c].closed)]
    /\ wakeChannelWaiters(<<Head(channels[c].sendQ)>>)
    /\ stay
    /\ UNCHANGED channelVars

LEMMA WakesSenderAccount ==
    ASSUME Typed, Typed', Account, NEW c \in ChannelHandles, NEW b, WakesSender(c, b)
    PROVE  Account'
<1> DEFINE q == channels[c].sendQ
           p == channels[c].recvQ
           r == Chan(channels[c].capacity, b, Tail(q), p, channels[c].closed)
<1>1. ChannelFacts(c)
  BY ChannelKnown, Zenon
<1>2. q \in Seq(SenderType) /\ p \in Seq(WaiterType) /\ q # <<>> /\ c \in ChannelIds
      /\ Len(p) \in Nat
  BY <1>1, Zenon DEF ChannelFacts, WakesSender
<1>3. /\ <<Head(q)>> \in Seq(SenderType) /\ Tail(q) \in Seq(SenderType)
      /\ Len(<<Head(q)>>) = 1 /\ Len(q) = Len(Tail(q)) + 1
      /\ Len(Tail(q)) \in Nat
      /\ \A t : Count(q, t) = Count(<<Head(q)>>, t) + Count(Tail(q), t)
  BY <1>2, HeadTail, Zenon
<1>4. r \in ChannelType /\ r.sendQ = Tail(q) /\ r.recvQ = p
  <2>1. /\ channels[c].capacity \in 0..MaxCapacity /\ b \in Seq(Values)
        /\ Tail(q) \in Seq(SenderType) /\ p \in Seq(WaiterType) /\ channels[c].closed \in BOOLEAN
    BY <1>1, <1>3, Zenon DEF ChannelFacts, WakesSender
  <2> HIDE DEF p, q
  <2> QED
    BY <2>1 DEF Chan, ChannelType
<1>5. channels' = [channels EXCEPT ![c] = r]
  BY Zenon DEF WakesSender
<1> HIDE DEF r
<1>6. OneChannel(c, channels, channels') /\ channels'[c].sendQ = Tail(q) /\ channels'[c].recvQ = p
  BY <1>2, <1>4, <1>5, ChannelExcept, Zenon
<1>7. Len(q) + Len(p) = Len(<<Head(q)>>) + Len(Tail(q)) + Len(p)
  BY <1>2, <1>3
<1>8. \A t \in Ids : Count(q, t) + Count(p, t) = Count(<<Head(q)>>, t) + Count(Tail(q), t) + Count(p, t)
  BY <1>3, Zenon
<1>9. <<Head(q)>> \in Seq(SenderType \cup WaiterType)
  BY <1>3, Unions, Zenon
<1>10. Wakes(c, <<Head(q)>>, Tail(q), p)
  BY <1>2, <1>3, <1>6, <1>7, <1>8, <1>9, Zenon DEF Wakes, WakesSender
<1> QED
  BY <1>10, WakesMove, ChannelStep, Zenon

LEMMA HandoffAccount ==
    ASSUME Typed, Typed', Account, NEW c \in ChannelHandles, sendHandoff(c)
    PROVE  Account'
<1> DEFINE q == channels[c].sendQ
           p == channels[c].recvQ
           r == Chan(channels[c].capacity, channels[c].buffer, q, Tail(p), channels[c].closed)
<1>0. /\ p # <<>> /\ wakeChannelWaiters(<<Head(p)>>) /\ stay /\ UNCHANGED channelVars
      /\ channels' = [channels EXCEPT ![c] = r]
  BY Zenon DEF sendHandoff
<1>1. ChannelFacts(c)
  BY ChannelKnown, Zenon
<1>2. q \in Seq(SenderType) /\ p \in Seq(WaiterType) /\ c \in ChannelIds
      /\ Len(q) \in Nat
  BY <1>1, Zenon DEF ChannelFacts
<1>3. /\ <<Head(p)>> \in Seq(WaiterType) /\ Tail(p) \in Seq(WaiterType)
      /\ Len(<<Head(p)>>) = 1 /\ Len(p) = Len(Tail(p)) + 1
      /\ Len(Tail(p)) \in Nat
      /\ \A t : Count(p, t) = Count(<<Head(p)>>, t) + Count(Tail(p), t)
  BY <1>0, <1>2, HeadTail, Zenon
<1>4. r \in ChannelType /\ r.sendQ = q /\ r.recvQ = Tail(p)
  <2>1. /\ channels[c].capacity \in 0..MaxCapacity /\ channels[c].buffer \in Seq(Values)
        /\ q \in Seq(SenderType) /\ Tail(p) \in Seq(WaiterType) /\ channels[c].closed \in BOOLEAN
    BY <1>1, <1>3, Zenon DEF ChannelFacts
  <2> HIDE DEF p, q
  <2> QED
    BY <2>1 DEF Chan, ChannelType
<1> HIDE DEF r
<1>6. OneChannel(c, channels, channels') /\ channels'[c].sendQ = q /\ channels'[c].recvQ = Tail(p)
  BY <1>0, <1>2, <1>4, ChannelExcept, Zenon
<1> DEFINE n == Len(q)
           k == Len(Tail(p))
           one == Len(<<Head(p)>>)
<1>7. Len(q) + Len(p) = Len(<<Head(p)>>) + Len(q) + Len(Tail(p))
  <2>1. n \in Nat /\ k \in Nat /\ one = 1 /\ Len(p) = k + 1
    BY <1>2, <1>3, Zenon
  <2> HIDE DEF n, k, one
  <2>2. n + (k + 1) = one + n + k
    BY <2>1
  <2> QED
    BY <2>1, <2>2, Zenon DEF n, k, one
<1>8. ASSUME NEW t \in Ids
      PROVE  Count(q, t) + Count(p, t) = Count(<<Head(p)>>, t) + Count(q, t) + Count(Tail(p), t)
  <2>1. Count(<<Head(p)>>, t) \in Nat /\ Count(Tail(p), t) \in Nat /\ Count(q, t) \in Nat
    BY <1>2, <1>3, CountNum, Zenon
  <2>2. Count(p, t) = Count(<<Head(p)>>, t) + Count(Tail(p), t)
    BY <1>3, Zenon
  <2> DEFINE x == Count(<<Head(p)>>, t)
             y == Count(Tail(p), t)
             z == Count(q, t)
  <2>3. x \in Nat /\ y \in Nat /\ z \in Nat /\ Count(p, t) = x + y
    BY <2>1, <2>2, Zenon
  <2> HIDE DEF x, y, z
  <2>4. z + (x + y) = x + z + y
    BY <2>3
  <2> QED
    BY <2>3, <2>4, Zenon DEF x, y, z
<1>9. <<Head(p)>> \in Seq(SenderType \cup WaiterType)
  BY <1>3, Unions, Zenon
<1>10. Wakes(c, <<Head(p)>>, q, Tail(p))
  BY <1>0, <1>2, <1>3, <1>6, <1>7, <1>8, <1>9, Zenon DEF Wakes
<1> QED
  BY <1>10, WakesMove, ChannelStep, Zenon

LEMMA CloseAccount ==
    ASSUME Typed, Typed', Account, NEW c \in ChannelHandles, channelClose(c)
    PROVE  Account'
<1> DEFINE q == channels[c].sendQ
           p == channels[c].recvQ
           ws == p \o q
           r == Chan(channels[c].capacity, channels[c].buffer, <<>>, <<>>, TRUE)
<1>0. /\ wakeChannelWaiters(ws) /\ stay /\ UNCHANGED channelVars
      /\ channels' = [channels EXCEPT ![c] = r]
  BY Zenon DEF channelClose
<1>1. ChannelFacts(c)
  BY ChannelKnown, Zenon
<1>2. q \in Seq(SenderType) /\ p \in Seq(WaiterType) /\ c \in ChannelIds
  BY <1>1, Zenon DEF ChannelFacts
<1>3. /\ <<>> \in Seq(SenderType) /\ <<>> \in Seq(WaiterType) /\ TRUE \in BOOLEAN
      /\ Len(<<>>) = 0
  OBVIOUS
<1>4. r \in ChannelType /\ r.sendQ = <<>> /\ r.recvQ = <<>>
  <2>1. channels[c].capacity \in 0..MaxCapacity /\ channels[c].buffer \in Seq(Values)
    BY <1>1, Zenon DEF ChannelFacts
  <2> QED
    BY <2>1 DEF Chan, ChannelType
<1> HIDE DEF r
<1>5. OneChannel(c, channels, channels') /\ channels'[c].sendQ = <<>> /\ channels'[c].recvQ = <<>>
  BY <1>0, <1>2, <1>4, ChannelExcept, Zenon
<1>6. q \in Seq(SenderType \cup WaiterType) /\ p \in Seq(SenderType \cup WaiterType)
  BY <1>2, Unions, Zenon
<1>7. /\ ws \in Seq(SenderType \cup WaiterType)
      /\ Len(q) + Len(p) = Len(ws) + 0 + 0
      /\ \A t : Count(q, t) + Count(p, t) = Count(ws, t) + 0 + 0
  <2>1. ws \in Seq(SenderType \cup WaiterType) /\ Len(q) + Len(p) = Len(ws) + 0 + 0
    BY <1>6, ConcatLength, Zenon
  <2>2. \A t : Count(ws, t) = Count(p, t) + Count(q, t)
    BY <1>6, CountConcat, Zenon
  <2>3. \A t : Count(p, t) \in Nat /\ Count(q, t) \in Nat
    BY <1>2, CountNum, Zenon
  <2> HIDE DEF ws, p, q
  <2> QED
    BY <2>1, <2>2, <2>3
<1>8. \A t : Count(<<>>, t) = 0
  BY CountEmpty, Zenon
<1>10. Wakes(c, ws, <<>>, <<>>)
  BY <1>0, <1>3, <1>5, <1>7, <1>8, Zenon DEF Wakes
<1> QED
  BY <1>10, WakesMove, ChannelStep, Zenon

LEMMA ReceiveWakesAccount ==
    ASSUME Typed, Typed', Account, NEW c \in ChannelHandles,
           recvRefill(c) \/ recvRendezvous(c)
    PROVE  Account'
<1>1. ChannelFacts(c)
  BY ChannelKnown, Zenon
<1>2. CASE recvRefill(c)
  <2> DEFINE b == Append(Tail(channels[c].buffer), Head(channels[c].sendQ).value)
  <2>1. /\ channels[c].sendQ # <<>> /\ channels[c].buffer # <<>>
        /\ channels[c].sendQ \in Seq(SenderType) /\ channels[c].buffer \in Seq(Values)
    BY <1>1, <1>2, Zenon DEF recvRefill, ChannelFacts
  <2>2. Head(channels[c].sendQ) \in SenderType /\ Tail(channels[c].buffer) \in Seq(Values)
    BY <2>1, HeadTail, Zenon
  <2>3. Head(channels[c].sendQ).value \in Values
    BY <2>2 DEF SenderType
  <2>4. b \in Seq(Values)
    BY <2>2, <2>3, AppendType, Zenon
  <2>5. WakesSender(c, b)
    BY <1>2, <2>1, <2>4, Zenon DEF recvRefill, WakesSender
  <2> HIDE DEF b
  <2> QED
    BY <2>5, WakesSenderAccount, Zenon
<1>3. CASE recvRendezvous(c)
  <2>1. WakesSender(c, channels[c].buffer)
    BY <1>1, <1>3, Zenon DEF recvRendezvous, WakesSender, ChannelFacts
  <2> QED
    BY <2>1, WakesSenderAccount, Zenon
<1> QED
  BY <1>2, <1>3

\* A send into, or a receive from, the buffer moves no stack.
LEMMA BufferedAccount ==
    ASSUME Typed, Typed', Account, NEW c \in ChannelHandles,
           sendBuffered(c) \/ recvBuffered(c)
    PROVE  Account'
<1> DEFINE q == channels[c].sendQ
           p == channels[c].recvQ
<1>1. ChannelFacts(c)
  BY ChannelKnown, Zenon
<1>2. q \in Seq(SenderType) /\ p \in Seq(WaiterType) /\ c \in ChannelIds
  BY <1>1, Zenon DEF ChannelFacts
<1>3. /\ micro' = micro /\ pumping' = pumping /\ exec' = exec /\ runnable' = runnable
      /\ blockedOnChannel' = blockedOnChannel /\ UNCHANGED channelVars
  BY StayType, Zenon DEF sendBuffered, recvBuffered
<1>4. PICK b : channels' = [channels EXCEPT ![c] =
                   Chan(channels[c].capacity, b, channels[c].sendQ, channels[c].recvQ, channels[c].closed)]
  BY Zenon DEF sendBuffered, recvBuffered
<1>5. OneChannel(c, channels, channels') /\ channels'[c].sendQ = q /\ channels'[c].recvQ = p
  <2>1. \A k \in ChannelIds : channels[k] \in ChannelType /\ channels'[k] \in ChannelType
    BY DEF Typed
  <2>2. channels'[c] = Chan(channels[c].capacity, b, q, p, channels[c].closed)
        /\ \A k \in ChannelIds : k # c => channels'[k] = channels[k]
    BY <1>2, <1>4 DEF Typed
  <2>3. channels'[c].sendQ = q /\ channels'[c].recvQ = p
    BY <2>2 DEF Chan
  <2> QED
    BY <1>2, <2>1, <2>2, <2>3, Zenon DEF OneChannel
<1>6. runnable' \in Seq(Entry) /\ Pumping' /\ Num(micro', HostJobs) = Num(micro, HostJobs)
  BY <1>3, Zenon DEF Account, Fresh, Pumping
<1>7. /\ \A t \in Ids :
            Thread(exec', t) + Count(micro', t) + Count(runnable', t) + Count(q, t) + Count(p, t) =
            Thread(exec, t) + Count(micro, t) + Count(runnable, t) + Count(q, t) + Count(p, t)
      /\ blockedOnChannel' + Len(q) + Len(p) = blockedOnChannel + Len(q) + Len(p)
  BY <1>3, Zenon
<1>8. ChannelMoves(c, q, p)
  BY <1>2, <1>3, <1>5, <1>6, <1>7, Zenon DEF ChannelMoves
<1> QED
  BY <1>8, ChannelStep, Zenon

\* A stack leaves the thread for a queue of a channel.
Joins(c, sq, rq) ==
    /\ OneChannel(c, channels, channels')
    /\ sq \in Seq(SenderType) /\ rq \in Seq(WaiterType)
    /\ channels'[c].sendQ = sq /\ channels'[c].recvQ = rq
    /\ \A t \in Ids : Count(sq, t) + Count(rq, t) =
          Count(channels[c].sendQ, t) + Count(channels[c].recvQ, t) + Thread(exec, t)
    /\ Len(sq) + Len(rq) = Len(channels[c].sendQ) + Len(channels[c].recvQ) + 1
    /\ blockedOnChannel' = blockedOnChannel + 1
    /\ exec \in Ids /\ exec' = None /\ runnable' = runnable
    /\ schedule(micro)
    /\ UNCHANGED channelVars

LEMMA Joined ==
    ASSUME NEW p \in Int, NEW d, NEW a \in Nat, NEW b \in Nat, NEW e \in Nat,
           NEW f \in Nat, d = p + 1, e + f = a + b + 1
    PROVE  d + a + b = p + e + f
OBVIOUS

LEMMA JoinsAccount ==
    ASSUME Typed, Typed', Account, NEW c \in ChannelHandles, NEW sq, NEW rq, Joins(c, sq, rq)
    PROVE  Account'
<1> DEFINE q == channels[c].sendQ
           p == channels[c].recvQ
<1>1. ChannelFacts(c)
  BY ChannelKnown, Zenon
<1>2. q \in Seq(SenderType) /\ p \in Seq(WaiterType) /\ Len(q) \in Nat /\ Len(p) \in Nat
  BY <1>1, Zenon DEF ChannelFacts
<1>3. sq \in Seq(SenderType) /\ rq \in Seq(WaiterType) /\ runnable' = runnable /\ schedule(micro)
      /\ exec \in Ids /\ exec' = None
  BY Zenon DEF Joins
<1>4. /\ \A t \in Ids : Count(micro', t) = Count(micro, t)
      /\ Num(micro', HostJobs) = Num(micro, HostJobs)
      /\ Pumping'
  BY <1>3, SuspendAccount, Zenon
<1>5. runnable' \in Seq(Entry)
  BY <1>3, Zenon DEF Account, Fresh
<1>6. ASSUME NEW t \in Ids
      PROVE  Thread(exec', t) + Count(micro', t) + Count(runnable', t) + Count(sq, t) + Count(rq, t) =
             Thread(exec, t) + Count(micro, t) + Count(runnable, t) + Count(q, t) + Count(p, t)
  <2> DEFINE x == Thread(exec, t)
             m == Count(micro, t)
             r == Count(runnable, t)
             a == Count(q, t)
             b == Count(p, t)
             e == Count(sq, t)
             f == Count(rq, t)
  <2>1. Thread(exec', t) = 0
    BY <1>3, LeavesThread, Zenon
  <2>2. Count(micro', t) = m /\ Count(runnable', t) = r
    BY <1>3, <1>4, Zenon
  <2>3. x \in Nat /\ m \in Nat /\ r \in Nat
    BY CountTypes, Zenon
  <2>4. a \in Nat /\ b \in Nat /\ e \in Nat /\ f \in Nat
    BY <1>2, <1>3, CountNum, Zenon
  <2>5. e + f = a + b + x
    BY Zenon DEF Joins
  <2> HIDE DEF x, m, r, a, b, e, f
  <2>6. 0 + m + r + e + f = x + m + r + a + b
    BY <2>3, <2>4, <2>5
  <2> QED
    BY <2>1, <2>2, <2>6, Zenon DEF x, m, r, a, b, e, f
<1>7. blockedOnChannel' + Len(q) + Len(p) = blockedOnChannel + Len(sq) + Len(rq)
  <2> DEFINE n1 == Len(q)
             n2 == Len(p)
             n3 == Len(sq)
             n4 == Len(rq)
  <2>1. n3 \in Nat /\ n4 \in Nat
    BY <1>3
  <2>2. n1 \in Nat /\ n2 \in Nat /\ n3 + n4 = n1 + n2 + 1 /\ blockedOnChannel' = blockedOnChannel + 1
    BY <1>2, Zenon DEF Joins
  <2>3. blockedOnChannel \in Int
    BY DEF Typed
  <2> HIDE DEF n1, n2, n3, n4
  <2>4. blockedOnChannel' + n1 + n2 = blockedOnChannel + n3 + n4
    BY <2>1, <2>2, <2>3, Joined
  <2> QED
    BY <2>4, Zenon DEF n1, n2, n3, n4
<1>8. ChannelMoves(c, sq, rq)
  BY <1>3, <1>4, <1>5, <1>6, <1>7, Zenon DEF ChannelMoves, Joins
<1> QED
  BY <1>8, ChannelStep, Zenon

LEMMA Longer ==
    ASSUME NEW T, NEW q \in Seq(T), NEW e \in T
    PROVE  Append(q, e) \in Seq(T) /\ Len(Append(q, e)) = Len(q) + 1
OBVIOUS

LEMMA SendParkedAccount ==
    ASSUME Typed, Typed', Account, NEW c \in ChannelHandles, sendParked(c)
    PROVE  Account'
<1> DEFINE q == channels[c].sendQ
           p == channels[c].recvQ
           w == Sender(ledger[c].sent + 1)
           sq == Append(q, w)
<1>1. ChannelFacts(c)
  BY ChannelKnown, Zenon
<1>2. q \in Seq(SenderType) /\ p \in Seq(WaiterType) /\ c \in ChannelIds
      /\ Len(q) \in Nat /\ Len(p) \in Nat
  BY <1>1, Zenon DEF ChannelFacts
<1>3. /\ guest /\ blockedOnChannel' = blockedOnChannel + 1 /\ exec' = None /\ runnable' = runnable
      /\ schedule(micro) /\ UNCHANGED channelVars
      /\ channels' = [channels EXCEPT ![c] =
            Chan(channels[c].capacity, channels[c].buffer, sq, p, channels[c].closed)]
  BY Zenon DEF sendParked, canSend, suspend
<1>4. exec \in Ids /\ current \in Ids
  BY <1>3, CallerFacts DEF Typed
<1>5. w \in SenderType /\ w.who = exec
  <2>1. ledger[c].sent + 1 \in Values
    <3>1. ledger[c] \in LedgerType
      BY <1>2 DEF Typed
    <3>2. ledger[c].sent \in 0..MaxSends
      BY <3>1 DEF LedgerType
    <3>3. ledger[c].sent < MaxSends
      BY Zenon DEF sendParked, canSend
    <3> DEFINE n == ledger[c].sent
    <3> HIDE DEF n
    <3>4. n \in 0..MaxSends /\ n < MaxSends => n + 1 \in Values
      BY BoundsAssumption DEF Values
    <3> QED
      BY <3>2, <3>3, <3>4 DEF n
  <2> QED
    BY <1>4, <2>1 DEF Sender, SenderType
<1> HIDE DEF w
<1>6. sq \in Seq(SenderType) /\ Len(sq) = Len(q) + 1
  BY <1>2, <1>5, Longer, Zenon
<1>7. \A t : Count(sq, t) = Count(q, t) + Own(w, t)
  BY <1>2, <1>5, CountAppend
<1> HIDE DEF sq
<1>8. OneChannel(c, channels, channels') /\ channels'[c].sendQ = sq /\ channels'[c].recvQ = p
  <2>1. /\ channels'[c] = Chan(channels[c].capacity, channels[c].buffer, sq, p, channels[c].closed)
        /\ \A k \in ChannelIds : k # c => channels'[k] = channels[k]
    BY <1>2, <1>3 DEF Typed
  <2>2. channels'[c].sendQ = sq /\ channels'[c].recvQ = p
    BY <2>1 DEF Chan
  <2>3. \A k \in ChannelIds : channels[k] \in ChannelType /\ channels'[k] \in ChannelType
    BY DEF Typed
  <2> QED
    BY <1>2, <2>1, <2>2, <2>3, Zenon DEF OneChannel
<1>9. ASSUME NEW t \in Ids
      PROVE  Count(sq, t) + Count(p, t) = Count(q, t) + Count(p, t) + Thread(exec, t)
  <2>1. Own(w, t) = Thread(exec, t)
    BY <1>3, <1>4, <1>5, LeavesThread, Zenon
  <2> DEFINE a == Count(q, t)
             b == Count(p, t)
             x == Thread(exec, t)
  <2>2. a \in Nat /\ b \in Nat /\ x \in Nat
    BY <1>2, CountNum, CountTypes, Zenon
  <2>3. Count(sq, t) = a + x
    BY <1>7, <2>1, Zenon
  <2> HIDE DEF a, b, x
  <2>4. a + x + b = a + b + x
    BY <2>2
  <2> QED
    BY <2>3, <2>4, Zenon DEF a, b, x
<1>10. Len(sq) + Len(p) = Len(q) + Len(p) + 1
  <2> DEFINE a == Len(q)
             b == Len(p)
  <2>1. a \in Nat /\ b \in Nat /\ Len(sq) = a + 1
    BY <1>2, <1>6, Zenon
  <2> HIDE DEF a, b
  <2>2. a + 1 + b = a + b + 1
    BY <2>1
  <2> QED
    BY <2>1, <2>2, Zenon DEF a, b
<1>11. Joins(c, sq, p)
  BY <1>2, <1>3, <1>4, <1>6, <1>8, <1>9, <1>10, Zenon DEF Joins
<1> QED
  BY <1>11, JoinsAccount, Zenon

LEMMA RecvParkedAccount ==
    ASSUME Typed, Typed', Account, NEW c \in ChannelHandles, recvParked(c)
    PROVE  Account'
<1> DEFINE q == channels[c].sendQ
           p == channels[c].recvQ
           rq == Append(p, Caller)
<1>1. ChannelFacts(c)
  BY ChannelKnown, Zenon
<1>2. q \in Seq(SenderType) /\ p \in Seq(WaiterType) /\ c \in ChannelIds
      /\ Len(q) \in Nat /\ Len(p) \in Nat
  BY <1>1, Zenon DEF ChannelFacts
<1>3. /\ guest /\ blockedOnChannel' = blockedOnChannel + 1 /\ exec' = None /\ runnable' = runnable
      /\ schedule(micro) /\ UNCHANGED channelVars
      /\ channels' = [channels EXCEPT ![c] =
            Chan(channels[c].capacity, channels[c].buffer, q, rq, channels[c].closed)]
  BY Zenon DEF recvParked, suspend
<1>4. exec \in Ids /\ Caller \in WaiterType /\ Caller.who = exec
  BY <1>3, CallerFacts, Zenon
<1>6. rq \in Seq(WaiterType) /\ Len(rq) = Len(p) + 1
  BY <1>2, <1>4, Longer, Zenon
<1>7. \A t : Count(rq, t) = Count(p, t) + Own(Caller, t)
  BY <1>2, <1>4, CountAppend
<1> HIDE DEF rq
<1>8. OneChannel(c, channels, channels') /\ channels'[c].sendQ = q /\ channels'[c].recvQ = rq
  <2>1. /\ channels'[c] = Chan(channels[c].capacity, channels[c].buffer, q, rq, channels[c].closed)
        /\ \A k \in ChannelIds : k # c => channels'[k] = channels[k]
    BY <1>2, <1>3 DEF Typed
  <2>2. channels'[c].sendQ = q /\ channels'[c].recvQ = rq
    BY <2>1 DEF Chan
  <2>3. \A k \in ChannelIds : channels[k] \in ChannelType /\ channels'[k] \in ChannelType
    BY DEF Typed
  <2> QED
    BY <1>2, <2>1, <2>2, <2>3, Zenon DEF OneChannel
<1>9. ASSUME NEW t \in Ids
      PROVE  Count(q, t) + Count(rq, t) = Count(q, t) + Count(p, t) + Thread(exec, t)
  <2>1. Own(Caller, t) = Thread(exec, t)
    BY <1>3, <1>4, LeavesThread, Zenon
  <2> DEFINE a == Count(q, t)
             b == Count(p, t)
             x == Thread(exec, t)
  <2>2. a \in Nat /\ b \in Nat /\ x \in Nat
    BY <1>2, CountNum, CountTypes, Zenon
  <2>3. Count(rq, t) = b + x
    BY <1>7, <2>1, Zenon
  <2> HIDE DEF a, b, x
  <2>4. a + (b + x) = a + b + x
    BY <2>2
  <2> QED
    BY <2>3, <2>4, Zenon DEF a, b, x
<1>10. Len(q) + Len(rq) = Len(q) + Len(p) + 1
  <2> DEFINE a == Len(q)
             b == Len(p)
  <2>1. a \in Nat /\ b \in Nat /\ Len(rq) = b + 1
    BY <1>2, <1>6, Zenon
  <2> HIDE DEF a, b
  <2>2. a + (b + 1) = a + b + 1
    BY <2>1
  <2> QED
    BY <2>1, <2>2, Zenon DEF a, b
<1>11. Joins(c, q, rq)
  BY <1>2, <1>3, <1>4, <1>6, <1>8, <1>9, <1>10, Zenon DEF Joins
<1> QED
  BY <1>11, JoinsAccount, Zenon

\* A new channel takes the place of an empty one that no stack waits on.
LEMMA NewChannelAccount ==
    ASSUME Typed, Typed', Account, NEW cap \in 0..MaxCapacity, channelNew(cap)
    PROVE  Account'
<1> DEFINE c == nextChannelId
<1>1. c \in ChannelIds /\ c \in Int
  BY BoundsAssumption DEF channelNew, Typed, ChannelIds
<1>2. channels[c].sendQ = <<>> /\ channels[c].recvQ = <<>>
  BY <1>1 DEF Account, Fresh, ChannelIds
<1>3. /\ micro' = micro /\ pumping' = pumping /\ exec' = exec /\ runnable' = runnable
      /\ blockedOnChannel' = blockedOnChannel /\ nextChannelId' = c + 1
      /\ channels' = [channels EXCEPT ![c] = EmptyChannel(cap)]
      /\ timers' = timers /\ hosts' = hosts /\ pendingHost' = pendingHost
      /\ nextId' = nextId /\ state' = state /\ waiters' = waiters /\ blockedOnTask' = blockedOnTask
  BY StayType, Zenon DEF channelNew, taskVars, hostVars
<1>4. /\ OneChannel(c, channels, channels') /\ channels'[c].sendQ = <<>> /\ channels'[c].recvQ = <<>>
  <2>1. /\ channels'[c] = EmptyChannel(cap)
        /\ \A k \in ChannelIds : k # c => channels'[k] = channels[k]
    BY <1>1, <1>3 DEF Typed
  <2>2. channels'[c].sendQ = <<>> /\ channels'[c].recvQ = <<>>
    BY <2>1 DEF EmptyChannel, Chan
  <2>3. \A k \in ChannelIds : channels[k] \in ChannelType /\ channels'[k] \in ChannelType
    BY DEF Typed
  <2> QED
    BY <1>1, <2>1, <2>2, <2>3, Zenon DEF OneChannel
<1>5. SendQs(channels') = SendQs(channels) /\ RecvQs(channels') = RecvQs(channels)
      /\ ParkedQs(channels') = ParkedQs(channels)
  <2>1. \A k \in ChannelIds : /\ channels'[k].sendQ = channels[k].sendQ
                              /\ channels'[k].recvQ = channels[k].recvQ
    BY <1>2, <1>4, Zenon DEF OneChannel
  <2> QED
    BY <2>1, Zenon DEF SendQs, RecvQs, ParkedQs
<1>6. Parked(channels') = Parked(channels)
      /\ \A t : Sends(channels', t) = Sends(channels, t) /\ Recvs(channels', t) = Recvs(channels, t)
  BY <1>5, Zenon DEF Parked, Sends, Recvs
<1>7. EachOnce' /\ Counted' /\ Pumping'
  BY <1>3, <1>6, Zenon DEF Account, EachOnce, Counted, Pumping, Sum
<1>8. Fresh'
  <2>1. \A d \in ChannelIds : d >= nextChannelId' => channels'[d] = channels[d] /\ d >= c
    BY <1>1, <1>3, <1>4 DEF OneChannel, ChannelIds
  <2> QED
    BY <1>3, <2>1, Zenon DEF Account, Fresh
<1> QED
  BY <1>7, <1>8, Zenon DEF Account

\* The host's kick moves no stack.
LEMMA KickAccount ==
    ASSUME Typed, Account, kick
    PROVE  Account'
<1>1. /\ runnable' = runnable /\ exec' = exec /\ timers' = timers /\ hosts' = hosts
      /\ nextId' = nextId /\ state' = state /\ waiters' = waiters
      /\ channels' = channels /\ nextChannelId' = nextChannelId
      /\ blockedOnTask' = blockedOnTask /\ blockedOnChannel' = blockedOnChannel
      /\ pendingHost' = pendingHost /\ schedule(micro)
  BY Zenon DEF kick, taskVars, chanVars, hostVars
<1>2. /\ \A t \in Ids : Count(micro', t) = Count(micro, t)
      /\ Num(micro', HostJobs) = Num(micro, HostJobs)
      /\ Pumping'
  BY <1>1, SuspendAccount, Zenon
<1>3. \A t \in Ids : Sum(t)' = Sum(t)
  BY <1>1, <1>2, Zenon DEF Sum
<1>4. Counted' /\ runnable' \in Seq(Entry)
  BY <1>1, <1>2, Zenon DEF Account, Counted, Fresh
<1> QED
  BY <1>1, <1>2, <1>3, <1>4, AccountStep, Zenon

-----------------------------------------------------------------------------
(* The microtasks.                                                         *)

LEMMA OffThread ==
    ASSUME exec = None, NEW t \in Ids
    PROVE  Thread(exec, t) = 0
<1>1. None # t
  BY DEF None, Ids
<1> QED
  BY <1>1 DEF Thread

\* runOne is queued only when there is work, and once.
LEMMA TakesPump ==
    ASSUME Typed, Account, take("runOne")
    PROVE  /\ exec = None /\ runnable # <<>>
           /\ Tail(micro) \in Seq(JobType)
           /\ Num(Tail(micro), Pump) = 0
           /\ Num(Tail(micro), HostJobs) = Num(micro, HostJobs)
           /\ \A t \in Ids : Count(Tail(micro), t) = Count(micro, t)
<1>1. exec = None /\ micro # <<>> /\ Head(micro).job = "runOne"
  BY DEF take
<1>2. /\ Tail(micro) \in Seq(JobType)
      /\ Num(Tail(micro), Pump) = Num(micro, Pump) - 1
      /\ Num(Tail(micro), HostJobs) = Num(micro, HostJobs)
      /\ \A t \in Ids : Own(Head(micro), t) = 0
      /\ \A t \in Ids : Count(Tail(micro), t) = Count(micro, t) - Own(Head(micro), t)
  BY <1>1, TakeJob, Zenon
<1>3. Num(Tail(micro), Pump) \in Nat
  BY <1>2, PosFinite, Zenon
<1>4. Num(micro, Pump) \in Nat
  BY PosFinite, Zenon DEF Typed
<1>5. pumping = TRUE
  <2>1. Num(micro, Pump) # 0
    BY <1>2, <1>3, <1>4
  <2>2. pumping \in BOOLEAN
    BY DEF Typed
  <2> QED
    BY <2>1, <2>2, Zenon DEF Account, Pumping
<1>6. Num(micro, Pump) = 1 /\ runnable # <<>>
  BY <1>5, Zenon DEF Account, Pumping
<1>7. Num(Tail(micro), Pump) = 0
  BY <1>2, <1>6
<1>8. ASSUME NEW t \in Ids PROVE Count(Tail(micro), t) = Count(micro, t)
  <2>1. Count(Tail(micro), t) = Count(micro, t) - 0
    BY <1>2, Zenon
  <2>2. Count(micro, t) \in Nat
    BY CountTypes, Zenon
  <2> QED
    BY <2>1, <2>2
<1> QED
  BY <1>1, <1>2, <1>6, <1>7, <1>8, Zenon

LEMMA TakesEntry ==
    ASSUME Typed, Account, runnable # <<>>
    PROVE  /\ Head(runnable) \in Entry /\ Tail(runnable) \in Seq(Entry)
           /\ Head(runnable) \in EntryType
           /\ \A t \in Ids : Count(runnable, t) = Count(Tail(runnable), t) + Own(Head(runnable), t)
           /\ \A t \in Ids : Count(Tail(runnable), t) \in Nat
<1>1. runnable \in Seq(Entry)
  BY DEF Account, Fresh
<1>2. Head(runnable) \in Entry /\ Tail(runnable) \in Seq(Entry)
  BY <1>1, HeadTail, Zenon
<1>3. \A t \in Ids : Count(Tail(runnable), t) = Count(runnable, t) - Own(Head(runnable), t)
  BY <1>1, CountTail
<1>4. \A t \in Ids : Count(Tail(runnable), t) \in Nat /\ Count(runnable, t) \in Nat
  BY <1>1, <1>2, CountNum, Zenon
<1>5. \A t \in Ids : Count(runnable, t) = Count(Tail(runnable), t) + Own(Head(runnable), t)
  BY <1>3, <1>4, OwnNat
<1>6. Head(runnable) \in EntryType
  BY <1>2, Zenon DEF Entry
<1> QED
  BY <1>2, <1>4, <1>5, <1>6, Zenon

LEMMA StartAccount ==
    ASSUME Typed, Account, runStart
    PROVE  Account'
<1> DEFINE e == Head(runnable)
           u == e.who
<1>1. /\ exec = None /\ runnable # <<>> /\ Num(Tail(micro), Pump) = 0
      /\ Num(Tail(micro), HostJobs) = Num(micro, HostJobs)
      /\ \A t \in Ids : Count(Tail(micro), t) = Count(micro, t)
  BY TakesPump, Zenon DEF runStart
<1>2. /\ e \in Entry /\ Tail(runnable) \in Seq(Entry) /\ e \in EntryType
      /\ \A t \in Ids : Count(runnable, t) = Count(Tail(runnable), t) + Own(e, t)
      /\ \A t \in Ids : Count(Tail(runnable), t) \in Nat
  BY <1>1, TakesEntry, Zenon
<1>3. e.kind = "start" /\ e.id = e.who
  BY <1>2, Zenon DEF runStart, Entry
<1>4. u \in Ids
  BY <1>2 DEF EntryType
<1>5. /\ runnable' = Tail(runnable) /\ micro' = Tail(micro) /\ pumping' = FALSE
      /\ exec' = u /\ state' = [state EXCEPT ![u] = "running"]
      /\ timers' = timers /\ hosts' = hosts /\ pendingHost' = pendingHost
      /\ nextId' = nextId /\ waiters' = waiters /\ blockedOnTask' = blockedOnTask
      /\ channels' = channels /\ nextChannelId' = nextChannelId
      /\ blockedOnChannel' = blockedOnChannel
  BY <1>3, Zenon DEF runStart, chanVars, hostVars
<1>6. /\ state'[u] = "running" /\ \A t \in Ids : t # u => state'[t] = state[t]
  BY <1>4, <1>5 DEF Typed
<1>7. ASSUME NEW t \in Ids PROVE Sum(t)' = Sum(t)
  <2>1. Thread(exec, t) = 0 /\ Thread(exec', t) = Own(e, t)
    <3>1. Thread(exec, t) = 0
      BY <1>1, OffThread, Zenon
    <3>2. Thread(exec', t) = Own(e, t)
      BY <1>5 DEF Thread, Own
    <3> QED
      BY <3>1, <3>2
  <2>2. Count(runnable, t) = Count(runnable', t) + Own(e, t) /\ Count(micro', t) = Count(micro, t)
        /\ Count(runnable', t) \in Nat
    BY <1>1, <1>2, <1>5, Zenon
  <2>3. Own(e, t) \in Nat
    BY OwnNat
  <2> HIDE DEF e
  <2> QED
    BY <1>5, <2>1, <2>2, <2>3, CountTypes DEF Sum
<1>8. Live(state[u]) = 1
  <2>1. Own(e, u) = 1
    BY DEF Own
  <2>2. Count(runnable, u) = Count(Tail(runnable), u) + Own(e, u) /\ Count(Tail(runnable), u) \in Nat
    BY <1>2, <1>4, Zenon
  <2>3. Sum(u) = Live(state[u]) /\ Live(state[u]) \in {0, 1}
    BY <1>4 DEF Account, EachOnce, Live
  <2> HIDE DEF e, u
  <2>4. Count(runnable, u) >= 1
    BY <2>1, <2>2
  <2>5. Sum(u) >= 1
    BY <1>4, <2>4, CountTypes DEF Sum
  <2> QED
    BY <2>3, <2>5
<1>9. \A t \in Ids : Live(state'[t]) = Live(state[t])
  <2>1. Live("running") = 1
    BY DEF Live
  <2> QED
    BY <1>6, <1>8, <2>1, Zenon
<1>10. EachOnce'
  BY <1>7, <1>9, Zenon DEF Account, EachOnce
<1>11. Counted'
  BY <1>1, <1>5, Zenon DEF Account, Counted
<1>12. Pumping'
  BY <1>1, <1>5, Zenon DEF Pumping
<1>13. Fresh'
  <2>1. state[u] # "absent"
    BY <1>8 DEF Live
  <2>2. \A t \in Ids : t >= nextId' => state'[t] = "absent"
    BY <1>4, <1>5, <1>6, <2>1, Zenon DEF Account, Fresh
  <2> QED
    BY <1>2, <1>5, <2>2, Zenon DEF Account, Fresh
<1> QED
  BY <1>10, <1>11, <1>12, <1>13, Zenon DEF Account

LEMMA ResumeAccount ==
    ASSUME Typed, Account, runResume
    PROVE  Account'
<1> DEFINE e == Head(runnable)
           j == ContJob(e.who, e.hops, e.throws)
<1>1. /\ exec = None /\ runnable # <<>> /\ Num(Tail(micro), Pump) = 0
      /\ Num(Tail(micro), HostJobs) = Num(micro, HostJobs)
      /\ \A t \in Ids : Count(Tail(micro), t) = Count(micro, t)
      /\ Tail(micro) \in Seq(JobType)
  BY TakesPump, Zenon DEF runResume
<1>2. /\ e \in Entry /\ Tail(runnable) \in Seq(Entry) /\ e \in EntryType
      /\ \A t \in Ids : Count(runnable, t) = Count(Tail(runnable), t) + Own(e, t)
      /\ \A t \in Ids : Count(Tail(runnable), t) \in Nat
  BY <1>1, TakesEntry, Zenon
<1>3. j \in StackJobType /\ j.who = e.who /\ j.job # "host"
  BY <1>2 DEF EntryType, ContJob, Job, StackJobType, AsyncHops, HostHops
<1>5. /\ runnable' = Tail(runnable) /\ micro' = Append(Tail(micro), j) /\ pumping' = FALSE
      /\ exec' = exec /\ state' = state
      /\ timers' = timers /\ hosts' = hosts /\ pendingHost' = pendingHost
      /\ nextId' = nextId /\ waiters' = waiters /\ blockedOnTask' = blockedOnTask
      /\ channels' = channels /\ nextChannelId' = nextChannelId
      /\ blockedOnChannel' = blockedOnChannel
  BY Zenon DEF runResume, taskVars, chanVars, hostVars
<1> HIDE DEF j
<1>6. /\ \A t \in Ids : Count(micro', t) = Count(Tail(micro), t) + Own(j, t)
      /\ Num(micro', Pump) = Num(Tail(micro), Pump)
      /\ Num(micro', HostJobs) = Num(Tail(micro), HostJobs)
  BY <1>1, <1>3, <1>5, QueueJob, Zenon
<1>7. ASSUME NEW t \in Ids PROVE Sum(t)' = Sum(t)
  <2>1. Own(j, t) = Own(e, t)
    BY <1>3, Zenon DEF Own
  <2>2. /\ Count(runnable, t) = Count(runnable', t) + Own(e, t)
        /\ Count(micro', t) = Count(micro, t) + Own(e, t)
        /\ Count(runnable', t) \in Nat
    BY <1>1, <1>2, <1>5, <1>6, <2>1, Zenon
  <2>3. Own(e, t) \in Nat
    BY OwnNat
  <2> HIDE DEF e
  <2> QED
    BY <1>5, <2>2, <2>3, CountTypes DEF Sum
<1>8. Counted' /\ Pumping' /\ runnable' \in Seq(Entry)
  BY <1>1, <1>2, <1>5, <1>6, Zenon DEF Account, Counted, Pumping
<1> QED
  BY <1>5, <1>7, <1>8, AccountStep, Zenon

\* A job of a stack is taken: its place in the microtask queue is free.
LEMMA TakesStack ==
    ASSUME Typed, Account, NEW k \in {"cont", "settle", "host"}, take(k)
    PROVE  /\ exec = None /\ micro # <<>> /\ Head(micro).job = k
           /\ Head(micro) \in StackJobType /\ Head(micro).who \in Ids
           /\ Tail(micro) \in Seq(JobType)
           /\ Num(Tail(micro), Pump) = Num(micro, Pump)
           /\ k = "host" => Num(Tail(micro), HostJobs) = Num(micro, HostJobs) - 1
           /\ k # "host" => Num(Tail(micro), HostJobs) = Num(micro, HostJobs)
           /\ \A t \in Ids : Count(micro, t) = Count(Tail(micro), t) + Own(Head(micro), t)
           /\ \A t \in Ids : Count(Tail(micro), t) \in Nat
<1>1. exec = None /\ micro # <<>> /\ Head(micro).job = k /\ k # "runOne"
  BY DEF take
<1>2. /\ Tail(micro) \in Seq(JobType)
      /\ Head(micro) \in StackJobType
      /\ Num(Tail(micro), Pump) = Num(micro, Pump)
      /\ k = "host" => Num(Tail(micro), HostJobs) = Num(micro, HostJobs) - 1
      /\ k # "host" => Num(Tail(micro), HostJobs) = Num(micro, HostJobs)
      /\ \A t \in Ids : Count(Tail(micro), t) = Count(micro, t) - Own(Head(micro), t)
  BY <1>1, TakeJob, Zenon
<1>3. Head(micro).who \in Ids
  BY <1>2 DEF StackJobType
<1>4. \A t \in Ids : Count(Tail(micro), t) \in Nat /\ Count(micro, t) \in Nat
  BY <1>2, CountNum, CountTypes, Zenon
<1>5. \A t \in Ids : Count(micro, t) = Count(Tail(micro), t) + Own(Head(micro), t)
  BY <1>2, <1>4, OwnNat
<1> QED
  BY <1>1, <1>2, <1>3, <1>4, <1>5, Zenon

\* The job of a stack is followed by another job of the same stack.
LEMMA RequeueAccount ==
    ASSUME Typed, Account, NEW k \in {"cont", "settle", "host"}, take(k),
           NEW j \in StackJobType, j.who = Head(micro).who, j.job = "host" <=> k = "host",
           micro' = Append(Tail(micro), j), UNCHANGED <<promiseVars, exec>>
    PROVE  Account'
<1>1. /\ Tail(micro) \in Seq(JobType)
      /\ Num(Tail(micro), Pump) = Num(micro, Pump)
      /\ k = "host" => Num(Tail(micro), HostJobs) = Num(micro, HostJobs) - 1
      /\ k # "host" => Num(Tail(micro), HostJobs) = Num(micro, HostJobs)
      /\ \A t \in Ids : Count(micro, t) = Count(Tail(micro), t) + Own(Head(micro), t)
  BY TakesStack, Zenon
<1>2. /\ runnable' = runnable /\ pumping' = pumping
      /\ exec' = exec /\ state' = state
      /\ timers' = timers /\ hosts' = hosts /\ pendingHost' = pendingHost
      /\ nextId' = nextId /\ waiters' = waiters /\ blockedOnTask' = blockedOnTask
      /\ channels' = channels /\ nextChannelId' = nextChannelId
      /\ blockedOnChannel' = blockedOnChannel
  BY Zenon DEF promiseVars, taskVars, chanVars, hostVars
<1>3. /\ \A t \in Ids : Count(micro', t) = Count(Tail(micro), t) + Own(j, t)
      /\ Num(micro', Pump) = Num(Tail(micro), Pump)
      /\ k # "host" => Num(micro', HostJobs) = Num(Tail(micro), HostJobs)
      /\ k = "host" => Num(micro', HostJobs) = Num(Tail(micro), HostJobs) + 1
  BY <1>1, QueueJob, Zenon
<1>4. \A t \in Ids : Count(micro', t) = Count(micro, t)
  <2>1. \A t \in Ids : Own(j, t) = Own(Head(micro), t)
    BY Zenon DEF Own
  <2> QED
    BY <1>1, <1>3, <2>1, Zenon
<1>5. Num(micro', HostJobs) = Num(micro, HostJobs) /\ Num(micro', Pump) = Num(micro, Pump)
  <2>1. Num(micro, HostJobs) \in Nat
    BY PosFinite, Zenon DEF Typed
  <2>2. Num(micro', HostJobs) = Num(micro, HostJobs)
    <3>1. CASE k = "host"
      <4>1. /\ Num(Tail(micro), HostJobs) = Num(micro, HostJobs) - 1
            /\ Num(micro', HostJobs) = Num(Tail(micro), HostJobs) + 1
        BY <1>1, <1>3, <3>1, Zenon
      <4> QED
        BY <2>1, <4>1
    <3>2. CASE k # "host"
      BY <1>1, <1>3, <3>2, Zenon
    <3> QED
      BY <3>1, <3>2, Zenon
  <2> QED
    BY <1>1, <1>3, <2>2, Zenon
<1>6. \A t \in Ids : Sum(t)' = Sum(t)
  BY <1>2, <1>4, Zenon DEF Sum
<1>7. Counted' /\ Pumping' /\ runnable' \in Seq(Entry)
  BY <1>2, <1>5, Zenon DEF Account, Counted, Pumping, Fresh
<1> QED
  BY <1>2, <1>6, <1>7, AccountStep, Zenon

LEMMA HopAccount ==
    ASSUME Typed, Account, hop
    PROVE  Account'
<1> DEFINE h == Head(micro)
           j == [h EXCEPT !.hops = @ - 1]
<1>1. PICK k \in {"cont", "settle", "host"} : take(k)
  BY DEF hop
<1>2. h.job = k /\ h \in StackJobType
  BY <1>1, TakesStack, Zenon
<1>3. h.hops > 1
  BY DEF hop
<1> HIDE DEF h
<1>4. j \in StackJobType /\ j.who = h.who /\ j.job = h.job
  BY <1>2, <1>3 DEF StackJobType, HostHops
<1>5. micro' = Append(Tail(micro), j) /\ UNCHANGED <<promiseVars, exec>>
  BY Zenon DEF hop, h
<1> HIDE DEF j
<1>6. j.job = "host" <=> k = "host"
  BY <1>2, <1>4
<1>7. j.who = Head(micro).who
  BY <1>4, Zenon DEF h
<1> QED
  BY <1>1, <1>4, <1>5, <1>6, <1>7, RequeueAccount, Zenon

LEMMA UnwindAccount ==
    ASSUME Typed, Account, unwindStack
    PROVE  Account'
<1> DEFINE j == SettleJob(Head(micro).who, TRUE)
<1>1. take("cont") /\ "cont" \in {"cont", "settle", "host"}
  BY DEF unwindStack
<1>2. Head(micro).who \in Ids
  BY <1>1, TakesStack, Zenon
<1>4. j \in StackJobType /\ j.who = Head(micro).who /\ j.job = "settle"
  BY <1>2 DEF SettleJob, Job, StackJobType, HostHops
<1>5. micro' = Append(Tail(micro), j) /\ UNCHANGED <<promiseVars, exec>>
  BY Zenon DEF unwindStack
<1> HIDE DEF j
<1>6. j.job = "host" <=> "cont" = "host"
  BY <1>4
<1> QED
  BY <1>1, <1>4, <1>5, <1>6, RequeueAccount, Zenon

LEMMA ContinueAccount ==
    ASSUME Typed, Account, continueStack
    PROVE  Account'
<1>0. take("cont") /\ "cont" \in {"cont", "settle", "host"} /\ "cont" # "host"
  BY DEF continueStack
<1>1. /\ exec = None
      /\ Num(Tail(micro), Pump) = Num(micro, Pump)
      /\ Num(Tail(micro), HostJobs) = Num(micro, HostJobs)
      /\ \A t \in Ids : Count(micro, t) = Count(Tail(micro), t) + Own(Head(micro), t)
      /\ \A t \in Ids : Count(Tail(micro), t) \in Nat
  BY <1>0, TakesStack, Zenon
<1>2. /\ runnable' = runnable /\ pumping' = pumping
      /\ exec' = Head(micro).who /\ micro' = Tail(micro) /\ state' = state
      /\ timers' = timers /\ hosts' = hosts /\ pendingHost' = pendingHost
      /\ nextId' = nextId /\ waiters' = waiters /\ blockedOnTask' = blockedOnTask
      /\ channels' = channels /\ nextChannelId' = nextChannelId
      /\ blockedOnChannel' = blockedOnChannel
  BY Zenon DEF continueStack, promiseVars, taskVars, chanVars, hostVars
<1>3. ASSUME NEW t \in Ids PROVE Sum(t)' = Sum(t)
  <2> DEFINE h == Head(micro)
  <2>1. Thread(exec, t) = 0
    BY <1>1, OffThread, Zenon
  <2>2. Thread(exec', t) = Own(h, t)
    BY <1>2 DEF Thread, Own
  <2>3. Count(micro, t) = Count(micro', t) + Own(h, t) /\ Count(micro', t) \in Nat
    BY <1>1, <1>2, Zenon
  <2>4. Own(h, t) \in Nat
    BY OwnNat
  <2> HIDE DEF h
  <2> QED
    BY <1>2, <2>1, <2>2, <2>3, <2>4, CountTypes DEF Sum
<1>4. Counted' /\ Pumping' /\ runnable' \in Seq(Entry)
  BY <1>1, <1>2, Zenon DEF Account, Counted, Pumping, Fresh
<1> QED
  BY <1>2, <1>3, <1>4, AccountStep, Zenon

\* A stack that is in the microtask queue is in no other place: when its
\* promise settles, nothing is left of it.
Settles(u, s) ==
    /\ state' = [state EXCEPT ![u] = s] /\ s \in {"done", "failed"}
    /\ exec' = exec /\ nextId' = nextId
    /\ timers' = timers /\ hosts' = hosts /\ pendingHost' = pendingHost
    /\ channels' = channels /\ nextChannelId' = nextChannelId
    /\ blockedOnChannel' = blockedOnChannel
    /\ runnable' \in Seq(Entry) /\ Pumping'
    /\ blockedOnTask' = Awaiting(waiters')
    /\ Num(micro', HostJobs) = Num(micro, HostJobs)
    /\ \A t \in Ids : Count(micro', t) = Count(Tail(micro), t)
    /\ \A t \in Ids : Waits(waiters', t) + Count(runnable', t) =
                         Waits(waiters, t) + Count(runnable, t)

LEMMA SettlesAccount ==
    ASSUME Typed, Typed', Account, take("settle"), NEW s, Settles(Head(micro).who, s)
    PROVE  Account'
<1> DEFINE h == Head(micro)
           u == h.who
<1>0. "settle" \in {"cont", "settle", "host"} /\ "settle" # "host"
  OBVIOUS
<1>1. /\ u \in Ids
      /\ \A t \in Ids : Count(micro, t) = Count(Tail(micro), t) + Own(h, t)
      /\ \A t \in Ids : Count(Tail(micro), t) \in Nat
  BY <1>0, TakesStack, Zenon
<1>2. /\ state' = [state EXCEPT ![u] = s] /\ s \in {"done", "failed"}
      /\ exec' = exec /\ nextId' = nextId
      /\ timers' = timers /\ hosts' = hosts /\ pendingHost' = pendingHost
      /\ channels' = channels /\ nextChannelId' = nextChannelId
      /\ blockedOnChannel' = blockedOnChannel
      /\ runnable' \in Seq(Entry) /\ Pumping'
      /\ blockedOnTask' = Awaiting(waiters')
      /\ Num(micro', HostJobs) = Num(micro, HostJobs)
  BY Zenon DEF Settles
<1>3. \A t \in Ids : Count(micro', t) = Count(Tail(micro), t)
  BY Zenon DEF Settles
<1>4. \A t \in Ids : Waits(waiters', t) + Count(runnable', t) = Waits(waiters, t) + Count(runnable, t)
  BY Zenon DEF Settles
<1>5. state'[u] = s /\ \A t \in Ids : t # u => state'[t] = state[t]
  BY <1>1, <1>2 DEF Typed
<1>6. ASSUME NEW t \in Ids PROVE Sum(t) = Sum(t)' + Own(h, t) /\ Sum(t)' \in Nat
  <2>1. Count(micro, t) = Count(micro', t) + Own(h, t) /\ Count(micro', t) \in Nat
    BY <1>1, <1>3, Zenon
  <2>2. Waits(waiters', t) + Count(runnable', t) = Waits(waiters, t) + Count(runnable, t)
    BY <1>4, Zenon
  <2>3. Waits(waiters', t) \in Nat /\ Count(runnable', t) \in Nat
    <3>1. Count(runnable', t) \in Nat
      BY <1>2, CountNum, Zenon
    <3>2. \A v \in Ids : waiters'[v] \in Seq(AwaiterType)
      BY DEF Typed
    <3>3. Waits(waiters', t) \in Nat
      BY <3>2, IndexFinite, FamilyTypes, Zenon DEF Waits
    <3> QED
      BY <3>1, <3>3
  <2>4. Sum(t)' = Thread(exec, t) + Count(micro', t) + Count(runnable', t) + Hosted(timers, t)
                  + Hosted(hosts, t) + Waits(waiters', t) + Sends(channels, t) + Recvs(channels, t)
    BY <1>2, Zenon DEF Sum
  <2>5. Own(h, t) \in Nat
    BY OwnNat
  <2> HIDE DEF h
  <2> QED
    BY <2>1, <2>2, <2>3, <2>4, <2>5, CountTypes DEF Sum
<1>7. \A t \in Ids : Sum(t) = Live(state[t]) /\ Live(state[t]) \in {0, 1}
  BY DEF Account, EachOnce, Live
<1>8. Own(h, u) = 1 /\ \A t \in Ids : t # u => Own(h, t) = 0
  BY DEF Own
<1>9. Live(s) = 0
  BY <1>2 DEF Live
<1>10. state[u] # "absent"
  <2>0. PICK v \in Ids : v = u
    BY <1>1
  <2>1. Sum(v) = Sum(v)' + 1 /\ Sum(v)' \in Nat /\ Sum(v) = Live(state[v])
    BY <1>6, <1>7, <1>8, <2>0, Zenon
  <2>2. Live(state[v]) # 0
    BY <2>1
  <2> QED
    BY <2>0, <2>2 DEF Live
<1> HIDE DEF h, u
<1>11. EachOnce'
  <2> SUFFICES ASSUME NEW t \in Ids PROVE Sum(t)' = Live(state'[t])
    BY DEF EachOnce
  <2>1. Sum(t) = Sum(t)' + Own(h, t) /\ Sum(t)' \in Nat
    BY <1>6
  <2>2. Sum(t) = Live(state[t]) /\ Live(state[t]) \in {0, 1}
    BY <1>7
  <2>3. CASE t = u
    <3>1. Own(h, t) = 1 /\ Live(state'[t]) = 0
      BY <1>5, <1>8, <1>9, <2>3, Zenon
    <3> QED
      BY <2>1, <2>2, <3>1
  <2>4. CASE t # u
    <3>1. Own(h, t) = 0 /\ Live(state'[t]) = Live(state[t])
      BY <1>5, <1>8, <2>4, Zenon
    <3>2. Sum(t)' = Sum(t)
      BY <2>1, <3>1
    <3> QED
      BY <2>2, <3>1, <3>2, Zenon
  <2> QED
    BY <2>3, <2>4
<1>12. Counted'
  BY <1>2, Zenon DEF Account, Counted
<1>13. Fresh'
  <2>2. \A t \in Ids : t >= nextId' => state'[t] = "absent"
    BY <1>1, <1>2, <1>5, <1>10, Zenon DEF Account, Fresh
  <2> QED
    BY <1>2, <2>2, Zenon DEF Account, Fresh
<1> QED
  BY <1>2, <1>11, <1>12, <1>13, Zenon DEF Account

LEMMA CompleteAccount ==
    ASSUME Typed, Typed', Account, onComplete \/ onFailTask
    PROVE  Account'
<1> DEFINE u == Head(micro).who
<1>0. take("settle") /\ "settle" \in {"cont", "settle", "host"} /\ "settle" # "host"
  BY DEF onComplete, onFailTask
<1>1. /\ u \in Ids /\ Tail(micro) \in Seq(JobType)
      /\ Num(Tail(micro), Pump) = Num(micro, Pump)
      /\ Num(Tail(micro), HostJobs) = Num(micro, HostJobs)
  BY <1>0, TakesStack, Zenon
<1>2. /\ exec' = exec /\ nextId' = nextId
      /\ timers' = timers /\ hosts' = hosts /\ pendingHost' = pendingHost
      /\ channels' = channels /\ nextChannelId' = nextChannelId
      /\ blockedOnChannel' = blockedOnChannel
      /\ schedule(Tail(micro))
  BY Zenon DEF onComplete, onFailTask, chanVars, hostVars
<1>3. PICK s \in {"done", "failed"}, failed \in BOOLEAN :
         state' = [state EXCEPT ![u] = s] /\ wakeWaiters(u, failed)
  BY DEF onComplete, onFailTask
<1>4. /\ runnable' \in Seq(Entry)
      /\ runnable # <<>> => runnable' # <<>>
      /\ \A t \in Ids : Waits(waiters', t) + Count(runnable', t) =
                           Waits(waiters, t) + Count(runnable, t)
      /\ blockedOnTask = Awaiting(waiters) => blockedOnTask' = Awaiting(waiters')
  <2>1. runnable \in Seq(Entry)
    BY DEF Account, Fresh
  <2> QED
    BY <1>1, <1>3, <2>1, WakeWaitersAccount, Zenon
<1>5. /\ \A t \in Ids : Count(micro', t) = Count(Tail(micro), t)
      /\ Num(micro', HostJobs) = Num(Tail(micro), HostJobs)
      /\ Pumping'
  <2>1. /\ pumping = TRUE => Num(Tail(micro), Pump) = 1 /\ runnable' # <<>>
        /\ pumping = FALSE => Num(Tail(micro), Pump) = 0
    BY <1>1, <1>4, Zenon DEF Account, Pumping
  <2> QED
    BY <1>1, <1>2, <2>1, ScheduleAccount, Zenon
<1>6. blockedOnTask = Awaiting(waiters)
  BY DEF Account, Counted
<1>7. Settles(u, s)
  BY <1>1, <1>2, <1>3, <1>4, <1>5, <1>6, Zenon DEF Settles
<1> QED
  BY <1>0, <1>7, SettlesAccount, Zenon

LEMMA FailTopAccount ==
    ASSUME Typed, Typed', Account, onFailTop
    PROVE  Account'
<1>0. take("settle") /\ "settle" \in {"cont", "settle", "host"} /\ "settle" # "host"
      /\ Head(micro).who = TOP
  BY DEF onFailTop
<1>1. /\ Num(Tail(micro), Pump) = Num(micro, Pump)
      /\ Num(Tail(micro), HostJobs) = Num(micro, HostJobs)
  BY <1>0, TakesStack, Zenon
<1>2. /\ exec' = exec /\ nextId' = nextId /\ waiters' = waiters /\ runnable' = runnable
      /\ timers' = timers /\ hosts' = hosts /\ pendingHost' = pendingHost
      /\ channels' = channels /\ nextChannelId' = nextChannelId
      /\ blockedOnChannel' = blockedOnChannel /\ blockedOnTask' = blockedOnTask
      /\ pumping' = pumping /\ micro' = Tail(micro)
      /\ state' = [state EXCEPT ![TOP] = "failed"]
  BY Zenon DEF onFailTop, chanVars, hostVars
<1>3. runnable' \in Seq(Entry) /\ Pumping' /\ blockedOnTask' = Awaiting(waiters')
  BY <1>1, <1>2, Zenon DEF Account, Fresh, Pumping, Counted
<1>4. "failed" \in {"done", "failed"}
  OBVIOUS
<1>5. Settles(TOP, "failed")
  BY <1>1, <1>2, <1>3, <1>4, Zenon DEF Settles
<1>6. Settles(Head(micro).who, "failed")
  BY <1>0, <1>5, Zenon
<1> QED
  BY <1>0, <1>6, SettlesAccount, Zenon

\* The operation of a stack is over: the stack leaves the host for the run
\* queue.
LEMMA DoneEnqueues ==
    ASSUME Typed, Account, NEW w, w.id \in Ids, w.who \in Ids, NEW throws \in BOOLEAN,
           hostDone(w, throws), NEW m \in Seq(JobType), schedule(m),
           Num(m, Pump) = Num(micro, Pump)
    PROVE  /\ runnable' \in Seq(Entry) /\ Pumping'
           /\ \A t \in Ids : Count(runnable', t) = Count(runnable, t) + Own(w, t)
           /\ \A t \in Ids : Count(micro', t) = Count(m, t)
           /\ Num(micro', HostJobs) = Num(m, HostJobs)
           /\ pendingHost' = pendingHost - 1
           /\ exec' = exec /\ state' = state /\ nextId' = nextId /\ waiters' = waiters
           /\ blockedOnTask' = blockedOnTask /\ channels' = channels
           /\ nextChannelId' = nextChannelId /\ blockedOnChannel' = blockedOnChannel
<1> DEFINE e == ResumeEntry(w, DirectHops, throws)
<1>1. e \in Entry /\ \A t : Own(e, t) = Own(w, t)
  <2>1. DirectHops \in 1..AsyncHops
    BY DEF DirectHops, AsyncHops
  <2> QED
    BY <2>1, ResumeIsEntry, Zenon
<1>2. runnable' = Append(runnable, e)
  BY Zenon DEF hostDone
<1> HIDE DEF e
<1>3. /\ runnable' \in Seq(Entry) /\ runnable' # <<>>
      /\ \A t \in Ids : Count(runnable', t) = Count(runnable, t) + Own(e, t)
  <2>1. runnable \in Seq(Entry)
    BY DEF Account, Fresh
  <2> QED
    BY <1>1, <1>2, <2>1, Enqueue, Zenon
<1>4. /\ \A t \in Ids : Count(micro', t) = Count(m, t)
      /\ Num(micro', HostJobs) = Num(m, HostJobs)
      /\ Pumping'
  <2>1. /\ pumping = TRUE => Num(m, Pump) = 1 /\ runnable' # <<>>
        /\ pumping = FALSE => Num(m, Pump) = 0
    BY <1>3, Zenon DEF Account, Pumping
  <2> QED
    BY <2>1, ScheduleAccount, Zenon
<1>5. /\ pendingHost' = pendingHost - 1
      /\ exec' = exec /\ state' = state /\ nextId' = nextId /\ waiters' = waiters
      /\ blockedOnTask' = blockedOnTask /\ channels' = channels
      /\ nextChannelId' = nextChannelId /\ blockedOnChannel' = blockedOnChannel
  BY Zenon DEF hostDone, taskVars, chanVars
<1> QED
  BY <1>1, <1>3, <1>4, <1>5, Zenon

LEMMA HandlerAccount ==
    ASSUME Typed, Account, hostHandler
    PROVE  Account'
<1> DEFINE h == Head(micro)
<1>0. take("host") /\ "host" \in {"cont", "settle", "host"} /\ timers' = timers /\ hosts' = hosts
      /\ hostDone(h, h.throws) /\ schedule(Tail(micro))
  BY DEF hostHandler
<1>1. /\ h \in StackJobType /\ Tail(micro) \in Seq(JobType)
      /\ Num(Tail(micro), Pump) = Num(micro, Pump)
      /\ Num(Tail(micro), HostJobs) = Num(micro, HostJobs) - 1
      /\ \A t \in Ids : Count(micro, t) = Count(Tail(micro), t) + Own(h, t)
      /\ \A t \in Ids : Count(Tail(micro), t) \in Nat
  BY <1>0, TakesStack, Zenon
<1>2. h.id \in Ids /\ h.who \in Ids /\ h.throws \in BOOLEAN
  BY <1>1 DEF StackJobType
<1>3. /\ runnable' \in Seq(Entry) /\ Pumping'
      /\ \A t \in Ids : Count(runnable', t) = Count(runnable, t) + Own(h, t)
      /\ \A t \in Ids : Count(micro', t) = Count(Tail(micro), t)
      /\ Num(micro', HostJobs) = Num(Tail(micro), HostJobs)
      /\ pendingHost' = pendingHost - 1
      /\ exec' = exec /\ state' = state /\ nextId' = nextId /\ waiters' = waiters
      /\ blockedOnTask' = blockedOnTask /\ channels' = channels
      /\ nextChannelId' = nextChannelId /\ blockedOnChannel' = blockedOnChannel
  BY <1>0, <1>1, <1>2, DoneEnqueues, Zenon
<1>4. ASSUME NEW t \in Ids PROVE Sum(t)' = Sum(t)
  <2>1. /\ Count(micro, t) = Count(micro', t) + Own(h, t) /\ Count(micro', t) \in Nat
        /\ Count(runnable', t) = Count(runnable, t) + Own(h, t)
    BY <1>1, <1>3, Zenon
  <2>2. Own(h, t) \in Nat
    BY OwnNat
  <2> HIDE DEF h
  <2> QED
    BY <1>0, <1>3, <2>1, <2>2, CountTypes DEF Sum
<1>5. Counted'
  <2>1. Num(micro', HostJobs) = Num(micro, HostJobs) - 1 /\ timers' = timers /\ hosts' = hosts
    BY <1>0, <1>1, <1>3, Zenon
  <2>2. Num(micro, HostJobs) \in Nat
    BY PosFinite, Zenon DEF Typed
  <2>3. Cardinality(timers) \in Nat /\ Cardinality(hosts) \in Nat
    BY <1>2, CountTypes, FS_CardinalityType, Zenon
  <2>4. pendingHost = Cardinality(timers) + Cardinality(hosts) + Num(micro, HostJobs)
    BY DEF Account, Counted
  <2> HIDE DEF h
  <2>5. pendingHost' = Cardinality(timers') + Cardinality(hosts') + Num(micro', HostJobs)
    BY <1>3, <2>1, <2>2, <2>3, <2>4
  <2> QED
    BY <1>3, <2>5, Zenon DEF Account, Counted
<1> QED
  BY <1>3, <1>4, <1>5, AccountStep, Zenon

LEMMA TimerAccount ==
    ASSUME Typed, Account, NEW w \in timers, timerFire(w)
    PROVE  Account'
<1>0. timers' = timers \ {w} /\ hosts' = hosts /\ hostDone(w, FALSE) /\ schedule(micro)
  BY DEF timerFire
<1>1. w.id \in Ids /\ w.who \in Ids /\ FALSE \in BOOLEAN /\ micro \in Seq(JobType)
  BY DEF Typed, WaiterType
<1>2. /\ runnable' \in Seq(Entry) /\ Pumping'
      /\ \A t \in Ids : Count(runnable', t) = Count(runnable, t) + Own(w, t)
      /\ \A t \in Ids : Count(micro', t) = Count(micro, t)
      /\ Num(micro', HostJobs) = Num(micro, HostJobs)
      /\ pendingHost' = pendingHost - 1
      /\ exec' = exec /\ state' = state /\ nextId' = nextId /\ waiters' = waiters
      /\ blockedOnTask' = blockedOnTask /\ channels' = channels
      /\ nextChannelId' = nextChannelId /\ blockedOnChannel' = blockedOnChannel
  BY <1>0, <1>1, DoneEnqueues, Zenon
<1>3. IsFiniteSet(timers) /\ IsFiniteSet(hosts)
  BY <1>1, CountTypes, Zenon
<1>4. \A t : /\ Cardinality(Holds(timers \ {w}, t)) = Cardinality(Holds(timers, t)) - Own(w, t)
             /\ Cardinality(timers \ {w}) = Cardinality(timers) - 1
  BY <1>3, HoldsRemove
<1>5. ASSUME NEW t \in Ids PROVE Sum(t)' = Sum(t)
  <2>1. /\ Hosted(timers', t) = Hosted(timers, t) - Own(w, t) /\ Count(micro', t) = Count(micro, t)
        /\ Count(runnable', t) = Count(runnable, t) + Own(w, t)
    BY <1>0, <1>2, <1>4, Zenon DEF Hosted
  <2>2. Own(w, t) \in Nat
    BY OwnNat
  <2> QED
    BY <1>0, <1>2, <2>1, <2>2, CountTypes DEF Sum
<1>6. Counted'
  <2>1. Cardinality(timers') = Cardinality(timers) - 1
    BY <1>0, <1>4, Zenon
  <2>2. Num(micro, HostJobs) \in Nat
    BY PosFinite, Zenon DEF Typed
  <2>3. Cardinality(timers) \in Nat /\ Cardinality(hosts) \in Nat
    BY <1>3, FS_CardinalityType, Zenon
  <2>4. pendingHost = Cardinality(timers) + Cardinality(hosts) + Num(micro, HostJobs)
    BY DEF Account, Counted
  <2>5. pendingHost' = Cardinality(timers') + Cardinality(hosts') + Num(micro', HostJobs)
    BY <1>0, <1>2, <2>1, <2>2, <2>3, <2>4
  <2> QED
    BY <1>2, <2>5, Zenon DEF Account, Counted
<1> QED
  BY <1>2, <1>5, <1>6, AccountStep, Zenon

LEMMA SettleHostAccount ==
    ASSUME Typed, Account, NEW w \in hosts, NEW throws \in BOOLEAN, hostSettle(w, throws)
    PROVE  Account'
<1>0. hosts' = hosts \ {w} /\ timers' = timers /\ hostDone(w, throws) /\ schedule(micro)
  BY DEF hostSettle
<1>1. w.id \in Ids /\ w.who \in Ids /\ micro \in Seq(JobType)
  BY DEF Typed, WaiterType
<1>2. /\ runnable' \in Seq(Entry) /\ Pumping'
      /\ \A t \in Ids : Count(runnable', t) = Count(runnable, t) + Own(w, t)
      /\ \A t \in Ids : Count(micro', t) = Count(micro, t)
      /\ Num(micro', HostJobs) = Num(micro, HostJobs)
      /\ pendingHost' = pendingHost - 1
      /\ exec' = exec /\ state' = state /\ nextId' = nextId /\ waiters' = waiters
      /\ blockedOnTask' = blockedOnTask /\ channels' = channels
      /\ nextChannelId' = nextChannelId /\ blockedOnChannel' = blockedOnChannel
  BY <1>0, <1>1, DoneEnqueues, Zenon
<1>3. IsFiniteSet(timers) /\ IsFiniteSet(hosts)
  BY <1>1, CountTypes, Zenon
<1>4. \A t : /\ Cardinality(Holds(hosts \ {w}, t)) = Cardinality(Holds(hosts, t)) - Own(w, t)
             /\ Cardinality(hosts \ {w}) = Cardinality(hosts) - 1
  BY <1>3, HoldsRemove
<1>5. ASSUME NEW t \in Ids PROVE Sum(t)' = Sum(t)
  <2>1. /\ Hosted(hosts', t) = Hosted(hosts, t) - Own(w, t) /\ Count(micro', t) = Count(micro, t)
        /\ Count(runnable', t) = Count(runnable, t) + Own(w, t)
    BY <1>0, <1>2, <1>4, Zenon DEF Hosted
  <2>2. Own(w, t) \in Nat
    BY OwnNat
  <2> QED
    BY <1>0, <1>2, <2>1, <2>2, CountTypes, SMTT(30) DEF Sum
<1>6. Counted'
  <2>1. Cardinality(hosts') = Cardinality(hosts) - 1
    BY <1>0, <1>4, Zenon
  <2>2. Num(micro, HostJobs) \in Nat
    BY PosFinite, Zenon DEF Typed
  <2>3. Cardinality(timers) \in Nat /\ Cardinality(hosts) \in Nat
    BY <1>3, FS_CardinalityType, Zenon
  <2>4. pendingHost = Cardinality(timers) + Cardinality(hosts) + Num(micro, HostJobs)
    BY DEF Account, Counted
  <2>5. pendingHost' = Cardinality(timers') + Cardinality(hosts') + Num(micro', HostJobs)
    BY <1>0, <1>2, <2>1, <2>2, <2>3, <2>4
  <2> QED
    BY <1>2, <2>5, Zenon DEF Account, Counted
<1> QED
  BY <1>2, <1>5, <1>6, AccountStep, Zenon

-----------------------------------------------------------------------------
(* The invariant holds, and gives StacksAccounted.                         *)

LEMMA InitAccount == Init => Typed /\ Account
<1> SUFFICES ASSUME Init PROVE Typed /\ Account
  OBVIOUS
<1>t. Typed
  BY InitType
<1>1. /\ runnable = <<>> /\ micro = <<>> /\ timers = {} /\ hosts = {} /\ exec = TOP
      /\ pumping = FALSE /\ blockedOnTask = 0 /\ blockedOnChannel = 0 /\ pendingHost = 0
      /\ nextId = 1 /\ nextChannelId = 1
  BY DEF Init
<1>2. /\ \A t \in Ids : waiters[t] = <<>>
      /\ state = [t \in Ids |-> IF t = TOP THEN "running" ELSE "absent"]
  BY DEF Init
<1>3. \A c \in ChannelIds : channels[c].sendQ = <<>> /\ channels[c].recvQ = <<>>
  BY DEF Init, EmptyChannel, Chan
<1>4. \A c \in ChannelIds : SendQs(channels)[c] = <<>> /\ RecvQs(channels)[c] = <<>>
                            /\ ParkedQs(channels)[c] = <<>>
  <2>1. <<>> \o <<>> = <<>>
    OBVIOUS
  <2>2. \A c \in ChannelIds : /\ SendQs(channels)[c] = channels[c].sendQ
                              /\ RecvQs(channels)[c] = channels[c].recvQ
                              /\ ParkedQs(channels)[c] = channels[c].sendQ \o channels[c].recvQ
    BY DEF SendQs, RecvQs, ParkedQs
  <2> QED
    BY <1>3, <2>1, <2>2, Zenon
<1>5. \A t : Waits(waiters, t) = 0 /\ Sends(channels, t) = 0 /\ Recvs(channels, t) = 0
  BY <1>2, <1>4, FamilyNone, Zenon DEF Waits, Sends, Recvs
<1>6. Awaiting(waiters) = 0 /\ Parked(channels) = 0
  BY <1>2, <1>4, FamilyNone, Zenon DEF Awaiting, Parked
<1>7. \A t : Count(micro, t) = 0 /\ Count(runnable, t) = 0
  BY <1>1, CountEmpty, Zenon
<1>8. \A t : Hosted(timers, t) = 0 /\ Hosted(hosts, t) = 0
  <2>1. \A t : Holds({}, t) = {}
    BY DEF Holds
  <2> QED
    BY <1>1, <2>1, FS_EmptySet, Zenon DEF Hosted
<1>9. EachOnce
  <2> SUFFICES ASSUME NEW t \in Ids PROVE Sum(t) = Live(state[t])
    BY DEF EachOnce
  <2>1. Sum(t) = Thread(TOP, t)
    <3>1. Thread(TOP, t) \in Nat
      BY DEF Thread
    <3> QED
      BY <1>1, <1>5, <1>7, <1>8, <3>1 DEF Sum
  <2>2. Live(state[t]) = Thread(TOP, t)
    BY <1>2 DEF Live, Thread
  <2> QED
    BY <2>1, <2>2
<1>10. Cardinality({}) = 0 /\ \A S : Num(<<>>, S) = 0
  BY FS_EmptySet, NumEmpty, Zenon
<1>11. Counted
  BY <1>1, <1>6, <1>10 DEF Counted
<1>12. Pumping
  BY <1>1, <1>10, Zenon DEF Pumping
<1>13. Fresh
  <2>1. \A t \in Ids : t >= nextId => state[t] = "absent"
    BY <1>1, <1>2 DEF Ids, TOP
  <2>2. runnable \in Seq(Entry)
    BY <1>1
  <2> QED
    BY <1>3, <2>1, <2>2, Zenon DEF Fresh
<1> QED
  BY <1>t, <1>9, <1>11, <1>12, <1>13 DEF Account

LEMMA AccountNext == Typed /\ Account /\ [Next]_vars => Account'
<1> SUFFICES ASSUME Typed, Account, [Next]_vars PROVE Account'
  OBVIOUS
<1>t. Typed'
  BY NextType
<1>1. CASE Parks
  BY <1>1, AwaitAccount, YieldFastAccount, YieldHopAccount, DeferredAccount,
     ImmediateAccount, FinishAccount, Zenon DEF Parks
<1>2. CASE Calls
  <2>1. ASSUME NEW c \in ChannelHandles,
               \/ sendHandoff(c) \/ sendBuffered(c) \/ sendParked(c)
               \/ recvBuffered(c) \/ recvRefill(c) \/ recvRendezvous(c) \/ recvParked(c)
               \/ channelClose(c)
        PROVE  Account'
    BY <1>t, <2>1, HandoffAccount, BufferedAccount, SendParkedAccount, RecvParkedAccount,
       ReceiveWakesAccount, CloseAccount, Zenon
  <2>2. ASSUME NEW cap \in 0..MaxCapacity, channelNew(cap) PROVE Account'
    BY <1>t, <2>2, NewChannelAccount, Zenon
  <2> QED
    BY <1>2, <2>1, <2>2, CreateAccount, SettledAccount, Zenon DEF Calls
<1>3. CASE Microtask
  BY <1>t, <1>3, KickAccount, StartAccount, ResumeAccount, HopAccount, ContinueAccount,
     UnwindAccount, CompleteAccount, FailTopAccount, HandlerAccount, Zenon DEF Microtask
<1>4. CASE TimerFires
  BY <1>4, TimerAccount, Zenon DEF TimerFires
<1>5. CASE HostSettles
  BY <1>5, SettleHostAccount, Zenon DEF HostSettles
<1>6. CASE UNCHANGED vars
  <2>1. /\ exec' = exec /\ state' = state /\ nextId' = nextId /\ waiters' = waiters
        /\ blockedOnTask' = blockedOnTask /\ channels' = channels
        /\ nextChannelId' = nextChannelId /\ blockedOnChannel' = blockedOnChannel
        /\ runnable' = runnable /\ micro' = micro /\ pumping' = pumping
        /\ timers' = timers /\ hosts' = hosts /\ pendingHost' = pendingHost
    BY <1>6, Zenon DEF vars, taskVars, chanVars, hostVars, loopVars
  <2>2. \A t \in Ids : Sum(t)' = Sum(t)
    BY <2>1, Zenon DEF Sum
  <2>3. Counted' /\ Pumping' /\ runnable' \in Seq(Entry)
    BY <2>1, Zenon DEF Account, Counted, Pumping, Fresh
  <2> QED
    BY <2>1, <2>2, <2>3, AccountStep, Zenon
<1> QED
  BY <1>1, <1>2, <1>3, <1>4, <1>5, <1>6, Zenon DEF Next

\* What the counting says of StacksAccounted.
LEMMA AccountGives ==
    ASSUME Typed, Account
    PROVE  StacksAccounted
<1>1. OnePlace
  <2> SUFFICES ASSUME NEW t \in Ids
               PROVE  Cardinality(Places(t)) = IF state[t] \in {"new", "running"} THEN 1 ELSE 0
    BY DEF OnePlace
  <2>1. Cardinality(Places(t)) = Live(state[t])
    BY PlacesSum, Zenon DEF Account, EachOnce
  <2> QED
    BY <2>1, Zenon DEF Live
<1>m. micro \in Seq(JobType) /\ \A i \in DOMAIN micro : micro[i] \in JobType
  BY DEF Typed
<1>2. CountersExact
  <2>1. Awaiting(waiters) = Cardinality(UNION {{u} \X DOMAIN waiters[u] : u \in Ids})
    BY Zenon DEF Awaiting, Entries
  <2>2. Parked(channels) =
           Cardinality(UNION {{c} \X DOMAIN (channels[c].sendQ \o channels[c].recvQ) : c \in ChannelIds})
    <3>1. Entries(ChannelIds, ParkedQs(channels)) =
             UNION {{c} \X DOMAIN (channels[c].sendQ \o channels[c].recvQ) : c \in ChannelIds}
      BY DEF Entries, ParkedQs
    <3> QED
      BY <3>1, Zenon DEF Parked
  <2>3. Num(micro, HostJobs) = Cardinality({i \in DOMAIN micro : micro[i].job = "host"})
    <3>1. Pos(micro, HostJobs) = {i \in DOMAIN micro : micro[i].job = "host"}
      BY <1>m, Zenon DEF Pos, HostJobs
    <3> QED
      BY <3>1, Zenon DEF Num
  <2>4. /\ blockedOnTask = Awaiting(waiters) /\ blockedOnChannel = Parked(channels)
        /\ pendingHost = Cardinality(timers) + Cardinality(hosts) + Num(micro, HostJobs)
    BY DEF Account, Counted
  <2> QED
    BY <2>1, <2>2, <2>3, <2>4, Zenon DEF CountersExact
<1>3. PumpHasWork
  <2>1. IsFiniteSet(Pos(micro, Pump))
    BY <1>m, PosFinite, Zenon
  <2>2. \A i : i \in Pos(micro, Pump) <=> i \in DOMAIN micro /\ micro[i] = RunOneJob
    BY Zenon DEF Pos, Pump
  <2>3. pumping \in BOOLEAN
    BY DEF Typed
  <2>4. CASE pumping = TRUE
    <3>1. Cardinality(Pos(micro, Pump)) = 1 /\ runnable # <<>>
      BY <2>4, Zenon DEF Account, Pumping, Num
    <3>2. PICK x : Pos(micro, Pump) = {x}
      BY <2>1, <3>1, FS_Singleton, Zenon
    <3>3. x \in DOMAIN micro /\ micro[x] = RunOneJob
      BY <2>2, <3>2
    <3>4. \A i \in DOMAIN micro : micro[i] = RunOneJob => i = x
      BY <2>2, <3>2
    <3> QED
      BY <2>4, <3>1, <3>3, <3>4, Zenon DEF PumpHasWork
  <2>5. CASE pumping = FALSE
    <3>1. Cardinality(Pos(micro, Pump)) = 0
      BY <2>5, Zenon DEF Account, Pumping, Num
    <3>2. Pos(micro, Pump) = {}
      BY <2>1, <3>1, FS_EmptySet, Zenon
    <3> QED
      BY <2>2, <2>5, <3>2, Zenon DEF PumpHasWork
  <2> QED
    BY <2>3, <2>4, <2>5, Zenon
<1> QED
  BY <1>1, <1>2, <1>3 DEF StacksAccounted

LEMMA AccountInvariant == Spec => [](Typed /\ Account)
<1>1. Typed /\ Account /\ [Next]_vars => (Typed /\ Account)'
  BY NextType, AccountNext
<1> QED
  BY InitAccount, <1>1, PTL DEF Spec

\* Every stack is accounted for, however many tasks and channels there are and
\* whatever the program calls: none is lost and none is resumed twice, the
\* counters that checkQuiescence reads are exact, and runOne is queued once
\* when there is work and not otherwise (runtime.mjs:779-891).
THEOREM StacksAccountedHolds == Spec => []StacksAccounted
<1>1. Typed /\ Account => StacksAccounted
  BY AccountGives
<1> QED
  BY <1>1, AccountInvariant, PTL

-----------------------------------------------------------------------------
(***************************************************************************)
(* How the program's promise is settled.  NoSilentHang holds in both host  *)
(* modes: the last event before everything is quiet calls schedule(), and  *)
(* the counters it reads are exact.  DeadlockIsReal and DrainedBeforeExit  *)
(* hold when host calls complete as later events: then the microtask queue *)
(* is empty when checkQuiescence decides.                                  *)
(***************************************************************************)

\* The top level is one of the stacks, and its end is the program's.
Top ==
    /\ state[TOP] \in {"running", "done", "failed"}
    /\ topLevelDone = TRUE <=> state[TOP] = "done"
    /\ state[TOP] = "failed" => settled # "no"

\* Before kick() nothing but the top level has been started.
Early ==
    kicked = FALSE /\ runnable = <<>> => \A t \in Ids : t # TOP => state[t] = "absent"

Hang == Quiet => settled # "no"

\* What the counters say: pendingHost of the operations with the host, and of
\* a quiet scheduler the counters of the blocked stacks.
Idling ==
    /\ blockedOnTask \in Nat /\ blockedOnChannel \in Nat /\ pendingHost \in Nat
    /\ pendingHost = 0 => timers = {} /\ hosts = {}

Over ==
    /\ pendingHost = 0 /\ pumping = FALSE
    /\ blockedOnTask = 0 /\ blockedOnChannel = 0 =>
          \A t \in Ids : state[t] \notin {"new", "running"}

-----------------------------------------------------------------------------
(* What the counts say.                                                    *)

\* A stack with a place is live.
LEMMA SomewhereLive ==
    ASSUME Typed, Account, NEW t \in Ids, Sum(t) # 0
    PROVE  state[t] \in {"new", "running"}
BY DEF Account, EachOnce, Live

LEMMA QueuedLive ==
    ASSUME Typed, Account, NEW t \in Ids, Count(micro, t) # 0 \/ Count(runnable, t) # 0
    PROVE  state[t] \in {"new", "running"}
<1>1. /\ Thread(exec, t) \in Nat /\ Count(micro, t) \in Nat /\ Count(runnable, t) \in Nat
      /\ Hosted(timers, t) \in Nat /\ Hosted(hosts, t) \in Nat /\ Waits(waiters, t) \in Nat
      /\ Sends(channels, t) \in Nat /\ Recvs(channels, t) \in Nat
  BY CountTypes, Zenon
<1>2. Sum(t) # 0
  BY <1>1 DEF Sum
<1> QED
  BY <1>2, SomewhereLive, Zenon

\* The stack that runOne starts, or whose promise settles, has not settled yet.
LEMMA StartsLive ==
    ASSUME Typed, Account, runStart
    PROVE  /\ Head(runnable).id \in Ids /\ Head(runnable).id = Head(runnable).who
           /\ state[Head(runnable).id] \in {"new", "running"}
<1> DEFINE e == Head(runnable)
<1>1. runnable # <<>> /\ e.kind = "start"
  BY Zenon DEF runStart
<1>2. /\ e \in Entry /\ e \in EntryType
      /\ \A t \in Ids : Count(runnable, t) = Count(Tail(runnable), t) + Own(e, t)
      /\ \A t \in Ids : Count(Tail(runnable), t) \in Nat
  BY <1>1, TakesEntry, Zenon
<1>3. e.id = e.who /\ e.who \in Ids
  BY <1>1, <1>2 DEF Entry, EntryType
<1>4. PICK u \in Ids : u = e.who
  BY <1>3
<1>5. Own(e, u) = 1
  BY <1>4 DEF Own
<1>6. Count(runnable, u) # 0
  <2>1. Count(runnable, u) = Count(Tail(runnable), u) + 1 /\ Count(Tail(runnable), u) \in Nat
    BY <1>2, <1>5, Zenon
  <2> QED
    BY <2>1
<1> HIDE DEF e
<1>7. state[u] \in {"new", "running"}
  BY <1>6, QueuedLive, Zenon
<1> QED
  BY <1>3, <1>4, <1>7, Zenon DEF e

LEMMA SettlesLive ==
    ASSUME Typed, Account, NEW k \in {"cont", "settle", "host"}, take(k)
    PROVE  Head(micro).who \in Ids /\ state[Head(micro).who] \in {"new", "running"}
<1> DEFINE h == Head(micro)
<1>1. /\ h.who \in Ids
      /\ \A t \in Ids : Count(micro, t) = Count(Tail(micro), t) + Own(h, t)
      /\ \A t \in Ids : Count(Tail(micro), t) \in Nat
  BY TakesStack, Zenon
<1>2. PICK u \in Ids : u = h.who
  BY <1>1
<1>3. Own(h, u) = 1
  BY <1>2 DEF Own
<1>4. Count(micro, u) # 0
  <2>1. Count(micro, u) = Count(Tail(micro), u) + 1 /\ Count(Tail(micro), u) \in Nat
    BY <1>1, <1>3, Zenon
  <2> QED
    BY <2>1
<1> HIDE DEF h
<1>5. state[u] \in {"new", "running"}
  BY <1>4, QueuedLive, Zenon
<1> QED
  BY <1>1, <1>2, <1>5, Zenon DEF h

LEMMA EmptyDomain ==
    ASSUME NEW T, NEW q \in Seq(T), DOMAIN q = {}
    PROVE  q = <<>>
OBVIOUS

LEMMA Members ==
    ASSUME NEW K, NEW qs, NEW k \in K, NEW i \in DOMAIN qs[k], NEW s
    PROVE  <<k, i>> \in Entries(K, qs) /\ <<s, k, i>> \in Tagged(s, K, qs, qs[k][i].who)
<1>1. <<k, i>> \in {k} \X DOMAIN qs[k]
  OBVIOUS
<1>2. <<s, k, i>> \in {s} \X {k} \X At(qs[k], qs[k][i].who)
  BY DEF At
<1> QED
  BY <1>1, <1>2, Zenon DEF Entries, Tagged

LEMMA EntriesFinite ==
    ASSUME NEW K, IsFiniteSet(K), NEW T, NEW qs, \A k \in K : qs[k] \in Seq(T)
    PROVE  IsFiniteSet(Entries(K, qs))
<1> DEFINE A == [k \in K |-> {k} \X DOMAIN qs[k]]
<1>1. Entries(K, qs) = UNION {A[k] : k \in K}
  BY DEF Entries
<1>2. \A k \in K : A[k] = {k} \X DOMAIN qs[k]
  OBVIOUS
<1> HIDE DEF A
<1>3. \A k \in K : IsFiniteSet(A[k])
  <2>1. \A q \in Seq(T) : IsFiniteSet(DOMAIN q)
    <3> TAKE q \in Seq(T)
    <3>1. DOMAIN q = 1..Len(q) /\ Len(q) \in Int /\ 1 \in Int
      OBVIOUS
    <3>2. IsFiniteSet(1..Len(q))
      BY <3>1, FS_Interval, Zenon
    <3> QED
      BY <3>1, <3>2, Zenon
  <2>2. \A k \in K : IsFiniteSet({k} \X DOMAIN qs[k])
    BY <2>1, CardPair, Zenon
  <2> QED
    BY <1>2, <2>2, Zenon
<1>4. IsFiniteSet(UNION {A[k] : k \in K})
  BY <1>3, FamilyFinite
<1> QED
  BY <1>1, <1>4, Zenon

\* Queues without entries are empty.
LEMMA NoEntries ==
    ASSUME NEW K, IsFiniteSet(K), NEW T, NEW qs, \A k \in K : qs[k] \in Seq(T),
           Cardinality(Entries(K, qs)) = 0
    PROVE  \A k \in K : qs[k] = <<>>
<1>5. Entries(K, qs) = {}
  BY EntriesFinite, FS_EmptySet, Zenon
<1>6. ASSUME NEW k \in K PROVE qs[k] = <<>>
  <2>1. \A i \in DOMAIN qs[k] : <<k, i>> \in Entries(K, qs)
    BY Members, Zenon
  <2>2. DOMAIN qs[k] = {}
    BY <1>5, <2>1
  <2> QED
    BY <2>2, EmptyDomain, Zenon
<1> QED
  BY <1>6

\* Queues that hold no stack are empty.
LEMMA NoOwners ==
    ASSUME NEW K, IsFiniteSet(K), NEW T, NEW qs, \A k \in K : qs[k] \in Seq(T),
           \A w \in T : w.who \in Ids, NEW s,
           \A t \in Ids : Cardinality(Tagged(s, K, qs, t)) = 0
    PROVE  \A k \in K : qs[k] = <<>>
<1>1. \A t \in Ids : Tagged(s, K, qs, t) = {}
  <2> TAKE t \in Ids
  <2>1. IsFiniteSet(Tagged(s, K, qs, t))
    BY FamilyTypes, Zenon
  <2> QED
    BY <2>1, FS_EmptySet, Zenon
<1>2. ASSUME NEW k \in K PROVE qs[k] = <<>>
  <2>1. \A i \in DOMAIN qs[k] : qs[k][i].who \in Ids
    <3>1. \A q \in Seq(T) : \A i \in DOMAIN q : q[i] \in T
      OBVIOUS
    <3> QED
      BY <3>1, Zenon
  <2>2. \A i \in DOMAIN qs[k] : <<s, k, i>> \in Tagged(s, K, qs, qs[k][i].who)
    BY Members, Zenon
  <2>4. DOMAIN qs[k] = {}
    BY <1>1, <2>1, <2>2
  <2> QED
    BY <2>4, EmptyDomain, Zenon
<1> QED
  BY <1>2

LEMMA QueueTypes ==
    ASSUME Typed
    PROVE  /\ \A u \in Ids : waiters[u] \in Seq(AwaiterType)
           /\ \A c \in ChannelIds : SendQs(channels)[c] \in Seq(SenderType)
           /\ \A c \in ChannelIds : RecvQs(channels)[c] \in Seq(WaiterType)
           /\ \A c \in ChannelIds : ParkedQs(channels)[c] \in Seq(SenderType \cup WaiterType)
           /\ \A w \in AwaiterType : w.who \in Ids
           /\ \A w \in SenderType : w.who \in Ids
           /\ \A w \in WaiterType : w.who \in Ids
<1>1. \A u \in Ids : waiters[u] \in Seq(AwaiterType)
  BY DEF Typed
<1>2. \A c \in ChannelIds : channels[c].sendQ \in Seq(SenderType) /\ channels[c].recvQ \in Seq(WaiterType)
  BY DEF Typed, ChannelType
<1>3. \A a \in Seq(SenderType), b \in Seq(WaiterType) : a \o b \in Seq(SenderType \cup WaiterType)
  OBVIOUS
<1>4. \A c \in ChannelIds : /\ SendQs(channels)[c] = channels[c].sendQ
                            /\ RecvQs(channels)[c] = channels[c].recvQ
                            /\ ParkedQs(channels)[c] = channels[c].sendQ \o channels[c].recvQ
  BY DEF SendQs, RecvQs, ParkedQs
<1>5. /\ \A w \in AwaiterType : w.who \in Ids
      /\ \A w \in SenderType : w.who \in Ids
      /\ \A w \in WaiterType : w.who \in Ids
  BY DEF AwaiterType, SenderType, WaiterType
<1> QED
  BY <1>1, <1>2, <1>3, <1>4, <1>5, Zenon

\* The counters are natural numbers, and no pending operation means that
\* nothing is with the host.
LEMMA CounterTypes == Typed /\ Account => Idling
<1> SUFFICES ASSUME Typed, Account PROVE Idling
  OBVIOUS
<1>1. /\ blockedOnTask = Awaiting(waiters) /\ blockedOnChannel = Parked(channels)
      /\ pendingHost = Cardinality(timers) + Cardinality(hosts) + Num(micro, HostJobs)
  BY DEF Account, Counted
<1>2. Awaiting(waiters) \in Nat
  BY QueueTypes, IndexFinite, EntriesFinite, FS_CardinalityType, Zenon DEF Awaiting
<1>3. Parked(channels) \in Nat
  BY QueueTypes, IndexFinite, EntriesFinite, FS_CardinalityType, Zenon DEF Parked
<1>4. Num(micro, HostJobs) \in Nat
  BY PosFinite, Zenon DEF Typed
<1>5. IsFiniteSet(timers) /\ IsFiniteSet(hosts)
  BY WaiterFinite, Zenon DEF Typed
<1>6. Cardinality(timers) \in Nat /\ Cardinality(hosts) \in Nat
  BY <1>5, FS_CardinalityType, Zenon
<1>7. pendingHost \in Nat /\ (pendingHost = 0 => Cardinality(timers) = 0 /\ Cardinality(hosts) = 0)
  BY <1>1, <1>4, <1>6
<1>8. pendingHost = 0 => timers = {} /\ hosts = {}
  BY <1>5, <1>7, FS_EmptySet, Zenon
<1> QED
  BY <1>1, <1>2, <1>3, <1>7, <1>8, Zenon DEF Idling

\* The type invariant of the scheduler: besides the types of the queues, no
\* counter falls below zero, whatever parks, completes or closes
\* (runtime.mjs:779-807).  That needs the account: a wake subtracts what the
\* park of the same stack has added.
THEOREM TypeCorrect == Spec => []TypeOK
<1>1. Typed /\ Account => TypeOK
  BY CounterTypes DEF TypeOK, Idling
<1> QED
  BY <1>1, AccountInvariant, PTL

\* When all is quiet and nobody is blocked, every stack has ended.
LEMMA QuietOver == Typed /\ Account /\ Quiet => Over
<1> SUFFICES ASSUME Typed, Account, Quiet PROVE Over
  OBVIOUS
<1>1. exec = None /\ micro = <<>> /\ runnable = <<>> /\ timers = {} /\ hosts = {}
  BY DEF Quiet
<1>2. Cardinality({}) = 0 /\ \A S : Num(<<>>, S) = 0
  BY FS_EmptySet, NumEmpty, Zenon
<1>3. pendingHost = 0
  <2>1. pendingHost = 0 + 0 + 0
    BY <1>1, <1>2, Zenon DEF Account, Counted
  <2> QED
    BY <2>1
<1>4. pumping = FALSE
  <2>1. pumping \in BOOLEAN
    BY DEF Typed
  <2> QED
    BY <1>1, <2>1, Zenon DEF Account, Pumping
<1>5. ASSUME blockedOnTask = 0, blockedOnChannel = 0, NEW t \in Ids
      PROVE  state[t] \notin {"new", "running"}
  <2>1. Awaiting(waiters) = 0 /\ Parked(channels) = 0
    BY <1>5, Zenon DEF Account, Counted
  <2>2. \A u \in Ids : waiters[u] = <<>>
    BY <2>1, QueueTypes, IndexFinite, NoEntries, Zenon DEF Awaiting
  <2>3. \A c \in ChannelIds : ParkedQs(channels)[c] = <<>>
    BY <2>1, QueueTypes, IndexFinite, NoEntries, Zenon DEF Parked
  <2>4. \A c \in ChannelIds : SendQs(channels)[c] = <<>> /\ RecvQs(channels)[c] = <<>>
    <3>1. \A a \in Seq(SenderType), b \in Seq(WaiterType) : a \o b = <<>> => a = <<>> /\ b = <<>>
      OBVIOUS
    <3>2. \A c \in ChannelIds : ParkedQs(channels)[c] = SendQs(channels)[c] \o RecvQs(channels)[c]
      BY DEF SendQs, RecvQs, ParkedQs
    <3> QED
      BY <2>3, <3>1, <3>2, QueueTypes, Zenon
  <2>5. Waits(waiters, t) = 0 /\ Sends(channels, t) = 0 /\ Recvs(channels, t) = 0
    BY <2>2, <2>4, FamilyNone, Zenon DEF Waits, Sends, Recvs
  <2>6. Count(micro, t) = 0 /\ Count(runnable, t) = 0
    BY <1>1, CountEmpty, Zenon
  <2>7. Hosted(timers, t) = 0 /\ Hosted(hosts, t) = 0
    <3>1. Holds({}, t) = {}
      BY DEF Holds
    <3> QED
      BY <1>1, <1>2, <3>1, Zenon DEF Hosted
  <2>8. Thread(exec, t) = 0
    BY <1>1, OffThread, Zenon
  <2>9. Sum(t) = 0
    BY <2>5, <2>6, <2>7, <2>8 DEF Sum
  <2>10. Live(state[t]) = 0
    BY <2>9, Zenon DEF Account, EachOnce
  <2> QED
    BY <2>10 DEF Live
<1> QED
  BY <1>3, <1>4, <1>5, Zenon DEF Over

LEMMA AccountSays == (Typed /\ Account)' => Idling' /\ (Quiet' => Over')
BY CounterTypes, QuietOver, PTL

-----------------------------------------------------------------------------
(* NoSilentHang.                                                           *)

\* schedule() on a quiet scheduler settles the program's promise.
LEMMA ScheduleSettles ==
    ASSUME Typed', Account', Top', NEW m, schedule(m), Quiet'
    PROVE  settled' # "no"
<1>1. Idling' /\ Over'
  BY AccountSays, Zenon
<1>2. pendingHost' = 0 /\ pumping' = FALSE
  BY <1>1, Zenon DEF Over
<1>3. checkQuiescence
  BY <1>2, Zenon DEF schedule
<1>4. ~(pendingHost' > 0)
  BY <1>2
<1>5. CASE blockedOnTask' > 0 \/ blockedOnChannel' > 0
  BY <1>3, <1>4, <1>5 DEF checkQuiescence
<1>6. CASE ~(blockedOnTask' > 0 \/ blockedOnChannel' > 0)
  <2>1. blockedOnTask' = 0 /\ blockedOnChannel' = 0
    BY <1>1, <1>6 DEF Idling
  <2>2. TOP \in Ids
    BY BoundsAssumption DEF TOP, Ids
  <2>3. state'[TOP] \notin {"new", "running"}
    BY <1>1, <2>1, <2>2, Zenon DEF Over
  <2>4. state'[TOP] \in {"running", "done", "failed"}
    BY Zenon DEF Top
  <2>5. state'[TOP] = "done" \/ state'[TOP] = "failed"
    BY <2>3, <2>4, Zenon
  <2>6. CASE state'[TOP] = "failed"
    BY <2>6, Zenon DEF Top
  <2>7. CASE state'[TOP] = "done"
    <3>1. topLevelDone' = TRUE
      BY <2>7, Zenon DEF Top
    <3> QED
      BY <1>3, <1>4, <1>6, <3>1 DEF checkQuiescence
  <2> QED
    BY <2>5, <2>6, <2>7, Zenon
<1> QED
  BY <1>5, <1>6, Zenon

\* Every step leaves something to do or asks schedule().
LEMMA HangNext ==
    ASSUME Typed, Typed', Account', Top', Hang, Next, Quiet'
    PROVE  settled' # "no"
<1>q. /\ exec' = None /\ micro' = <<>> /\ runnable' = <<>>
      /\ timers' = {} /\ hosts' = {}
  BY Zenon DEF Quiet
<1>s. ASSUME NEW m, schedule(m) PROVE settled' # "no"
  BY <1>s, ScheduleSettles
<1>g. CASE guest /\ stay
  BY <1>q, <1>g, StayType, Zenon DEF guest
<1>1. CASE Parks
  <2>1. CASE yieldHop
    BY <1>q, <2>1, Zenon DEF yieldHop
  <2>2. ASSUME NEW th \in BOOLEAN, finish(th) PROVE FALSE
    <3>1. micro' = Append(micro, SettleJob(exec, th)) /\ micro \in Seq(JobType)
      BY <2>2, Zenon DEF finish, Typed
    <3>2. Append(micro, SettleJob(exec, th)) # <<>>
      BY <3>1
    <3> QED
      BY <1>q, <3>1, <3>2, Zenon
  <2> QED
    BY <1>1, <1>s, <2>1, <2>2, Zenon
    DEF Parks, awaitParked, yieldFast, hostDeferred, hostImmediate, suspend
<1>2. CASE Calls
  <2>1. ASSUME NEW tid, NEW tm, awaitSettled(tid, tm) PROVE FALSE
    <3>1. /\ micro' = Append(micro, ContJob(exec, DirectHops, state[tid] = "failed" /\ ~tm))
          /\ micro \in Seq(JobType)
      BY <2>1, Zenon DEF awaitSettled, Typed
    <3>2. \A j : Append(micro, j) # <<>>
      BY <3>1
    <3> QED
      BY <1>q, <3>1, <3>2, Zenon
  <2> QED
    BY <1>2, <1>g, <1>s, <2>1, Zenon
    DEF Calls, taskCreate, channelNew, sendHandoff, sendBuffered, sendParked, canSend,
        recvBuffered, recvRefill, recvRendezvous, recvParked, channelClose, suspend
<1>3. CASE Microtask
  <2>1. CASE runStart
    <3>1. runnable # <<>> /\ exec' = Head(runnable).who /\ runnable \in Seq(EntryType)
      BY <2>1, Zenon DEF runStart, Typed
    <3>2. Head(runnable) \in EntryType
      BY <3>1
    <3>3. Head(runnable).who # None
      BY <3>2, BoundsAssumption DEF EntryType, Ids, None
    <3> QED
      BY <1>q, <3>1, <3>3, Zenon
  <2>2. CASE continueStack
    <3>1. take("cont") /\ exec' = Head(micro).who /\ "cont" \in {"cont", "settle", "host"}
      BY <2>2, Zenon DEF continueStack
    <3>2. Head(micro) \in StackJobType
      BY <3>1, TakeType, Zenon
    <3>3. Head(micro).who # None
      BY <3>2, BoundsAssumption DEF StackJobType, Ids, None
    <3> QED
      BY <1>q, <3>1, <3>3, Zenon
  <2>3. CASE runResume \/ hop \/ unwindStack
    <3>1. micro # <<>> /\ micro \in Seq(JobType) /\ \E j : micro' = Append(Tail(micro), j)
      BY <2>3, Zenon DEF runResume, hop, unwindStack, take, Typed
    <3>2. \A j : Append(Tail(micro), j) # <<>>
      BY <3>1
    <3> QED
      BY <1>q, <3>1, <3>2, Zenon
  <2>4. CASE onFailTop
    <3>1. settled' = IF settled = "no" THEN "topFailed" ELSE settled
      BY <2>4, Zenon DEF onFailTop
    <3> QED
      BY <3>1
  <2> QED
    BY <1>3, <1>s, <2>1, <2>2, <2>3, <2>4, Zenon
    DEF Microtask, kick, onComplete, onFailTask, hostHandler
<1>4. CASE TimerFires \/ HostSettles
  BY <1>4, <1>s, Zenon DEF TimerFires, HostSettles, timerFire, hostSettle
<1> QED
  BY <1>1, <1>2, <1>3, <1>4, Zenon DEF Next

\* The promise of the program is settled once.
LEMMA SettledKept ==
    ASSUME Next, settled # "no"
    PROVE  settled' = settled
<1>s. ASSUME NEW m, schedule(m) PROVE settled' = settled
  BY <1>s, Zenon DEF schedule, checkQuiescence
<1>1. CASE Parks
  BY <1>1, <1>s, Zenon
  DEF Parks, awaitParked, yieldFast, yieldHop, hostDeferred, hostImmediate, suspend, finish
<1>2. CASE Calls
  BY <1>2, <1>s, Zenon
  DEF Calls, taskCreate, awaitSettled, channelNew, sendHandoff, sendBuffered, sendParked,
      canSend, recvBuffered, recvRefill, recvRendezvous, recvParked, channelClose, suspend,
      stay, loopVars
<1>3. CASE Microtask
  BY <1>3, <1>s, Zenon
  DEF Microtask, kick, runStart, runResume, hop, continueStack, unwindStack, onComplete,
      onFailTop, onFailTask, hostHandler, promiseVars
<1>4. CASE TimerFires \/ HostSettles
  BY <1>4, <1>s, Zenon DEF TimerFires, HostSettles, timerFire, hostSettle
<1> QED
  BY <1>1, <1>2, <1>3, <1>4, Zenon DEF Next

\* The stacks change state when they are created, started and settled.
LEMMA StateKept ==
    ASSUME Next
    PROVE  \/ UNCHANGED <<state, topLevelDone>>
           \/ taskCreate \/ runStart \/ onComplete \/ onFailTop \/ onFailTask
<1>1. CASE Parks
  BY <1>1, Zenon
  DEF Parks, awaitParked, yieldFast, yieldHop, hostDeferred, hostImmediate, finish, guest,
      taskVars
<1>2. CASE Calls
  BY <1>2, ZenonT(30)
  DEF Calls, awaitSettled, channelNew, sendHandoff, sendBuffered, sendParked,
      canSend, recvBuffered, recvRefill, recvRendezvous, recvParked, channelClose, guest,
      taskVars, channelVars
<1>3. CASE Microtask
  BY <1>3, Zenon
  DEF Microtask, kick, runResume, hop, continueStack, unwindStack, hostHandler, hostDone,
      promiseVars, taskVars
<1>4. CASE TimerFires \/ HostSettles
  BY <1>4, Zenon DEF TimerFires, HostSettles, timerFire, hostSettle, hostDone, taskVars
<1> QED
  BY <1>1, <1>2, <1>3, <1>4, Zenon DEF Next

LEMMA Changed ==
    ASSUME NEW S, NEW f \in [Ids -> S], NEW t \in Ids, NEW u \in Ids, NEW x
    PROVE  [f EXCEPT ![u] = x][t] = IF t = u THEN x ELSE f[t]
OBVIOUS

\* The state of one stack changes in a step.
LEMMA OneChanges ==
    ASSUME Typed, NEW t \in Ids, NEW u \in Ids, NEW x, state' = [state EXCEPT ![u] = x]
    PROVE  state'[t] = IF t = u THEN x ELSE state[t]
<1>1. state \in [Ids -> {"absent", "new", "running", "done", "failed"}]
  BY DEF Typed
<1> QED
  BY <1>1, Changed, Zenon

LEMMA TopNext ==
    ASSUME Typed, Account, Top, Next
    PROVE  Top'
<1>t. TOP \in Ids
  BY BoundsAssumption DEF TOP, Ids
<1>l. state[TOP] \in {"new", "running"} => topLevelDone = FALSE
  <2>1. topLevelDone \in BOOLEAN
    BY DEF Typed
  <2>2. "new" # "done" /\ "running" # "done"
    OBVIOUS
  <2> QED
    BY <2>1, <2>2, Zenon DEF Top
<1>1. CASE UNCHANGED <<state, topLevelDone>>
  BY <1>1, SettledKept, Zenon DEF Top
<1>2. ASSUME NEW u \in Ids, NEW x, state' = [state EXCEPT ![u] = x], u # TOP,
             topLevelDone' = topLevelDone
      PROVE  Top'
  <2>1. state'[TOP] = state[TOP]
    BY <1>t, <1>2, OneChanges, Zenon
  <2> QED
    BY <1>2, <2>1, SettledKept, Zenon DEF Top
<1>3. CASE taskCreate
  <2>1. nextId \in Ids /\ nextId # TOP
    BY <1>3, BoundsAssumption DEF taskCreate, Typed, Ids, TOP
  <2> QED
    BY <1>2, <1>3, <2>1, Zenon DEF taskCreate, guest
<1>4. CASE runStart
  <2> DEFINE u == Head(runnable).id
  <2>1. u \in Ids /\ state[u] \in {"new", "running"}
    BY <1>4, StartsLive, Zenon
  <2>2. state' = [state EXCEPT ![u] = "running"] /\ topLevelDone' = topLevelDone
        /\ settled' = settled
    BY <1>4, Zenon DEF runStart
  <2> HIDE DEF u
  <2>3. CASE u # TOP
    BY <1>2, <2>1, <2>2, <2>3, Zenon
  <2>4. CASE u = TOP
    <3>1. state'[TOP] = "running"
      BY <1>t, <2>2, <2>4, OneChanges, Zenon
    <3>2. topLevelDone' = FALSE
      BY <1>l, <2>1, <2>2, <2>4, Zenon
    <3>3. "running" # "done" /\ "running" # "failed"
      OBVIOUS
    <3> QED
      BY <3>1, <3>2, <3>3, Zenon DEF Top
  <2> QED
    BY <2>3, <2>4, Zenon
<1>5. ASSUME take("settle")
      PROVE  Head(micro).who \in Ids /\ state[Head(micro).who] \in {"new", "running"}
  BY <1>5, SettlesLive, Zenon
<1>6. CASE onComplete
  <2> DEFINE u == Head(micro).who
  <2>1. u \in Ids /\ state[u] \in {"new", "running"}
    BY <1>5, <1>6, Zenon DEF onComplete
  <2>2. /\ state' = [state EXCEPT ![u] = "done"]
        /\ topLevelDone' = (topLevelDone \/ u = TOP)
    BY <1>6, Zenon DEF onComplete
  <2> HIDE DEF u
  <2>3. CASE u # TOP
    <3>1. topLevelDone' = topLevelDone
      <4>1. topLevelDone \in BOOLEAN
        BY DEF Typed
      <4> QED
        BY <2>2, <2>3, <4>1, Zenon
    <3> QED
      BY <1>2, <2>1, <2>2, <2>3, <3>1, Zenon
  <2>4. CASE u = TOP
    <3>1. state'[TOP] = "done"
      BY <1>t, <2>2, <2>4, OneChanges, Zenon
    <3>2. topLevelDone' = TRUE
      BY <2>2, <2>4, Zenon
    <3>3. "done" # "failed"
      OBVIOUS
    <3> QED
      BY <3>1, <3>2, <3>3, Zenon DEF Top
  <2> QED
    BY <2>3, <2>4, Zenon
<1>7. CASE onFailTask
  BY <1>2, <1>5, <1>7, Zenon DEF onFailTask
<1>8. CASE onFailTop
  <2>1. /\ state' = [state EXCEPT ![TOP] = "failed"] /\ topLevelDone' = topLevelDone
        /\ state[TOP] \in {"new", "running"}
        /\ settled' = IF settled = "no" THEN "topFailed" ELSE settled
    BY <1>5, <1>8, Zenon DEF onFailTop
  <2>2. state'[TOP] = "failed"
    BY <1>t, <2>1, OneChanges, Zenon
  <2>3. topLevelDone' = FALSE
    BY <1>l, <2>1, Zenon
  <2>4. settled' # "no" /\ "failed" # "done"
    BY <2>1
  <2> QED
    BY <2>2, <2>3, <2>4, Zenon DEF Top
<1> QED
  BY <1>1, <1>3, <1>4, <1>6, <1>7, <1>8, StateKept, Zenon

LEMMA TopInit == Init => Top /\ Hang
<1> SUFFICES ASSUME Init PROVE Top /\ Hang
  OBVIOUS
<1>1. TOP \in Ids
  BY BoundsAssumption DEF TOP, Ids
<1>2. state[TOP] = "running" /\ exec # None
  BY <1>1 DEF Init, TOP, None
<1>3. topLevelDone = FALSE
  BY Zenon DEF Init
<1>4. "running" # "done" /\ "running" # "failed"
  OBVIOUS
<1> QED
  BY <1>2, <1>3, <1>4, Zenon DEF Top, Hang, Quiet

LEMMA TopStutter == Top /\ Hang /\ UNCHANGED vars => Top' /\ Hang'
BY Zenon DEF Top, Hang, Quiet, vars, taskVars, hostVars, loopVars

LEMMA TopInvariant == Spec => [](Top /\ Hang)
<1>1. Typed /\ Typed' /\ Account /\ Account' /\ (Top /\ Hang) /\ [Next]_vars => (Top /\ Hang)'
  BY TopNext, HangNext, TopStutter, Zenon DEF Hang
<1> QED
  BY <1>1, TopInit, AccountInvariant, PTL DEF Spec

\* runWasmBytesAsync waits for s.done (runtime.mjs:1688): for every program,
\* every number of tasks and channels and both kinds of host calls, when no work
\* is left that could put a stack back on the thread the promise is settled; the
\* last event has called schedule(), and the counters that checkQuiescence
\* (runtime.mjs:826-851) reads are exact.
THEOREM NoSilentHangHolds == Spec => []NoSilentHang
<1>1. Hang => NoSilentHang
  BY Zenon DEF Hang, NoSilentHang
<1> QED
  BY <1>1, TopInvariant, PTL

-----------------------------------------------------------------------------
(* DeadlockIsReal and DrainedBeforeExit.                                   *)

\* wakeChannelWaiter only adds to the run queue.
LEMMA WakesKeep ==
    ASSUME Typed, NEW W, NEW ws \in Seq(W), wakeChannelWaiters(ws), runnable' = <<>>
    PROVE  runnable = <<>>
<1> DEFINE g(i) == ResumeEntry(ws[i], DirectHops, FALSE)
           f == [i \in DOMAIN ws |-> g(i)]
           R == {g(i) : i \in DOMAIN ws}
<1>1. runnable' = runnable \o f /\ runnable \in Seq(EntryType)
  BY Zenon DEF wakeChannelWaiters, Typed
<1>2. DOMAIN ws = 1..Len(ws) /\ Len(ws) \in Nat
  OBVIOUS
<1> HIDE DEF g
<1>3. f \in [1..Len(ws) -> R]
  BY <1>2
<1> HIDE DEF f, R
<1>4. f \in Seq(R)
  BY <1>2, <1>3, FunctionSeq, Zenon
<1>5. \A a \in Seq(EntryType), b \in Seq(R) : a \o b = <<>> => a = <<>>
  OBVIOUS
<1> QED
  BY <1>1, <1>4, <1>5, Zenon

LEMMA AppendSome ==
    ASSUME NEW S, NEW q \in Seq(S), NEW e
    PROVE  Append(q, e) # <<>>
<1>1. q \in Seq(S \cup {e}) /\ e \in S \cup {e}
  OBVIOUS
<1>2. \A T : \A p \in Seq(T), x \in T : Append(p, x) # <<>>
  OBVIOUS
<1> QED
  BY <1>1, <1>2, Zenon

\* The calls of a stack take nothing from the run queue.
LEMMA CallsKeep ==
    ASSUME Typed, Parks \/ Calls, runnable' = <<>>
    PROVE  runnable = <<>> /\ ~taskCreate
<1>1. \A e : Append(runnable, e) # <<>>
  <2>1. runnable \in Seq(EntryType)
    BY DEF Typed
  <2> QED
    BY <2>1, AppendSome, Zenon
<1>2. ~taskCreate /\ ~yieldFast
  BY <1>1, Zenon DEF taskCreate, yieldFast
<1>3. ASSUME NEW c \in ChannelIds,
             sendHandoff(c) \/ recvRefill(c) \/ recvRendezvous(c) \/ channelClose(c)
      PROVE  runnable = <<>>
  <2>1. \A a : <<a>> \in Seq({a})
    OBVIOUS
  <2>2. channels[c].recvQ \o channels[c].sendQ \in Seq(WaiterType \cup SenderType)
    <3>1. channels[c].sendQ \in Seq(SenderType) /\ channels[c].recvQ \in Seq(WaiterType)
      BY DEF Typed, ChannelType
    <3>2. \A a \in Seq(SenderType), b \in Seq(WaiterType) : b \o a \in Seq(WaiterType \cup SenderType)
      OBVIOUS
    <3> QED
      BY <3>1, <3>2, Zenon
  <2>3. CASE sendHandoff(c)
    BY <2>1, <2>3, WakesKeep, Zenon DEF sendHandoff
  <2>4. CASE recvRefill(c)
    BY <2>1, <2>4, WakesKeep, Zenon DEF recvRefill
  <2>5. CASE recvRendezvous(c)
    BY <2>1, <2>5, WakesKeep, Zenon DEF recvRendezvous
  <2>6. CASE channelClose(c)
    BY <2>2, <2>6, WakesKeep, Zenon DEF channelClose
  <2> QED
    BY <1>3, <2>3, <2>4, <2>5, <2>6, Zenon
<1>4. CASE Parks
  BY <1>2, <1>4, Zenon
  DEF Parks, awaitParked, yieldHop, hostDeferred, hostImmediate, finish
<1>5. CASE Calls
  <2>1. ChannelHandles \subseteq ChannelIds
    BY HandleType
  <2> QED
    BY <1>2, <1>3, <1>5, <2>1, Zenon
    DEF Calls, awaitSettled, channelNew, sendBuffered, sendParked, recvBuffered, recvParked
<1> QED
  BY <1>2, <1>4, <1>5, Zenon

\* Nothing runs before kick() but the calls of the top level.
LEMMA BeforeKick ==
    ASSUME Typed, Next, kicked' = FALSE
    PROVE  kicked = FALSE /\ (Parks \/ Calls) /\ \A j : ~take(j)
<1>0. TRUE # FALSE
  OBVIOUS
<1>1. ASSUME NEW j PROVE ~take(j)
  BY <1>0, TakeKicked, Zenon
<1>2. ~kick
  BY <1>0, Zenon DEF kick
<1>3. ~Microtask
  BY <1>1, <1>2, Zenon
  DEF Microtask, runStart, runResume, hop, continueStack, unwindStack, onComplete, onFailTop,
      onFailTask, hostHandler
<1>4. ~TimerFires /\ ~HostSettles
  <2>1. \A w, th : (hostDone(w, th) => kicked' = kicked) /\ (Idle => kicked)
    BY Zenon DEF hostDone, Idle
  <2>2. kicked \in BOOLEAN
    BY DEF Typed
  <2> QED
    BY <1>0, <2>1, <2>2, Zenon DEF TimerFires, HostSettles, timerFire, hostSettle
<1>5. Parks \/ Calls
  BY <1>3, <1>4, Zenon DEF Next
<1>6. guest
  BY <1>5, Zenon
  DEF Parks, Calls, awaitParked, yieldFast, yieldHop, hostDeferred, hostImmediate,
      finish, taskCreate, awaitSettled, channelNew, sendHandoff, sendBuffered, sendParked,
      recvBuffered, recvRefill, recvRendezvous, recvParked, channelClose, canSend
<1> QED
  BY <1>1, <1>5, <1>6, GuestType, Zenon

LEMMA EarlyKept ==
    ASSUME Typed, Early, Next
    PROVE  Early'
<1> SUFFICES ASSUME kicked' = FALSE, runnable' = <<>>
             PROVE  \A t \in Ids : t # TOP => state'[t] = "absent"
  BY Zenon DEF Early
<1>1. kicked = FALSE /\ (Parks \/ Calls) /\ \A j : ~take(j)
  BY BeforeKick, Zenon
<1>2. runnable = <<>> /\ ~taskCreate
  BY <1>1, CallsKeep, Zenon
<1>3. state' = state
  BY <1>1, <1>2, StateKept, Zenon DEF runStart, onComplete, onFailTop, onFailTask
<1> QED
  BY <1>1, <1>2, <1>3, Zenon DEF Early

\* A top level that has ended before kick() and has started nothing.
LEMMA EarlyEnd ==
    ASSUME Typed, Account, Top, Token, Early, Settling, kicked = FALSE, runnable = <<>>
    PROVE  blockedOnTask = 0 /\ blockedOnChannel = 0 /\ topLevelDone = FALSE
<1>1. PICK u \in Ids, th \in BOOLEAN : micro = <<SettleJob(u, th)>>
  BY Zenon DEF Settling
<1>2. Count(micro, u) = 1
  <2>1. micro = Append(<<>>, SettleJob(u, th))
    BY <1>1, Singletons, Zenon
  <2>2. SettleJob(u, th) \in JobType /\ <<>> \in Seq(JobType)
    BY JobTypes
  <2>3. Count(micro, u) = Count(<<>>, u) + Own(SettleJob(u, th), u)
    BY <2>1, <2>2, CountAppend, Zenon
  <2>4. Own(SettleJob(u, th), u) = 1 /\ Count(<<>>, u) = 0
    BY CountEmpty DEF Own, SettleJob, Job
  <2> QED
    BY <2>3, <2>4
<1>3. ASSUME NEW t \in Ids
      PROVE  Waits(waiters, t) = 0 /\ Sends(channels, t) = 0 /\ Recvs(channels, t) = 0
  <2>1. /\ Thread(exec, t) \in Nat /\ Count(micro, t) \in Nat /\ Count(runnable, t) \in Nat
        /\ Hosted(timers, t) \in Nat /\ Hosted(hosts, t) \in Nat /\ Waits(waiters, t) \in Nat
        /\ Sends(channels, t) \in Nat /\ Recvs(channels, t) \in Nat
    BY CountTypes, Zenon
  <2>2. Sum(t) = Live(state[t])
    BY Zenon DEF Account, EachOnce
  <2>3. CASE t = u
    <3>1. Count(micro, t) = 1
      BY <1>2, <2>3, Zenon
    <3>2. Live(state[t]) <= 1 /\ Live(state[t]) \in Nat
      BY DEF Live
    <3> QED
      BY <2>1, <2>2, <3>1, <3>2 DEF Sum
  <2>4. CASE t # u
    <3>1. state[u] \in {"new", "running"}
      <4>1. Count(micro, u) # 0
        BY <1>2
      <4> QED
        BY <4>1, QueuedLive, Zenon
    <3>2. u = TOP
      <4>1. "absent" \notin {"new", "running"}
        OBVIOUS
      <4> QED
        BY <3>1, <4>1, Zenon DEF Early
    <3>3. state[t] = "absent"
      BY <2>4, <3>2, Zenon DEF Early
    <3>4. Live(state[t]) = 0
      BY <3>3 DEF Live
    <3> QED
      BY <2>1, <2>2, <3>4, SMTT(30) DEF Sum
  <2> QED
    BY <2>3, <2>4
<1>4. \A k \in Ids : waiters[k] = <<>>
  BY <1>3, QueueTypes, IndexFinite, NoOwners, Zenon DEF Waits
<1>5. \A c \in ChannelIds : SendQs(channels)[c] = <<>>
  BY <1>3, QueueTypes, IndexFinite, NoOwners, Zenon DEF Sends
<1>6. \A c \in ChannelIds : RecvQs(channels)[c] = <<>>
  BY <1>3, QueueTypes, IndexFinite, NoOwners, Zenon DEF Recvs
<1>7. \A c \in ChannelIds : ParkedQs(channels)[c] = <<>>
  <2>1. \A c \in ChannelIds : ParkedQs(channels)[c] = SendQs(channels)[c] \o RecvQs(channels)[c]
    BY DEF SendQs, RecvQs, ParkedQs
  <2>2. <<>> \o <<>> = <<>>
    OBVIOUS
  <2> QED
    BY <1>5, <1>6, <2>1, <2>2, Zenon
<1>8. Awaiting(waiters) = 0 /\ Parked(channels) = 0
  BY <1>4, <1>7, FamilyNone, Zenon DEF Awaiting, Parked
<1>9. topLevelDone = FALSE
  <2>1. TOP \in Ids
    BY BoundsAssumption DEF TOP, Ids
  <2>2. state[TOP] # "done" /\ topLevelDone \in BOOLEAN
    BY <2>1, Zenon DEF Token, Typed
  <2> QED
    BY <2>2, Zenon DEF Top
<1> QED
  BY <1>8, <1>9, Zenon DEF Account, Counted

\* The outcomes that checkQuiescence decides.
Outcome == settled = "deadlock" \/ settled = "resolved"

Ended == DeadlockIsReal /\ DrainedBeforeExit

\* checkQuiescence decides when no stack is on the thread and no microtask is
\* queued; or a top level that ended before kick() is still to be settled.
LEMMA Deciding ==
    ASSUME Typed, Token, ~ImmediateHosts, Next, settled = "no", Outcome'
    PROVE  /\ checkQuiescence /\ exec' = None /\ runnable' = <<>>
           /\ micro' = <<>> \/ (kick /\ Settling)
<1>o. settled' # settled /\ settled' # "topFailed"
  BY DEF Outcome
<1>s. ASSUME NEW m, schedule(m)
      PROVE  checkQuiescence /\ runnable' = <<>> /\ micro' = m /\ pumping = FALSE
  <2>1. pumping \in BOOLEAN
    BY DEF Typed
  <2> QED
    BY <1>o, <1>s, <2>1, Zenon DEF schedule
<1>u. ASSUME guest, suspend
      PROVE  checkQuiescence /\ exec' = None /\ runnable' = <<>> /\ micro' = <<>>
  BY <1>u, <1>s, GuestToken, Zenon DEF suspend, Running
<1>g. ASSUME stay PROVE FALSE
  BY <1>g, <1>o, StayType, Zenon
<1>1. CASE Parks
  <2>1. ASSUME NEW th \in BOOLEAN PROVE ~hostImmediate(th) /\ ~finish(th)
    BY <1>o, Zenon DEF hostImmediate, finish
  <2>2. ~yieldHop
    BY <1>o, Zenon DEF yieldHop
  <2> QED
    BY <1>1, <1>u, <2>1, <2>2, Zenon DEF Parks, awaitParked, yieldFast, hostDeferred
<1>2. CASE Calls
  <2>1. ASSUME NEW tid, NEW tm PROVE ~awaitSettled(tid, tm)
    BY <1>o, Zenon DEF awaitSettled
  <2> QED
    BY <1>2, <1>g, <1>u, <2>1, Zenon
    DEF Calls, taskCreate, channelNew, sendHandoff, sendBuffered, sendParked, canSend,
        recvBuffered, recvRefill, recvRendezvous, recvParked, channelClose
<1>3. CASE Microtask
  <2>1. CASE kick
    <3>1. exec = None /\ exec' = None /\ kicked = FALSE /\ schedule(micro)
      BY <2>1, Zenon DEF kick, Typed
    <3>2. checkQuiescence /\ runnable' = <<>> /\ micro' = micro /\ pumping = FALSE
      BY <1>s, <3>1
    <3>3. Waiting \/ Settling
      <4>1. FALSE # TRUE
        OBVIOUS
      <4> QED
        BY <3>1, <3>2, <4>1, Zenon DEF Token, Running, Pumped, Resuming, SettlingPumped
    <3> QED
      BY <2>1, <3>1, <3>2, <3>3, Zenon DEF Waiting
  <2>2. CASE onComplete \/ onFailTask
    <3>1. take("settle") /\ schedule(Tail(micro)) /\ exec' = exec
      BY <2>2, Zenon DEF onComplete, onFailTask
    <3>2. checkQuiescence /\ runnable' = <<>> /\ micro' = Tail(micro) /\ pumping = FALSE
      BY <1>s, <3>1
    <3>3. Tail(micro) = <<>>
      <4>1. FALSE # TRUE
        OBVIOUS
      <4> QED
        BY <3>1, <3>2, <4>1, TakeWho, Zenon DEF SettlingPumped
    <3>4. exec' = None
      BY <3>1, TakeKicked, Zenon
    <3> QED
      BY <3>2, <3>3, <3>4, Zenon
  <2>3. ~hostHandler
    BY TakeWho, Zenon DEF hostHandler
  <2>4. ~onFailTop
    <3>1. onFailTop => settled' = IF settled = "no" THEN "topFailed" ELSE settled
      BY Zenon DEF onFailTop
    <3> QED
      BY <1>o, <3>1, Zenon
  <2>5. ~runStart /\ ~runResume /\ ~hop /\ ~continueStack /\ ~unwindStack
    BY <1>o, Zenon DEF runStart, runResume, hop, continueStack, unwindStack, promiseVars
  <2> QED
    BY <1>3, <2>1, <2>2, <2>3, <2>4, <2>5, Zenon DEF Microtask
<1>4. CASE TimerFires \/ HostSettles
  <2>1. schedule(micro) /\ micro = <<>> /\ exec = None /\ exec' = exec
    BY <1>4, Zenon DEF TimerFires, HostSettles, timerFire, hostSettle, Idle, hostDone
  <2> QED
    BY <1>s, <2>1, Zenon
<1> QED
  BY <1>1, <1>2, <1>3, <1>4, Zenon DEF Next

\* What it decides is so.
LEMMA Decided ==
    ASSUME Typed', Account', checkQuiescence, settled = "no", Outcome',
           exec' = None, runnable' = <<>>, micro' = <<>>
    PROVE  Ended'
<1>1. Idling' /\ (Quiet' => Over')
  BY AccountSays, Zenon
<1>2. ~(pendingHost' > 0)
  BY Zenon DEF checkQuiescence, Outcome
<1>3. pendingHost' = 0
  BY <1>1, <1>2 DEF Idling
<1>4. Quiet'
  BY <1>1, <1>3, Zenon DEF Idling, Quiet
<1>5. ASSUME settled' = "resolved"
      PROVE  /\ ~(blockedOnTask' > 0) /\ ~(blockedOnChannel' > 0)
             /\ ~\E t \in Ids : state'[t] = "failed" /\ ~awaited'[t]
  <2>1. "resolved" \notin {"deadlock", "no", "unawaited"}
    OBVIOUS
  <2> QED
    BY <1>2, <1>5, <2>1, Zenon DEF checkQuiescence
<1>6. ASSUME settled' = "resolved", NEW t \in Ids
      PROVE  state'[t] \in {"absent", "done"} \/ (state'[t] = "failed" /\ awaited'[t])
  <2>1. blockedOnTask' = 0 /\ blockedOnChannel' = 0
    BY <1>1, <1>5, <1>6 DEF Idling
  <2>2. state'[t] \notin {"new", "running"}
    BY <1>1, <1>4, <2>1, Zenon DEF Over
  <2>3. state'[t] \in {"absent", "new", "running", "done", "failed"}
    BY DEF Typed
  <2> QED
    BY <1>5, <1>6, <2>2, <2>3, Zenon
<1> QED
  BY <1>4, <1>6, Zenon DEF Ended, DeadlockIsReal, DrainedBeforeExit

\* A quiet scheduler stays so: only kick() may still be due.
LEMMA QuietStays ==
    ASSUME Typed, Account, Quiet, Next
    PROVE  Quiet' /\ state' = state /\ awaited' = awaited
<1>1. exec = None /\ micro = <<>> /\ runnable = <<>> /\ timers = {} /\ hosts = {}
  BY Zenon DEF Quiet
<1>2. pumping = FALSE
  BY QuietOver, Zenon DEF Over
<1>3. ~guest /\ \A j : ~take(j)
  BY <1>1, Zenon DEF guest, take
<1>4. ~Parks /\ ~Calls
  BY <1>3, Zenon
  DEF Parks, Calls, awaitParked, yieldFast, yieldHop, hostDeferred, hostImmediate,
      finish, taskCreate, awaitSettled, channelNew, sendHandoff, sendBuffered, sendParked,
      recvBuffered, recvRefill, recvRendezvous, recvParked, channelClose, canSend
<1>5. ~TimerFires /\ ~HostSettles
  BY <1>1, Zenon DEF TimerFires, HostSettles
<1>6. kick
  BY <1>3, <1>4, <1>5, Zenon
  DEF Next, Microtask, runStart, runResume, hop, continueStack, unwindStack, onComplete,
      onFailTop, onFailTask, hostHandler
<1>7. /\ exec' = exec /\ runnable' = runnable /\ timers' = timers /\ hosts' = hosts
      /\ state' = state /\ awaited' = awaited /\ schedule(micro)
  BY <1>6, Zenon DEF kick, taskVars, hostVars
<1>8. micro' = micro
  BY <1>1, <1>2, <1>7, Zenon DEF schedule
<1> QED
  BY <1>1, <1>7, <1>8, Zenon DEF Quiet

LEMMA EndedNext ==
    ASSUME Typed, Typed', Account, Account', Top, Token, Early, Ended, ~ImmediateHosts, Next
    PROVE  Ended'
<1>1. CASE ~Outcome'
  BY <1>1, Zenon DEF Outcome, Ended, DeadlockIsReal, DrainedBeforeExit
<1>2. CASE Outcome' /\ settled = "no"
  <2>1. /\ checkQuiescence /\ exec' = None /\ runnable' = <<>>
        /\ micro' = <<>> \/ (kick /\ Settling)
    BY <1>2, Deciding
  <2>2. CASE micro' = <<>>
    BY <1>2, <2>1, <2>2, Decided, Zenon
  <2>3. CASE kick /\ Settling
    <3>1. /\ kicked = FALSE /\ runnable' = runnable /\ topLevelDone' = topLevelDone
          /\ blockedOnTask' = blockedOnTask /\ blockedOnChannel' = blockedOnChannel
      BY <2>3, Zenon DEF kick, taskVars, chanVars, Typed
    <3>2. blockedOnTask' = 0 /\ blockedOnChannel' = 0 /\ topLevelDone' = FALSE
      BY <2>1, <2>3, <3>1, EarlyEnd, Zenon
    <3>3. ~(blockedOnTask' > 0) /\ ~(blockedOnChannel' > 0)
      BY <3>2
    <3>4. settled' = "no"
      BY <1>2, <2>1, <3>2, <3>3, Zenon DEF checkQuiescence
    <3> QED
      BY <1>2, <3>4 DEF Outcome
  <2> QED
    BY <2>1, <2>2, <2>3, Zenon
<1>3. CASE Outcome' /\ settled # "no"
  <2>1. settled' = settled
    BY <1>3, SettledKept
  <2>2. Quiet
    BY <1>3, <2>1, Zenon DEF Outcome, Ended, DeadlockIsReal, DrainedBeforeExit
  <2>3. Quiet' /\ state' = state /\ awaited' = awaited
    BY <2>2, QuietStays
  <2> QED
    BY <2>1, <2>3, Zenon DEF Ended, DeadlockIsReal, DrainedBeforeExit
<1> QED
  BY <1>1, <1>2, <1>3, Zenon

LEMMA EndedInit == Init => Early /\ Ended
<1> SUFFICES ASSUME Init PROVE Early /\ Ended
  OBVIOUS
<1>1. settled = "no" /\ \A t \in Ids : t # TOP => state[t] = "absent"
  BY DEF Init
<1>2. "no" # "deadlock" /\ "no" # "resolved"
  OBVIOUS
<1> QED
  BY <1>1, <1>2, Zenon DEF Early, Ended, DeadlockIsReal, DrainedBeforeExit

LEMMA EndedStutter == Early /\ Ended /\ UNCHANGED vars => Early' /\ Ended'
BY Zenon DEF Early, Ended, DeadlockIsReal, DrainedBeforeExit, Quiet, vars, taskVars, hostVars, loopVars

LEMMA EndedInvariant ==
    ASSUME ~ImmediateHosts
    PROVE  Spec => [](Early /\ Ended)
<1>1. Typed /\ Typed' /\ Account /\ Account' /\ Top /\ Token /\ (Early /\ Ended) /\ [Next]_vars
         => (Early /\ Ended)'
  BY EarlyKept, EndedNext, EndedStutter, Zenon
<1>2. Spec => [](Token /\ Labels)
  BY TokenInvariant
<1> QED
  BY <1>1, <1>2, EndedInit, AccountInvariant, TopInvariant, PTL DEF Spec

\* "remaining tasks are all blocked" (runtime.mjs:834-836), for every program
\* whose host calls complete as later events: when checkQuiescence reports a
\* deadlock nothing runs, nothing is queued and nothing is with the host, and
\* that stays so.
THEOREM DeadlockIsRealHolds ==
    ASSUME ~ImmediateHosts
    PROVE  Spec => []DeadlockIsReal
<1>1. Ended => DeadlockIsReal
  BY Zenon DEF Ended
<1> QED
  BY <1>1, EndedInvariant, PTL

\* "drain spawned-but-unawaited tasks before exit" (runtime.mjs:922), for every
\* program whose host calls complete as later events: the promise of the
\* program resolves only when every task has ended, and when no task failed
\* that nobody awaited (runtime.mjs:844-850).
THEOREM DrainedBeforeExitHolds ==
    ASSUME ~ImmediateHosts
    PROVE  Spec => []DrainedBeforeExit
<1>1. Ended => DrainedBeforeExit
  BY Zenon DEF Ended
<1> QED
  BY <1>1, EndedInvariant, PTL
=============================================================================
