------------------------ MODULE PollerServiceProofs ------------------------
(***************************************************************************)
(* Proofs about PollerService for any workers, hosts, devices and times:   *)
(* type correctness, mutual exclusion of workers that do not share a       *)
(* session, and, whatever they share and whichever connections break, that *)
(* no lock is left behind.                                                 *)
(***************************************************************************)
EXTENDS PollerService, FiniteSetTheorems, TLAPS

USE WorkerAssumption, TimeAssumption

LEMMA ConnType ==
    ASSUME TypeOK, NEW w \in Worker
    PROVE  Conn(w) \in Session /\ HostOf[w] \in Host
  BY DEF TypeOK, Conn

\* What the two lock functions leave of the type of lock.
LEMMA AcquireType ==
    ASSUME TypeOK, NEW s \in Session, NEW l \in Lock, Acquire(s, l)
    PROVE  lock' \in [Lock -> LockType]
  BY DEF TypeOK, Acquire, LockType

LEMMA ReleaseType ==
    ASSUME TypeOK, NEW s \in Session, NEW l \in Lock, Release(s, l)
    PROVE  lock' \in [Lock -> LockType]
  <1>1. lock[l] \in LockType
    BY DEF TypeOK
  <1>2. (IF lock[l].n > 2 THEN [by |-> s, n |-> lock[l].n - 2] ELSE Free) \in LockType
    BY <1>1 DEF LockType, Free
  <1>3. CASE lock[l].by = s
    <2>1. lock' = [lock EXCEPT ![l] = IF lock[l].n > 2
                                      THEN [by |-> s, n |-> lock[l].n - 2] ELSE Free]
      BY <1>3 DEF Release, TypeOK
    <2> QED
      BY <1>2, <2>1 DEF TypeOK
  <1>4. CASE lock[l].by # s
    BY <1>4 DEF Release, TypeOK
  <1> QED
    BY <1>3, <1>4

LEMMA WithoutType ==
    ASSUME TypeOK, NEW s \in Session
    PROVE  LocksWithout(s) \in [Lock -> LockType]
  BY DEF TypeOK, LocksWithout, LockType, Free

LEMMA LocksAre ==
    ASSUME TypeOK, NEW w \in Worker
    PROVE  QueueLock(w) \in Lock /\ ActionLock(w) \in Lock
  BY DEF TypeOK, WorkerType, QueueLock, ActionLock, Lock

LEMMA IdleType == Idle \in WorkerType
  <1>1. (CHOOSE d \in Device : TRUE) \in Device
    OBVIOUS
  <1> QED
    BY <1>1 DEF Idle, WorkerType

\* Going on to another step disturbs nothing but pc.
LEMMA GotoType ==
    ASSUME TypeOK, NEW w \in Worker,
           NEW pc \in {"start", "query", "queue", "sleep", "attempt", "lock",
                       "giveup", "refused", "unqueue", "check", "run", "unlock", "dead"},
           Goto(w, pc)
    PROVE  worker' \in [Worker -> WorkerType]
  <1>1. [worker[w] EXCEPT !.pc = pc] \in WorkerType
    BY DEF TypeOK, WorkerType
  <1>2. worker' = [worker EXCEPT ![w] = [worker[w] EXCEPT !.pc = pc]]
    BY DEF Goto, TypeOK
  <1> QED
    BY <1>1, <1>2 DEF TypeOK

LEMMA IdlesType ==
    ASSUME TypeOK, NEW w \in Worker, worker' = [worker EXCEPT ![w] = Idle]
    PROVE  worker' \in [Worker -> WorkerType]
  BY IdleType DEF TypeOK

LEMMA LeftType ==
    ASSUME NEW due \in Nat, NEW age \in Nat
    PROVE  Left(due, age) \in 0..due
  BY DEF Left

LEMMA InitType == Init => TypeOK
  <1> SUFFICES ASSUME Init PROVE TypeOK
    OBVIOUS
  <1>1. db \in [Host -> Session]
    BY DEF Init, Session
  <1>2. lock \in [Lock -> LockType]
    BY DEF Init, Free, LockType
  <1>3. devices \in [Device -> DeviceType]
    BY DEF Init, New, DeviceType
  <1>5. lost \in [Host -> BOOLEAN]
    BY DEF Init
  <1>4. worker \in [Worker -> WorkerType]
    <2>1. [Idle EXCEPT !.pc = "start"] \in WorkerType
      BY IdleType DEF WorkerType
    <2> QED
      BY <2>1 DEF Init
  <1> QED
    BY <1>1, <1>2, <1>3, <1>4, <1>5 DEF TypeOK
-----------------------------------------------------------------------------
(***************************************************************************)
(* Type correctness.                                                       *)
(***************************************************************************)
LEMMA ConnectType ==
    ASSUME TypeOK, NEW w \in Worker, Connect(w)
    PROVE  TypeOK'
  <1>1. HostOf[w] \in Host
    BY ConnType
  <1>2. db' \in [Host -> Session]
    BY DEF TypeOK, Connect, Session
  <1>3. lock' \in [Lock -> LockType]
    BY WithoutType DEF TypeOK, Connect, Session
  <1>4. worker' \in [Worker -> WorkerType]
    BY GotoType DEF Connect
  <1>5. lost' \in [Host -> BOOLEAN]
    BY DEF TypeOK, Connect
  <1> QED
    BY <1>2, <1>3, <1>4, <1>5 DEF TypeOK, Connect

LEMMA StepType ==
    ASSUME TypeOK, NEW w \in Worker, Step(w), lost' = lost
    PROVE  TypeOK'
  <1> USE LocksAre, ConnType
  <1>2. CASE Query(w)
    <2>1. PICK d \in Oldest : worker' = [worker EXCEPT ![w] =
            [Idle EXCEPT !.pc = "queue", !.dev = d, !.up = devices[d].up,
                         !.wait = Left(PollFreq, devices[d].polled),
                         !.disc = Left(DiscFreq + 1, devices[d].discovered)]]
      BY <1>2 DEF Query
    <2>2. d \in Device /\ devices[d] \in DeviceType
      BY DEF Oldest, TypeOK
    <2>3. /\ Left(PollFreq, devices[d].polled) \in 0..PollFreq
          /\ Left(DiscFreq + 1, devices[d].discovered) \in 0..(DiscFreq + 1)
      <3>1. devices[d].polled \in Nat /\ devices[d].discovered \in Nat
        BY <2>2 DEF DeviceType
      <3>2. DiscFreq + 1 \in Nat
        OBVIOUS
      <3> QED
        BY <3>1, <3>2, LeftType
    <2>4. [Idle EXCEPT !.pc = "queue", !.dev = d, !.up = devices[d].up,
                       !.wait = Left(PollFreq, devices[d].polled),
                       !.disc = Left(DiscFreq + 1, devices[d].discovered)]
            \in WorkerType
      BY <2>2, <2>3, IdleType DEF WorkerType, DeviceType
    <2>5. worker' \in [Worker -> WorkerType]
      BY <2>1, <2>4 DEF TypeOK
    <2> QED
      BY <1>2, <2>5 DEF TypeOK, Query
  <1>3. CASE LockQueue(w)
    <2>1. lock' \in [Lock -> LockType]
      BY <1>3, AcquireType DEF LockQueue, TypeOK
    <2>2. worker' \in [Worker -> WorkerType]
      BY <1>3, GotoType, IdlesType DEF LockQueue
    <2> QED
      BY <1>3, <2>1, <2>2 DEF TypeOK, LockQueue
  <1>4. CASE Wake(w)
    <2> DEFINE act == IF worker[w].disc = 0 /\ worker[w].up THEN "discovery" ELSE "poll"
    <2>1. [worker[w] EXCEPT !.pc = "attempt", !.act = act] \in WorkerType
      <3>1. worker[w] \in WorkerType
        BY DEF TypeOK
      <3> QED
        BY <3>1 DEF WorkerType
    <2>2. worker' = [worker EXCEPT ![w] =
                        [worker[w] EXCEPT !.pc = "attempt", !.act = act]]
      BY <1>4 DEF Wake, TypeOK
    <2> QED
      BY <1>4, <2>1, <2>2 DEF TypeOK, Wake
  <1>5. CASE Attempt(w)
    <2>1. devices' \in [Device -> DeviceType]
      BY <1>5 DEF TypeOK, Attempt, DeviceType, WorkerType
    <2> QED
      BY <1>5, <2>1, GotoType DEF TypeOK, Attempt
  <1>6. CASE LockAction(w)
    <2>1. lock' \in [Lock -> LockType]
      BY <1>6, AcquireType DEF LockAction, TypeOK
    <2>2. worker' \in [Worker -> WorkerType]
      BY <1>6, GotoType DEF LockAction
    <2> QED
      BY <1>6, <2>1, <2>2 DEF TypeOK, LockAction
  <1>7. CASE GiveUp(w)
    BY <1>7, ReleaseType, GotoType DEF TypeOK, GiveUp
  <1>r. CASE Refused(w)
    BY <1>r, ReleaseType, IdlesType DEF TypeOK, Refused
  <1>8. CASE Begin(w)
    <2> DEFINE up == devices[worker[w].dev].up
    <2>1. [worker[w] EXCEPT !.pc = "check", !.run = 0, !.up = up] \in WorkerType
      <3>1. worker[w] \in WorkerType /\ up \in BOOLEAN
        BY DEF TypeOK, WorkerType, DeviceType
      <3> QED
        BY <3>1 DEF WorkerType
    <2>2. worker' = [worker EXCEPT ![w] = 
                    [worker[w] EXCEPT !.pc = "check", !.run = 0, !.up = up]]
      BY <1>8 DEF Begin, TypeOK
    <2>3. worker' \in [Worker -> WorkerType]
      BY <2>1, <2>2 DEF TypeOK
    <2> QED
      BY <1>8, <2>3, ReleaseType DEF TypeOK, Begin
  <1>9. CASE Check(w)
    <2> DEFINE d == worker[w].dev
    <2>1. PICK up \in BOOLEAN :
            /\ devices' = devices \/ devices' = [devices EXCEPT ![d].up = up]
            /\ worker' = [worker EXCEPT ![w].pc = "run", ![w].up = up]
      BY <1>9 DEF Check
    <2>2. devices' \in [Device -> DeviceType]
      BY <2>1 DEF TypeOK, DeviceType
    <2>3. [worker[w] EXCEPT !.pc = "run", !.up = up] \in WorkerType
      <3>1. worker[w] \in WorkerType
        BY DEF TypeOK
      <3> QED
        BY <3>1 DEF WorkerType
    <2>4. worker' = [worker EXCEPT ![w] = [worker[w] EXCEPT !.pc = "run", !.up = up]]
      BY <2>1 DEF TypeOK
    <2>5. worker' \in [Worker -> WorkerType]
      BY <2>3, <2>4 DEF TypeOK
    <2> QED
      BY <1>9, <2>2, <2>5 DEF TypeOK, Check
  <1>10. CASE Finish(w)
    <2>1. worker[w].dev \in Device /\ worker[w].run \in Nat
      BY DEF TypeOK, WorkerType
    <2>2. Stored(w) \in [Device -> DeviceType]
      BY <2>1 DEF TypeOK, Stored, DeviceType
    <2>3. devices' \in [Device -> DeviceType]
      BY <1>10, <2>2 DEF TypeOK, Finish
    <2> QED
      BY <1>10, <2>3, GotoType DEF TypeOK, Finish
  <1>11. CASE Unlock(w)
    BY <1>11, ReleaseType, IdlesType DEF TypeOK, Unlock
  <1> QED
    BY <1>2, <1>3, <1>4, <1>5, <1>6, <1>7, <1>r, <1>8, <1>9, <1>10, <1>11 DEF Step

LEMMA DieType ==
    ASSUME TypeOK, NEW w \in Worker, Die(w)
    PROVE  TypeOK'
  <1>1. lock' \in [Lock -> LockType]
    BY AcquireType, LocksAre, ConnType DEF TypeOK, Die, FirstQuery
  <1>2. devices' \in [Device -> DeviceType]
    BY SMTT(30) DEF TypeOK, Die, FirstQuery, DeviceType, WorkerType
  <1>3. worker' \in [Worker -> WorkerType]
    BY GotoType DEF Die
  <1>4. lost' \in [Host -> BOOLEAN]
    BY ConnType DEF TypeOK, Die
  <1> QED
    BY <1>1, <1>2, <1>3, <1>4 DEF TypeOK, Die

LEMMA RestartType ==
    ASSUME TypeOK, NEW h \in Host, Restart(h)
    PROVE  TypeOK'
  <1>1. db' \in [Host -> Session]
    BY DEF TypeOK, Restart, Session
  <1>2. lock' \in [Lock -> LockType]
    BY WithoutType DEF TypeOK, Restart
  <1>3. [Idle EXCEPT !.pc = "start"] \in WorkerType
    BY IdleType DEF WorkerType
  <1>4. worker' \in [Worker -> WorkerType]
    BY <1>3 DEF TypeOK, Restart
  <1>5. lost' \in [Host -> BOOLEAN]
    BY DEF TypeOK, Restart
  <1> QED
    BY <1>1, <1>2, <1>4, <1>5 DEF TypeOK, Restart

LEMMA TickType ==
    ASSUME TypeOK, Tick
    PROVE  TypeOK'
  <1>1. devices' \in [Device -> DeviceType]
    <2>1. ASSUME NEW d \in Device
          PROVE  [devices[d] EXCEPT !.polled = Older(@, Horizon),
                    !.discovered = Older(@, DiscFreq + 1),
                    !.tried = Older(@, DownRetry + 1)] \in DeviceType
      <3>1. devices[d] \in DeviceType
        BY DEF TypeOK
      <3>2. /\ Older(devices[d].polled, Horizon) \in 0..Horizon
            /\ Older(devices[d].discovered, DiscFreq + 1) \in 0..(DiscFreq + 1)
            /\ Older(devices[d].tried, DownRetry + 1) \in 0..(DownRetry + 1)
        BY <3>1 DEF DeviceType, Older
      <3> QED
        BY <3>1, <3>2 DEF DeviceType
    <2> QED
      BY <2>1 DEF Tick
  <1>2. ASSUME NEW w \in Worker
        PROVE  [worker[w] EXCEPT !.wait = Left(@, 1), !.disc = Left(@, 1),
                    !.run = IF worker[w].pc = "run" THEN @ + 1 ELSE @] \in WorkerType
    <2>1. worker[w] \in WorkerType
      BY DEF TypeOK
    <2>2. Left(worker[w].wait, 1) \in 0..PollFreq
      BY <2>1 DEF WorkerType, Left
    <2>3. Left(worker[w].disc, 1) \in 0..(DiscFreq + 1)
      BY <2>1 DEF WorkerType, Left
    <2>4. (IF worker[w].pc = "run" THEN worker[w].run + 1 ELSE worker[w].run) \in Nat
      BY <2>1 DEF WorkerType
    <2> QED
      BY <2>1, <2>2, <2>3, <2>4 DEF WorkerType
  <1>3. worker' \in [Worker -> WorkerType]
    BY <1>2 DEF Tick
  <1> QED
    BY <1>1, <1>3 DEF TypeOK, Tick

LEMMA NextType == TypeOK /\ [Next]_vars => TypeOK'
  <1> SUFFICES ASSUME TypeOK, [Next]_vars PROVE TypeOK'
    OBVIOUS
  <1>1. ASSUME NEW h \in Host, LoseConnection(h)
        PROVE  TypeOK'
    BY <1>1, WithoutType DEF TypeOK, LoseConnection
  <1>3. ASSUME NEW h \in Host, Reconnect(h)
        PROVE  TypeOK'
    BY <1>3 DEF TypeOK, Reconnect
  <1>2. CASE UNCHANGED vars
    BY <1>2 DEF TypeOK, vars
  <1> QED
    BY <1>1, <1>2, <1>3, ConnectType, StepType, DieType, RestartType, TickType
       DEF Next, Work

\* Every variable keeps its type: sleeps are never negative, no lock is held
\* a negative number of times (poller-service.py:196-218).
THEOREM TypeCorrect == Spec => []TypeOK
  <1> QED
    BY InitType, NextType, PTL DEF Spec
-----------------------------------------------------------------------------
(***************************************************************************)
(* Mutual exclusion.  It needs sessions that are not shared (one worker    *)
(* per process) and that do not break; TLC shows it fail where two workers *)
(* are threads of one process.  The invariant says which locks a worker    *)
(* holds at each step, and through which session.                          *)
(***************************************************************************)
Private ==
    /\ \A v, w \in Worker : HostOf[v] = HostOf[w] => v = w
    /\ "lose" \notin Ops

Queueing(w) == worker[w].pc \in {"sleep", "attempt", "lock", "giveup", "unqueue"}
Acting(w) == worker[w].pc \in {"unqueue", "check", "run", "unlock"}

NothingLost == \A h \in Host : ~lost[h]
\* A process uses its first connection or that of its worker.
OwnSession ==
    \A h \in Host : db[h] = h \/ (db[h] \in Worker /\ HostOf[db[h]] = h)
\* No session that is in use is dropped by a worker that starts.
StartsFresh ==
    \A w \in Worker : worker[w].pc = "start" => db[HostOf[w]] = HostOf[w]
Holds ==
    \A w \in Worker :
        /\ Queueing(w) => lock[QueueLock(w)].by = Conn(w)
        /\ Acting(w) => lock[ActionLock(w)].by = Conn(w)
Exclusion == TypeOK /\ NothingLost /\ OwnSession /\ StartsFresh /\ Holds

LEMMA ConnInjective ==
    ASSUME Private, OwnSession, TypeOK, NEW v \in Worker, NEW w \in Worker,
           Conn(v) = Conn(w)
    PROVE  v = w
  BY DEF Private, OwnSession, Conn, TypeOK

LEMMA ExclusionMeansOne == Private /\ Exclusion => OneAtATime /\ OneInQueue
  <1> SUFFICES ASSUME Private, Exclusion PROVE OneAtATime /\ OneInQueue
    OBVIOUS
  <1>1. OneAtATime
    <2> SUFFICES ASSUME NEW d \in Device, NEW act \in {"poll", "discovery"},
                        NEW v \in Worker, NEW w \in Worker,
                        Running(v, act, d), Running(w, act, d)
                 PROVE  v = w
      BY DEF OneAtATime
    <2>1. Acting(v) /\ Acting(w) /\ ActionLock(v) = ActionLock(w)
      BY DEF Running, Acting, ActionLock
    <2>2. Conn(v) = Conn(w)
      BY <2>1 DEF Exclusion, Holds
    <2> QED
      BY <2>2, ConnInjective DEF Exclusion
  <1>2. OneInQueue
    <2> SUFFICES ASSUME NEW v \in Worker, NEW w \in Worker,
                        Queueing(v), Queueing(w), worker[v].dev = worker[w].dev
                 PROVE  v = w
      BY DEF OneInQueue, Queueing
    <2>1. QueueLock(v) = QueueLock(w)
      BY DEF QueueLock
    <2>2. Conn(v) = Conn(w)
      BY <2>1 DEF Exclusion, Holds
    <2> QED
      BY <2>2, ConnInjective DEF Exclusion
  <1> QED
    BY <1>1, <1>2

LEMMA InitExclusion == Init => Exclusion
  BY InitType DEF Init, Exclusion, NothingLost, OwnSession, StartsFresh, Holds, Queueing,
                  Acting, Idle

\* A step of v leaves to the others what they hold: it takes no lock that is
\* not free or its own, and gives back only locks of its own session.
LEMMA OthersKeep ==
    ASSUME Private, Exclusion, NEW v \in Worker, NEW w \in Worker, v # w,
           NEW l \in Lock, NEW m \in Lock, lock[m].by = Conn(w),
           \/ lock' = lock
           \/ Acquire(Conn(v), l) /\ Available(Conn(v), l)
           \/ Release(Conn(v), l)
    PROVE  lock'[m].by = Conn(w)
  <1>1. Conn(v) # Conn(w)
    BY ConnInjective DEF Exclusion
  <1>2. Conn(w) \in Session
    BY ConnType DEF Exclusion
  <1>3. CASE lock' = lock
    BY <1>3
  <1>4. CASE Acquire(Conn(v), l) /\ Available(Conn(v), l)
    <2>1. l # m
      BY <1>1, <1>2, <1>4 DEF Available
    <2> QED
      BY <1>4, <2>1 DEF Acquire, Exclusion, TypeOK
  <1>5. CASE Release(Conn(v), l)
    BY <1>1, <1>5 DEF Release, Exclusion, TypeOK
  <1> QED
    BY <1>3, <1>4, <1>5

\* A step of w that changes its own record and one lock keeps the invariant if
\* w holds the locks its new record asks for.
LEMMA LocalStep ==
    ASSUME Private, Exclusion, TypeOK', lost' = lost,
           NEW w \in Worker, NEW l \in Lock, NEW r \in WorkerType,
           worker' = [worker EXCEPT ![w] = r], r.pc # "start", db' = db,
           \/ lock' = lock
           \/ Acquire(Conn(w), l) /\ Available(Conn(w), l)
           \/ Release(Conn(w), l),
           Queueing(w)' => lock'[QueueLock(w)'].by = Conn(w),
           Acting(w)' => lock'[ActionLock(w)'].by = Conn(w)
    PROVE  Exclusion'
  <1>1. OwnSession'
    BY DEF Exclusion, OwnSession
  <1>2. StartsFresh'
    BY DEF Exclusion, StartsFresh, TypeOK
  <1>3. ASSUME NEW u \in Worker
        PROVE  /\ Queueing(u)' => lock'[QueueLock(u)'].by = Conn(u)'
               /\ Acting(u)' => lock'[ActionLock(u)'].by = Conn(u)'
    <2>1. Conn(u)' = Conn(u)
      BY DEF Conn
    <2>2. CASE u = w
      BY <2>1, <2>2
    <2>3. CASE u # w
      <3>1. worker'[u] = worker[u]
        BY <2>3 DEF Exclusion, TypeOK
      <3>2. ASSUME Queueing(u)'
            PROVE  lock'[QueueLock(u)'].by = Conn(u)
        <4>1. QueueLock(u)' = QueueLock(u) /\ lock[QueueLock(u)].by = Conn(u)
          BY <3>1, <3>2 DEF QueueLock, Queueing, Exclusion, Holds
        <4> QED
          BY <2>3, <4>1, OthersKeep, LocksAre DEF Exclusion
      <3>3. ASSUME Acting(u)'
            PROVE  lock'[ActionLock(u)'].by = Conn(u)
        <4>1. ActionLock(u)' = ActionLock(u) /\ lock[ActionLock(u)].by = Conn(u)
          BY <3>1, <3>3 DEF ActionLock, Acting, Exclusion, Holds
        <4> QED
          BY <2>3, <4>1, OthersKeep, LocksAre DEF Exclusion
      <3> QED
        BY <2>1, <3>2, <3>3
    <2> QED
      BY <2>2, <2>3
  <1>4. Holds'
    BY <1>3 DEF Holds
  <1> QED
    BY <1>1, <1>2, <1>4 DEF Exclusion, NothingLost

LEMMA ConnectExclusion ==
    ASSUME Private, Exclusion, TypeOK', NEW w \in Worker, Connect(w)
    PROVE  Exclusion'
  <1>1. /\ worker[w].pc = "start" /\ db[HostOf[w]] = HostOf[w]
        /\ HostOf[w] \in Host /\ HostOf[w] \notin Worker
    BY ConnType DEF Connect, Exclusion, StartsFresh
  <1>2. lock' = lock
    BY <1>1 DEF Connect
  <1>3. db' = db \/ db' = [db EXCEPT ![HostOf[w]] = w]
    BY DEF Connect
  <1>4. worker' = [worker EXCEPT ![w].pc = "query"]
    BY DEF Connect, Goto
  <1>5. ASSUME NEW u \in Worker, u # w
        PROVE  worker'[u] = worker[u] /\ Conn(u)' = Conn(u) /\ HostOf[u] # HostOf[w]
    BY <1>3, <1>4, <1>5 DEF Conn, Private, Exclusion, TypeOK
  <1>6. worker'[w].pc = "query"
    BY <1>4 DEF Exclusion, TypeOK, WorkerType
  <1>7. OwnSession'
    BY <1>3 DEF Exclusion, OwnSession, TypeOK
  <1>8. StartsFresh'
    BY <1>5, <1>6 DEF Exclusion, StartsFresh, Conn
  <1>10. NothingLost'
    BY DEF Connect, Exclusion, NothingLost, TypeOK
  <1>9. ASSUME NEW u \in Worker
        PROVE  /\ Queueing(u)' => lock'[QueueLock(u)'].by = Conn(u)'
               /\ Acting(u)' => lock'[ActionLock(u)'].by = Conn(u)'
    <2>1. CASE u = w
      BY <1>6, <2>1 DEF Queueing, Acting
    <2>2. CASE u # w
      BY <1>2, <1>5, <2>2 DEF Exclusion, Holds, Queueing, Acting, QueueLock, ActionLock
    <2> QED
      BY <2>1, <2>2
  <1> QED
    BY <1>7, <1>8, <1>9, <1>10 DEF Exclusion, Holds

LEMMA StepExclusion ==
    ASSUME Private, Exclusion, TypeOK', NEW w \in Worker, Step(w), lost' = lost
    PROVE  Exclusion'
  <1> DEFINE r == worker'[w]
  <1>1. TypeOK /\ Holds /\ QueueLock(w) \in Lock /\ ActionLock(w) \in Lock
    BY LocksAre DEF Exclusion
  <1>2. r \in WorkerType /\ worker[w] \in WorkerType
    BY <1>1 DEF TypeOK
  <1>3. QueueLock(w) # ActionLock(w)
    BY <1>2 DEF QueueLock, ActionLock, WorkerType
  <1>4. ASSUME NEW pc, Goto(w, pc)
        PROVE  /\ worker' = [worker EXCEPT ![w] = r] /\ r.pc = pc
               /\ QueueLock(w)' = QueueLock(w) /\ ActionLock(w)' = ActionLock(w)
    BY <1>1, <1>2, <1>4 DEF Goto, TypeOK, WorkerType, QueueLock, ActionLock
  <1>5. ASSUME worker' = [worker EXCEPT ![w] = Idle]
        PROVE  worker' = [worker EXCEPT ![w] = r] /\ r.pc = "query"
    BY <1>1, <1>5 DEF TypeOK, Idle
  <1> HIDE DEF r
  <1>q. CASE Query(w)
    <2>1. worker' = [worker EXCEPT ![w] = r] /\ r.pc = "queue"
      BY <1>1, <1>q DEF Query, TypeOK, Idle, r
    <2> QED
      BY <1>1, <1>2, <1>q, <2>1, LocalStep DEF Query, Queueing, Acting, r
  <1>l. CASE LockQueue(w)
    <2>1. CASE Available(Conn(w), QueueLock(w))
      <3>1. Acquire(Conn(w), QueueLock(w)) /\ Goto(w, "sleep")
        BY <1>l, <2>1 DEF LockQueue
      <3>2. lock'[QueueLock(w)].by = Conn(w)
        BY <1>1, <3>1 DEF Acquire, TypeOK
      <3> QED
        BY <1>1, <1>2, <1>4, <1>l, <2>1, <3>1, <3>2, LocalStep
           DEF LockQueue, Queueing, Acting, r
    <2>2. CASE ~Available(Conn(w), QueueLock(w))
      BY <1>1, <1>2, <1>4, <1>l, <2>2, LocalStep DEF LockQueue, Queueing, Acting, r
    <2> QED
      BY <2>1, <2>2
  <1>w. CASE Wake(w)
    <2>1. /\ worker' = [worker EXCEPT ![w] = r] /\ r.pc = "attempt"
          /\ QueueLock(w)' = QueueLock(w)
      BY <1>1, <1>2, <1>w, ZenonT(40) DEF Wake, TypeOK, WorkerType, QueueLock, r
    <2>2. lock[QueueLock(w)].by = Conn(w)
      BY <1>1, <1>w DEF Wake, Holds, Queueing
    <2> QED
      BY <1>1, <1>2, <1>w, <2>1, <2>2, LocalStep DEF Wake, Acting, r
  <1>a. CASE Attempt(w)
    <2>1. lock[QueueLock(w)].by = Conn(w)
      BY <1>1, <1>a DEF Attempt, Holds, Queueing
    <2> QED
      BY <1>1, <1>2, <1>4, <1>a, <2>1, LocalStep DEF Attempt, Acting, r
  <1>k. CASE LockAction(w)
    <2>1. lock[QueueLock(w)].by = Conn(w)
      BY <1>1, <1>k DEF LockAction, Holds, Queueing
    <2>2. CASE Available(Conn(w), ActionLock(w))
      <3>1. Acquire(Conn(w), ActionLock(w)) /\ Goto(w, "unqueue")
        BY <1>k, <2>2 DEF LockAction
      <3>2. lock'[ActionLock(w)].by = Conn(w) /\ lock'[QueueLock(w)].by = Conn(w)
        BY <1>1, <1>3, <2>1, <3>1 DEF Acquire, TypeOK
      <3> QED
        BY <1>1, <1>2, <1>4, <1>k, <2>2, <3>1, <3>2, LocalStep DEF LockAction, r
    <2>3. CASE ~Available(Conn(w), ActionLock(w))
      <3>1. lock' = lock /\ Goto(w, "giveup")
        BY <1>k, <2>3 DEF LockAction
      <3> QED
        BY <1>1, <1>2, <1>4, <1>k, <2>1, <3>1, LocalStep DEF LockAction, Acting, r
    <2> QED
      BY <2>2, <2>3
  <1>g. CASE GiveUp(w)
    BY <1>1, <1>2, <1>4, <1>g, LocalStep DEF GiveUp, Queueing, Acting, r
  <1>r. CASE Refused(w)
    BY <1>1, <1>2, <1>5, <1>r, LocalStep DEF Refused, Queueing, Acting, r
  <1>b. CASE Begin(w)
    <2>1. /\ worker' = [worker EXCEPT ![w] = r] /\ r.pc = "check"
          /\ ActionLock(w)' = ActionLock(w)
      BY <1>1, <1>2, <1>b, ZenonT(40) DEF Begin, TypeOK, WorkerType, ActionLock, r
    <2>2. lock[ActionLock(w)].by = Conn(w)
      BY <1>1, <1>b DEF Begin, Holds, Acting
    <2>3. lock'[ActionLock(w)].by = Conn(w)
      BY <1>1, <1>3, <1>b, <2>2 DEF Begin, Release, TypeOK
    <2> QED
      BY <1>1, <1>2, <1>b, <2>1, <2>3, LocalStep DEF Begin, Queueing, r
  <1>h. CASE Check(w)
    <2>1. /\ worker' = [worker EXCEPT ![w] = r] /\ r.pc = "run"
          /\ ActionLock(w)' = ActionLock(w)
      <3>1. PICK up : worker' = [worker EXCEPT ![w].pc = "run", ![w].up = up]
        BY <1>h DEF Check
      <3>2. worker' = [worker EXCEPT ![w] =
                          [worker[w] EXCEPT !.pc = "run", !.up = up]]
        BY <1>1, <3>1 DEF TypeOK
      <3>3. r = [worker[w] EXCEPT !.pc = "run", !.up = up]
        BY <1>1, <3>2 DEF TypeOK, r
      <3>4. r.pc = "run" /\ r.dev = worker[w].dev /\ r.act = worker[w].act
        BY <1>2, <3>3 DEF WorkerType
      <3>5. ActionLock(w)' = ActionLock(w)
        BY <3>4 DEF ActionLock, r
      <3> QED
        BY <3>2, <3>3, <3>4, <3>5
    <2>2. lock[ActionLock(w)].by = Conn(w)
      BY <1>1, <1>h DEF Check, Holds, Acting
    <2> QED
      BY <1>1, <1>2, <1>h, <2>1, <2>2, LocalStep DEF Check, Queueing, r
  <1>f. CASE Finish(w)
    <2>1. lock[ActionLock(w)].by = Conn(w)
      BY <1>1, <1>f DEF Finish, Holds, Acting
    <2> QED
      BY <1>1, <1>2, <1>4, <1>f, <2>1, LocalStep DEF Finish, Queueing, r
  <1>u. CASE Unlock(w)
    BY <1>1, <1>2, <1>5, <1>u, LocalStep DEF Unlock, Queueing, Acting, r
  <1> QED
    BY <1>q, <1>l, <1>w, <1>a, <1>k, <1>g, <1>r, <1>b, <1>h, <1>f, <1>u DEF Step

LEMMA TickExclusion ==
    ASSUME Exclusion, TypeOK', Tick
    PROVE  Exclusion'
  <1>1. ASSUME NEW w \in Worker
        PROVE  /\ worker'[w].pc = worker[w].pc /\ worker'[w].dev = worker[w].dev
               /\ worker'[w].act = worker[w].act
    <2>1. worker'[w] = [worker[w] EXCEPT !.wait = Left(@, 1), !.disc = Left(@, 1),
                            !.run = IF worker[w].pc = "run" THEN @ + 1 ELSE @]
      BY DEF Tick
    <2>2. worker[w] \in WorkerType
      BY DEF Exclusion, TypeOK
    <2> QED
      BY <2>1, <2>2 DEF WorkerType
  <1>2. OwnSession' /\ StartsFresh'
    BY <1>1 DEF Exclusion, OwnSession, StartsFresh, Tick
  <1>4. NothingLost'
    BY DEF Exclusion, NothingLost, Tick
  <1>3. Holds'
    BY <1>1 DEF Exclusion, Holds, Tick, Queueing, Acting, QueueLock, ActionLock, Conn
  <1> QED
    BY <1>2, <1>3, <1>4 DEF Exclusion

LEMMA NextExclusion == Private /\ Exclusion /\ [Next]_vars => Exclusion'
  <1> SUFFICES ASSUME Private, Exclusion, [Next]_vars PROVE Exclusion'
    OBVIOUS
  <1>1. TypeOK'
    BY NextType DEF Exclusion
  <1>2. CASE UNCHANGED vars
    BY <1>2 DEF vars, Exclusion, NothingLost, TypeOK, OwnSession, StartsFresh, Holds, Queueing,
                Acting, QueueLock, ActionLock, Conn
  <1>3. ASSUME NEW h \in Host
        PROVE  ~LoseConnection(h) /\ ~Reconnect(h) /\ ~Restart(h)
    BY DEF LoseConnection, Reconnect, Restart, Private, Exclusion, NothingLost
  <1>4. ASSUME NEW w \in Worker PROVE ~Die(w)
    BY ConnType DEF Die, Exclusion, NothingLost
  <1> QED
    BY <1>1, <1>2, <1>3, <1>4, ConnectExclusion, StepExclusion, TickExclusion
       DEF Next, Work

LEMMA ExclusionAlways ==
    ASSUME Private
    PROVE  Spec => []Exclusion
  BY InitExclusion, NextExclusion, PTL DEF Spec

\* Workers that do not share a session never run the same command on a device
\* at once (poller-service.py:288-328), however many hosts, workers and devices
\* there are and however stale the row of dev_query is.
THEOREM MutualExclusion ==
    ASSUME Private
    PROVE  Spec => []OneAtATime
  BY ExclusionAlways, ExclusionMeansOne, PTL

\* Nor do two of them pass the queue lock of one device
\* (poller-service.py:288-310), so that only one sleeps until it is due.
THEOREM QueueExclusion ==
    ASSUME Private
    PROVE  Spec => []OneInQueue
  BY ExclusionAlways, ExclusionMeansOne, PTL
-----------------------------------------------------------------------------
(***************************************************************************)
(* No lock is left behind.  That some worker is going to release a lock is *)
(* no invariant by itself: of two threads that have it through the session *)
(* they share, one may end its turn first.  What is kept is a balance: the *)
(* lock is held at most as many times as there are workers of its session  *)
(* that use it (or died asking for it).  A release gives back up to two of *)
(* them and ends one use.                                                  *)
(***************************************************************************)
Counts(w, l) == Uses(w, l) \/ Abandoned(w, l)
Users(l, s) == {w \in Worker : Counts(w, l) /\ Conn(w) = s}

BalancedAt(l) ==
    lock[l] # Free =>
        lock[l].n >= 1 /\ lock[l].n <= Cardinality(Users(l, lock[l].by))
Balanced == \A l \in Lock : BalancedAt(l)
\* Without the option, no worker uses the connection of the module.
Connected ==
    \A w \in Worker : Single \/ db[HostOf[w]] # HostOf[w] \/ worker[w].pc = "start"
SingleKept == Single => \A h \in Host : db[h] = h
LockInv == TypeOK /\ OwnSession /\ Connected /\ SingleKept /\ Balanced

LEMMA UsersFinite ==
    ASSUME NEW l, NEW s
    PROVE  IsFiniteSet(Users(l, s)) /\ Cardinality(Users(l, s)) \in Nat
  <1>1. Users(l, s) \in SUBSET Worker
    BY DEF Users
  <1> QED
    BY <1>1, FS_Subset, FS_CardinalityType

LEMMA NoSessionUses ==
    ASSUME TypeOK, NEW l
    PROVE  Users(l, NoSession) = {}
  BY ConnType DEF Users

LEMMA BalancedMeansNoLockLeft == LockInv => NoLockLeft
  <1> SUFFICES ASSUME LockInv, NEW l \in Lock, lock[l] # Free
               PROVE  \E w \in Worker : /\ Uses(w, l) \/ Abandoned(w, l)
                                        /\ Conn(w) = lock[l].by
    BY DEF NoLockLeft
  <1>1. Cardinality(Users(l, lock[l].by)) # 0
    <2>1. lock[l].n >= 1 /\ lock[l].n <= Cardinality(Users(l, lock[l].by))
      BY DEF LockInv, Balanced, BalancedAt
    <2>2. lock[l].n \in Nat
      BY DEF LockInv, TypeOK, LockType
    <2> QED
      BY <2>1, <2>2, UsersFinite
  <1>2. Users(l, lock[l].by) # {}
    BY <1>1, FS_EmptySet
  <1> QED
    BY <1>2 DEF Users, Counts

LEMMA InitBalanced == Init => LockInv
  <1> SUFFICES ASSUME Init PROVE LockInv
    OBVIOUS
  <1>1. OwnSession /\ SingleKept /\ Balanced
    BY DEF Init, OwnSession, SingleKept, Balanced, BalancedAt
  <1>2. Connected
    BY DEF Init, Connected, Idle
  <1> QED
    BY <1>1, <1>2, InitType DEF LockInv

\* A lock whose users are still users stays balanced if its row stays.
LEMMA UsersKept ==
    ASSUME NEW l, NEW s,
           \A u \in Worker : Counts(u, l) /\ Conn(u) = s => Counts(u, l)' /\ Conn(u)' = s
    PROVE  Users(l, s) \subseteq Users(l, s)'
  BY DEF Users

LEMMA FewerUsers ==
    ASSUME NEW l, NEW s, Users(l, s) \subseteq Users(l, s)'
    PROVE  Cardinality(Users(l, s)) <= Cardinality(Users(l, s)')
  <1>1. Users(l, s)' \in SUBSET Worker
    BY DEF Users
  <1>2. IsFiniteSet(Users(l, s)')
    BY <1>1, FS_Subset
  <1> QED
    BY <1>2, FS_Subset

\* The balance of a row after a step, with the session as a constant.
LEMMA BalancedNext ==
    ASSUME NEW l \in Lock, NEW s, lock'[l].by = s,
           lock'[l] # Free => lock'[l].n >= 1 /\ lock'[l].n <= Cardinality(Users(l, s)')
    PROVE  BalancedAt(l)'
  BY DEF BalancedAt

LEMMA RowKept ==
    ASSUME LockInv, NEW l \in Lock, NEW s, lock[l].by = s, lock'[l] = lock[l],
           \A u \in Worker : Counts(u, l) /\ Conn(u) = s => Counts(u, l)' /\ Conn(u)' = s
    PROVE  BalancedAt(l)'
  <1>1. ASSUME lock[l] # Free
        PROVE  lock[l].n >= 1 /\ lock[l].n <= Cardinality(Users(l, s)')
    <2>1. lock[l].n >= 1 /\ lock[l].n <= Cardinality(Users(l, s)) /\ lock[l].n \in Nat
      BY <1>1 DEF LockInv, Balanced, BalancedAt, TypeOK, LockType
    <2>2. Users(l, s) \subseteq Users(l, s)'
      BY UsersKept
    <2>3. Cardinality(Users(l, s)) <= Cardinality(Users(l, s)')
      BY <2>2, FewerUsers
    <2>4. Cardinality(Users(l, s)) \in Nat
      BY UsersFinite
    <2>5. Users(l, s)' \in SUBSET Worker
      BY DEF Users
    <2>6. Cardinality(Users(l, s)') \in Nat
      BY <2>5, FS_Subset, FS_CardinalityType
    <2> QED
      BY <2>1, <2>3, <2>4, <2>6
  <1> QED
    BY <1>1, BalancedNext

LEMMA UsersNextFinite ==
    ASSUME NEW l, NEW s
    PROVE  IsFiniteSet(Users(l, s)') /\ Cardinality(Users(l, s)') \in Nat
  <1>1. Users(l, s)' \in SUBSET Worker
    BY DEF Users
  <1> QED
    BY <1>1, FS_Subset, FS_CardinalityType

\* A worker that takes a lock becomes one more user of it.
LEMMA AcquireBalanced ==
    ASSUME LockInv, db' = db, NEW w \in Worker, NEW l \in Lock, NEW s, s = Conn(w),
           Available(s, l), Acquire(s, l), ~Counts(w, l), Counts(w, l)',
           \A u \in Worker \ {w} : Counts(u, l)' <=> Counts(u, l)
    PROVE  BalancedAt(l)'
  <1>1. s \in Session /\ s # NoSession /\ lock[l] \in LockType
    BY ConnType DEF LockInv, TypeOK
  <1>2. lock'[l] = [by |-> s, n |-> lock[l].n + 1]
    BY DEF Acquire, LockInv, TypeOK
  <1>3. \A u \in Worker : Conn(u)' = Conn(u)
    BY DEF Conn
  <1>4. Users(l, s) \union {w} \subseteq Users(l, s)' /\ w \notin Users(l, s)
    BY <1>3 DEF Users
  <1>5. Cardinality(Users(l, s)) + 1 <= Cardinality(Users(l, s)')
    <2>1. Cardinality(Users(l, s) \union {w}) = Cardinality(Users(l, s)) + 1
      BY <1>4, UsersFinite, FS_AddElement
    <2>2. Cardinality(Users(l, s) \union {w}) <= Cardinality(Users(l, s)')
      BY <1>4, UsersNextFinite, FS_Subset
    <2> QED
      BY <2>1, <2>2
  <1>6. lock[l].n <= Cardinality(Users(l, s)) /\ lock[l].n \in Nat
    <2>1. CASE lock[l].by = s
      <3>1. lock[l] # Free
        BY <1>1, <2>1 DEF Free
      <3> QED
        BY <1>1, <2>1, <3>1 DEF LockInv, Balanced, BalancedAt, LockType
    <2>2. CASE lock[l].by = NoSession
      <3>1. CASE lock[l] = Free
        BY <3>1, UsersFinite DEF Free
      <3>2. CASE lock[l] # Free
        <4>1. lock[l].n <= Cardinality(Users(l, NoSession)) /\ lock[l].n >= 1
          BY <2>2, <3>2 DEF LockInv, Balanced, BalancedAt
        <4>2. Users(l, NoSession) = {}
          BY NoSessionUses DEF LockInv
        <4> QED
          BY <1>1, <4>1, <4>2, FS_EmptySet DEF LockType
      <3> QED
        BY <3>1, <3>2
    <2> QED
      BY <2>1, <2>2 DEF Available
  <1>7. lock'[l].n >= 1 /\ lock'[l].n <= Cardinality(Users(l, s)')
    BY <1>2, <1>5, <1>6, UsersFinite, UsersNextFinite
  <1> QED
    BY <1>2, <1>7, BalancedNext

\* A release gives back what one use has taken, or more.
LEMMA ReleaseBalanced ==
    ASSUME LockInv, db' = db, NEW w \in Worker, NEW l \in Lock, NEW s, s = Conn(w),
           Release(s, l),
           \A u \in Worker \ {w} : Counts(u, l)' <=> Counts(u, l)
    PROVE  BalancedAt(l)'
  <1>1. s \in Session /\ s # NoSession /\ lock[l] \in LockType
    BY ConnType DEF LockInv, TypeOK
  <1>2. \A u \in Worker : Conn(u)' = Conn(u)
    BY DEF Conn
  <1>3. CASE lock[l].by # s
    <2>1. PICK t : t = lock[l].by
      OBVIOUS
    <2>2. lock'[l] = lock[l]
      BY <1>3 DEF Release
    <2>3. \A u \in Worker : Counts(u, l) /\ Conn(u) = t => Counts(u, l)' /\ Conn(u)' = t
      BY <1>2, <1>3, <2>1
    <2> QED
      BY <2>1, <2>2, <2>3, RowKept
  <1>4. CASE lock[l].by = s /\ lock[l].n > 2
    <2>1. lock'[l] = [by |-> s, n |-> lock[l].n - 2]
      BY <1>4 DEF Release, LockInv, TypeOK
    <2>2. lock[l].n <= Cardinality(Users(l, s)) /\ lock[l].n \in Nat
      <3>1. lock[l] # Free
        BY <1>1, <1>4 DEF Free
      <3> QED
        BY <1>1, <1>4, <3>1 DEF LockInv, Balanced, BalancedAt, LockType
    <2>3. Users(l, s) \ {w} \subseteq Users(l, s)'
      BY <1>2 DEF Users
    <2>4. Cardinality(Users(l, s) \ {w}) >= Cardinality(Users(l, s)) - 1
      <3>1. Cardinality(Users(l, s) \ {w}) =
              IF w \in Users(l, s) THEN Cardinality(Users(l, s)) - 1
                                   ELSE Cardinality(Users(l, s))
        BY UsersFinite, FS_RemoveElement
      <3> QED
        BY <3>1, UsersFinite
    <2>5. Cardinality(Users(l, s) \ {w}) <= Cardinality(Users(l, s)')
      BY <2>3, UsersNextFinite, FS_Subset
    <2>6. IsFiniteSet(Users(l, s) \ {w})
      BY UsersFinite, FS_RemoveElement
    <2>7. Cardinality(Users(l, s) \ {w}) \in Nat
      BY <2>6, FS_CardinalityType
    <2>8. lock'[l].n >= 1 /\ lock'[l].n <= Cardinality(Users(l, s)')
      BY <1>4, <2>1, <2>2, <2>4, <2>5, <2>7, UsersFinite, UsersNextFinite
    <2> QED
      BY <2>1, <2>8, BalancedNext
  <1>5. CASE lock[l].by = s /\ ~(lock[l].n > 2)
    <2>1. lock'[l] = Free
      BY <1>5 DEF Release, LockInv, TypeOK
    <2> QED
      BY <2>1 DEF BalancedAt
  <1> QED
    BY <1>3, <1>4, <1>5

\* A step of w touches at most one lock, and w gives up the use of no other.
LEMMA LocalBalanced ==
    ASSUME LockInv, TypeOK', db' = db, NEW w \in Worker, NEW l0 \in Lock,
           worker[w].pc # "start",
           \A u \in Worker \ {w} : worker'[u] = worker[u],
           \A l \in Lock \ {l0} : Counts(w, l) => Counts(w, l)',
           \/ lock' = lock /\ (Counts(w, l0) => Counts(w, l0)')
           \/ /\ Available(Conn(w), l0) /\ Acquire(Conn(w), l0)
              /\ ~Counts(w, l0) /\ Counts(w, l0)'
           \/ Release(Conn(w), l0)
    PROVE  LockInv'
  <1>1. OwnSession' /\ SingleKept'
    BY DEF LockInv, OwnSession, SingleKept
  <1>2. Connected'
    BY DEF LockInv, Connected
  <1>3. \A u \in Worker \ {w}, l \in Lock : Counts(u, l)' <=> Counts(u, l)
    BY DEF Counts, Uses, Abandoned, QueueLock, ActionLock
  <1>4. ASSUME NEW l \in Lock
        PROVE  BalancedAt(l)'
    <2> DEFINE kept == lock'[l] = lock[l] /\ (Counts(w, l) => Counts(w, l)')
    <2>1. CASE kept
      <3>1. PICK t : t = lock[l].by
        OBVIOUS
      <3>2. \A u \in Worker : Counts(u, l) /\ Conn(u) = t
                                => Counts(u, l)' /\ Conn(u)' = t
        BY <1>3, <2>1 DEF Conn
      <3> QED
        BY <2>1, <3>1, <3>2, RowKept
    <2>2. CASE ~kept
      <3>1. l = l0
        BY <2>2 DEF Acquire, Release, LockInv, TypeOK
      <3>2. PICK s : s = Conn(w)
        OBVIOUS
      <3>3. CASE /\ Available(s, l) /\ Acquire(s, l)
                 /\ ~Counts(w, l) /\ Counts(w, l)'
        BY <1>3, <3>2, <3>3, AcquireBalanced
      <3>4. CASE Release(s, l)
        BY <1>3, <3>2, <3>4, ReleaseBalanced
      <3>5. CASE lock' = lock /\ (Counts(w, l0) => Counts(w, l0)')
        BY <2>2, <3>1, <3>5
      <3> QED
        BY <3>1, <3>2, <3>3, <3>4, <3>5
    <2> QED
      BY <2>1, <2>2
  <1> QED
    BY <1>1, <1>2, <1>4 DEF LockInv, Balanced

\* What w uses depends on its step and its two locks.
LEMMA GotoCounts ==
    ASSUME TypeOK, NEW w \in Worker, NEW pc, Goto(w, pc)
    PROVE  /\ worker'[w].pc = pc
           /\ QueueLock(w)' = QueueLock(w) /\ ActionLock(w)' = ActionLock(w)
           /\ \A u \in Worker \ {w} : worker'[u] = worker[u]
  <1>1. worker[w] \in WorkerType
    BY DEF TypeOK
  <1> QED
    BY <1>1 DEF TypeOK, Goto, WorkerType, QueueLock, ActionLock

LEMMA StepBalanced ==
    ASSUME LockInv, TypeOK', NEW w \in Worker, Step(w), lost' = lost
    PROVE  LockInv'
  <1>1. /\ TypeOK /\ worker[w] \in WorkerType /\ worker' \in [Worker -> WorkerType]
        /\ QueueLock(w) \in Lock /\ ActionLock(w) \in Lock
        /\ QueueLock(w) # ActionLock(w)
    <2>1. TypeOK /\ worker[w] \in WorkerType
      BY DEF LockInv, TypeOK
    <2>2. QueueLock(w) # ActionLock(w)
      BY <2>1 DEF QueueLock, ActionLock, WorkerType
    <2> QED
      BY <2>1, <2>2, LocksAre DEF TypeOK
  <1> DEFINE uses(l) == \/ /\ l = QueueLock(w)
                           /\ worker[w].pc \in {"sleep", "attempt", "lock", "giveup",
                                                "refused", "unqueue"}
                        \/ /\ l = ActionLock(w)
                           /\ worker[w].pc \in {"unqueue", "check", "run", "unlock"}
  <1>2. \A l : worker[w].pc # "dead" => (Counts(w, l) <=> uses(l))
    BY DEF Counts, Uses, Abandoned
  <1>3. \A l : worker'[w].pc # "dead" => (Counts(w, l)' <=> uses(l)')
    BY DEF Counts, Uses, Abandoned
  <1>4. ASSUME worker' = [worker EXCEPT ![w] = Idle]
        PROVE  /\ worker'[w].pc = "query"
               /\ \A u \in Worker \ {w} : worker'[u] = worker[u]
    BY <1>1, <1>4 DEF TypeOK, Idle
  <1>q. CASE Query(w)
    <2>1. /\ worker'[w].pc = "queue"
          /\ \A u \in Worker \ {w} : worker'[u] = worker[u]
      BY <1>1, <1>q DEF Query, TypeOK, Idle
    <2>2. \A l \in Lock : ~Counts(w, l)
      BY <1>2, <1>q DEF Query
    <2> QED
      BY <1>1, <1>q, <2>1, <2>2, LocalBalanced DEF Query
  <1>l. CASE LockQueue(w)
    <2>1. \A l \in Lock : ~Counts(w, l)
      BY <1>2, <1>l DEF LockQueue
    <2>2. CASE Available(Conn(w), QueueLock(w))
      <3>1. Acquire(Conn(w), QueueLock(w)) /\ Goto(w, "sleep")
        BY <1>l, <2>2 DEF LockQueue
      <3>2. Counts(w, QueueLock(w))'
        BY <1>1, <1>3, <3>1, GotoCounts
      <3> QED
        BY <1>1, <1>l, <2>1, <2>2, <3>1, <3>2, GotoCounts, LocalBalanced DEF LockQueue
    <2>3. CASE ~Available(Conn(w), QueueLock(w))
      <3>1. lock' = lock /\ Goto(w, "refused")
        BY <1>l, <2>3 DEF LockQueue
      <3> QED
        BY <1>1, <1>l, <2>1, <3>1, GotoCounts, LocalBalanced DEF LockQueue
    <2> QED
      BY <2>2, <2>3
  <1>w. CASE Wake(w)
    <2>1. /\ worker'[w].pc = "attempt" /\ QueueLock(w)' = QueueLock(w)
          /\ \A u \in Worker \ {w} : worker'[u] = worker[u]
      BY <1>1, <1>w DEF Wake, TypeOK, WorkerType, QueueLock
    <2>2. \A l \in Lock : Counts(w, l) => Counts(w, l)'
      BY <1>2, <1>3, <1>w, <2>1 DEF Wake
    <2> QED
      BY <1>1, <1>w, <2>1, <2>2, LocalBalanced DEF Wake
  <1>a. CASE Attempt(w)
    <2>1. Goto(w, "lock")
      BY <1>a DEF Attempt
    <2>2. \A l \in Lock : Counts(w, l) => Counts(w, l)'
      BY <1>1, <1>2, <1>3, <1>a, <2>1, GotoCounts DEF Attempt
    <2> QED
      BY <1>1, <1>a, <2>1, <2>2, GotoCounts, LocalBalanced DEF Attempt
  <1>k. CASE LockAction(w)
    <2>1. CASE Available(Conn(w), ActionLock(w))
      <3>1. Acquire(Conn(w), ActionLock(w)) /\ Goto(w, "unqueue")
        BY <1>k, <2>1 DEF LockAction
      <3>2. Counts(w, ActionLock(w))' /\ ~Counts(w, ActionLock(w))
        BY <1>1, <1>2, <1>3, <1>k, <3>1, GotoCounts DEF LockAction
      <3>3. \A l \in Lock : Counts(w, l) => Counts(w, l)'
        BY <1>1, <1>2, <1>3, <1>k, <3>1, GotoCounts DEF LockAction
      <3> QED
        BY <1>1, <1>k, <2>1, <3>1, <3>2, <3>3, GotoCounts, LocalBalanced DEF LockAction
    <2>2. CASE ~Available(Conn(w), ActionLock(w))
      <3>1. lock' = lock /\ Goto(w, "giveup")
        BY <1>k, <2>2 DEF LockAction
      <3>2. \A l \in Lock : Counts(w, l) => Counts(w, l)'
        BY <1>1, <1>2, <1>3, <1>k, <3>1, GotoCounts DEF LockAction
      <3> QED
        BY <1>1, <1>k, <3>1, <3>2, GotoCounts, LocalBalanced DEF LockAction
    <2> QED
      BY <2>1, <2>2
  <1>g. CASE GiveUp(w)
    <2>1. Release(Conn(w), ActionLock(w)) /\ Goto(w, "refused")
      BY <1>g DEF GiveUp
    <2>2. \A l \in Lock : Counts(w, l) => Counts(w, l)'
      BY <1>1, <1>2, <1>3, <1>g, <2>1, GotoCounts DEF GiveUp
    <2> QED
      BY <1>1, <1>g, <2>1, <2>2, GotoCounts, LocalBalanced DEF GiveUp
  <1>r. CASE Refused(w)
    <2>1. \A l \in Lock \ {QueueLock(w)} : ~Counts(w, l)
      BY <1>2, <1>r DEF Refused
    <2> QED
      BY <1>1, <1>4, <1>r, <2>1, LocalBalanced DEF Refused
  <1>b. CASE Begin(w)
    <2>1. /\ worker'[w].pc = "check" /\ ActionLock(w)' = ActionLock(w)
          /\ \A u \in Worker \ {w} : worker'[u] = worker[u]
      BY <1>1, <1>b DEF Begin, TypeOK, WorkerType, ActionLock
    <2>2. \A l \in Lock \ {QueueLock(w)} : Counts(w, l) => Counts(w, l)'
      BY <1>2, <1>3, <1>b, <2>1 DEF Begin
    <2> QED
      BY <1>1, <1>b, <2>1, <2>2, LocalBalanced DEF Begin
  <1>h. CASE Check(w)
    <2>1. /\ worker'[w].pc = "run" /\ ActionLock(w)' = ActionLock(w)
          /\ \A u \in Worker \ {w} : worker'[u] = worker[u]
      <3>1. PICK up : worker' = [worker EXCEPT ![w].pc = "run", ![w].up = up]
        BY <1>h DEF Check
      <3>2. worker'[w] = [worker[w] EXCEPT !.pc = "run", !.up = up]
        BY <1>1, <3>1 DEF TypeOK
      <3>3. /\ worker'[w].pc = "run" /\ worker'[w].dev = worker[w].dev
            /\ worker'[w].act = worker[w].act
        BY <1>1, <3>2 DEF WorkerType
      <3> QED
        BY <1>1, <3>1, <3>3 DEF TypeOK, ActionLock
    <2>2. \A l \in Lock : Counts(w, l) => Counts(w, l)'
      BY <1>2, <1>3, <1>h, <2>1 DEF Check
    <2> QED
      BY <1>1, <1>h, <2>1, <2>2, LocalBalanced DEF Check
  <1>f. CASE Finish(w)
    <2>1. Goto(w, "unlock")
      BY <1>f DEF Finish
    <2>2. \A l \in Lock : Counts(w, l) => Counts(w, l)'
      BY <1>1, <1>2, <1>3, <1>f, <2>1, GotoCounts DEF Finish
    <2> QED
      BY <1>1, <1>f, <2>1, <2>2, GotoCounts, LocalBalanced DEF Finish
  <1>u. CASE Unlock(w)
    <2>1. \A l \in Lock \ {ActionLock(w)} : ~Counts(w, l)
      BY <1>2, <1>u DEF Unlock
    <2> QED
      BY <1>1, <1>4, <1>u, <2>1, LocalBalanced DEF Unlock
  <1> QED
    BY <1>q, <1>l, <1>w, <1>a, <1>k, <1>g, <1>r, <1>b, <1>h, <1>f, <1>u DEF Step

\* The thread that ends counts for the lock it asks for, and for what it used.
LEMMA DieBalanced ==
    ASSUME LockInv, TypeOK', NEW w \in Worker, Die(w)
    PROVE  LockInv'
  <1>1. /\ TypeOK /\ worker[w] \in WorkerType
        /\ QueueLock(w) \in Lock /\ ActionLock(w) \in Lock
    BY LocksAre DEF LockInv, TypeOK
  <1>2. QueueLock(w) # ActionLock(w)
    BY <1>1 DEF QueueLock, ActionLock, WorkerType
  <1>3. Goto(w, "dead") /\ worker[w].pc \notin {"dead", "start"}
    BY DEF Die, Querying
  <1>4. \A l \in Lock : Counts(w, l)' <=> l \in {QueueLock(w), ActionLock(w)}
    BY <1>1, <1>3, GotoCounts DEF Counts, Uses, Abandoned
  <1>5. \A l \in Lock : Counts(w, l) => Counts(w, l)'
    BY <1>4 DEF Counts, Uses, Abandoned
  <1>6. CASE lock' = lock
    BY <1>1, <1>3, <1>5, <1>6, GotoCounts, LocalBalanced DEF Die
  <1>7. CASE lock' # lock
    <2>1. PICK l \in {QueueLock(w), ActionLock(w)} :
            /\ worker[w].pc = IF l = QueueLock(w) THEN "queue" ELSE "lock"
            /\ Available(Conn(w), l) /\ Acquire(Conn(w), l)
      BY <1>2, <1>7 DEF Die, FirstQuery
    <2>2. l \in Lock
      BY <1>1
    <2>3. ~Counts(w, l) /\ Counts(w, l)'
      BY <1>1, <1>2, <1>4, <2>1, <2>2 DEF Counts, Uses, Abandoned
    <2>4. db' = db
      BY DEF Die
    <2> QED
      BY <1>1, <1>3, <1>5, <2>1, <2>2, <2>3, <2>4, GotoCounts, LocalBalanced
  <1> QED
    BY <1>6, <1>7

\* When a session ends, only the locks of others stay, and their users are
\* workers of other processes.
LEMMA WithoutBalanced ==
    ASSUME LockInv, NEW h \in Host, lock' = LocksWithout(db[h]),
           \A u \in Worker : HostOf[u] # h =>
                /\ worker'[u] = worker[u] /\ Conn(u)' = Conn(u)
    PROVE  Balanced'
  <1> SUFFICES ASSUME NEW l \in Lock PROVE BalancedAt(l)'
    BY DEF Balanced
  <1>1. CASE lock[l].by = db[h]
    BY <1>1 DEF LocksWithout, BalancedAt
  <1>2. CASE lock[l].by # db[h]
    <2>1. PICK t : t = lock[l].by
      OBVIOUS
    <2>2. lock'[l] = lock[l]
      BY <1>2 DEF LocksWithout
    <2>3. ASSUME NEW u \in Worker, Counts(u, l), Conn(u) = t
          PROVE  Counts(u, l)' /\ Conn(u)' = t
      <3>1. HostOf[u] # h
        BY <1>2, <2>1, <2>3 DEF Conn
      <3> QED
        BY <2>3, <3>1 DEF Counts, Uses, Abandoned, QueueLock, ActionLock
    <2> QED
      BY <2>1, <2>2, <2>3, RowKept
  <1> QED
    BY <1>1, <1>2

LEMMA LoseBalanced ==
    ASSUME LockInv, TypeOK', NEW h \in Host, LoseConnection(h)
    PROVE  LockInv'
  <1>1. Balanced'
    BY WithoutBalanced DEF LoseConnection, Conn
  <1> QED
    BY <1>1 DEF LoseConnection, LockInv, OwnSession, Connected, SingleKept

LEMMA RestartBalanced ==
    ASSUME LockInv, TypeOK', NEW h \in Host, Restart(h)
    PROVE  LockInv'
  <1>1. Balanced'
    <2>1. ASSUME NEW u \in Worker, HostOf[u] # h
          PROVE  worker'[u] = worker[u] /\ Conn(u)' = Conn(u)
      BY <2>1 DEF Restart, Conn, LockInv, TypeOK
    <2> QED
      BY <2>1, WithoutBalanced DEF Restart
  <1>2. OwnSession' /\ SingleKept'
    BY DEF Restart, LockInv, OwnSession, SingleKept, TypeOK
  <1>3. Connected'
    <2> SUFFICES ASSUME NEW w \in Worker
                 PROVE  \/ Single \/ db'[HostOf[w]] # HostOf[w]
                        \/ worker'[w].pc = "start"
      BY DEF Connected
    <2>1. CASE HostOf[w] = h
      BY <2>1 DEF Restart, Idle
    <2>2. CASE HostOf[w] # h
      BY <2>2 DEF Restart, LockInv, Connected, TypeOK
    <2> QED
      BY <2>1, <2>2
  <1> QED
    BY <1>1, <1>2, <1>3 DEF LockInv

\* A worker that starts drops the session of an earlier worker, whose locks
\* the server frees; before the first one has started, nobody holds a lock.
LEMMA ConnectBalanced ==
    ASSUME LockInv, TypeOK', NEW w \in Worker, Connect(w)
    PROVE  LockInv'
  <1> DEFINE h == HostOf[w]
  <1>1. h \in Host /\ worker[w].pc = "start" /\ Goto(w, "query") /\ TypeOK
    BY ConnType DEF Connect, LockInv
  <1>2. worker'[w].pc = "query" /\ \A u \in Worker \ {w} : worker'[u] = worker[u]
    BY <1>1, GotoCounts
  <1>3. \A l \in Lock : ~Counts(w, l) /\ ~Counts(w, l)'
    BY <1>1, <1>2 DEF Counts, Uses, Abandoned
  <1>4. \A u \in Worker, l \in Lock : Counts(u, l)' <=> Counts(u, l)
    BY <1>2, <1>3 DEF Counts, Uses, Abandoned, QueueLock, ActionLock
  <1>5. CASE Single
    <2>1. db' = db /\ lock' = lock
      BY <1>5 DEF Connect
    <2>2. ASSUME NEW l \in Lock PROVE BalancedAt(l)'
      <3>1. PICK t : t = lock[l].by
        OBVIOUS
      <3>2. \A u \in Worker : Conn(u)' = Conn(u)
        BY <2>1 DEF Conn
      <3> QED
        BY <1>4, <2>1, <3>1, <3>2, RowKept
    <2> QED
      BY <1>5, <2>1, <2>2 DEF LockInv, OwnSession, Connected, SingleKept, Balanced
  <1>6. CASE ~Single
    <2>1. db' = [db EXCEPT ![h] = w]
      BY <1>6 DEF Connect
    <2>2. OwnSession'
      BY <1>1, <2>1 DEF OwnSession, LockInv, TypeOK
    <2>3. Connected'
      BY <1>1, <1>2, <2>1 DEF Connected, LockInv, TypeOK
    <2>4. \A u \in Worker : HostOf[u] # h => Conn(u)' = Conn(u)
      BY <2>1 DEF Conn, LockInv, TypeOK
    <2>5. ASSUME NEW l \in Lock PROVE BalancedAt(l)'
      <3>1. CASE lock'[l] = Free
        BY <3>1 DEF BalancedAt
      <3>2. CASE lock'[l] # Free
        <4>1. PICK t : t = lock[l].by
          OBVIOUS
        <4>2. lock'[l] = lock[l]
          BY <1>6, <3>2 DEF Connect, LocksWithout
        <4>3. db[h] \in Worker => t # db[h]
          BY <1>6, <3>2, <4>1 DEF Connect, LocksWithout
        <4>4. ASSUME NEW u \in Worker, Counts(u, l), Conn(u) = t
              PROVE  HostOf[u] # h
          <5> SUFFICES ASSUME HostOf[u] = h PROVE FALSE
            OBVIOUS
          <5>1. db[h] = t /\ db[h] \notin Worker
            BY <4>3, <4>4 DEF Conn
          <5>2. db[h] = h
            BY <1>1, <5>1 DEF LockInv, OwnSession
          <5>3. worker[u].pc = "start"
            BY <1>6, <5>2 DEF LockInv, Connected
          <5> QED
            BY <4>4, <5>3 DEF Counts, Uses, Abandoned
        <4>5. \A u \in Worker : Counts(u, l) /\ Conn(u) = t
                                  => Counts(u, l)' /\ Conn(u)' = t
          BY <1>4, <2>4, <4>4
        <4> QED
          BY <4>1, <4>2, <4>5, RowKept
      <3> QED
        BY <3>1, <3>2
    <2> QED
      BY <1>6, <2>2, <2>3, <2>5 DEF LockInv, SingleKept, Balanced
  <1> QED
    BY <1>5, <1>6

\* A step that leaves every worker where it is, and locks and connections.
LEMMA QuietBalanced ==
    ASSUME LockInv, TypeOK', db' = db, lock' = lock,
           \A u \in Worker : /\ worker'[u].pc = worker[u].pc
                             /\ worker'[u].dev = worker[u].dev
                             /\ worker'[u].act = worker[u].act
    PROVE  LockInv'
  <1>1. ASSUME NEW l \in Lock PROVE BalancedAt(l)'
    <2>1. PICK t : t = lock[l].by
      OBVIOUS
    <2>2. \A u \in Worker : (Counts(u, l)' <=> Counts(u, l)) /\ Conn(u)' = Conn(u)
      BY DEF Counts, Uses, Abandoned, QueueLock, ActionLock, Conn
    <2> QED
      BY <2>1, <2>2, RowKept
  <1> QED
    BY <1>1 DEF LockInv, OwnSession, Connected, SingleKept, Balanced

LEMMA NextBalanced == LockInv /\ [Next]_vars => LockInv'
  <1> SUFFICES ASSUME LockInv, [Next]_vars PROVE LockInv'
    OBVIOUS
  <1>1. TypeOK'
    BY NextType DEF LockInv
  <1>2. CASE UNCHANGED vars
    BY <1>1, <1>2, QuietBalanced DEF vars
  <1>3. CASE Tick
    <2>1. ASSUME NEW w \in Worker
          PROVE  /\ worker'[w].pc = worker[w].pc /\ worker'[w].dev = worker[w].dev
                 /\ worker'[w].act = worker[w].act
      <3>1. worker'[w] = [worker[w] EXCEPT !.wait = Left(@, 1), !.disc = Left(@, 1),
                              !.run = IF worker[w].pc = "run" THEN @ + 1 ELSE @]
        BY <1>3 DEF Tick
      <3>2. worker[w] \in WorkerType
        BY DEF LockInv, TypeOK
      <3> QED
        BY <3>1, <3>2 DEF WorkerType
    <2> QED
      BY <1>1, <1>3, <2>1, QuietBalanced DEF Tick
  <1>4. ASSUME NEW w \in Worker, Work(w) PROVE LockInv'
    BY <1>1, <1>4, ConnectBalanced, StepBalanced, DieBalanced DEF Work
  <1>5. ASSUME NEW h \in Host, LoseConnection(h) \/ Restart(h) PROVE LockInv'
    BY <1>1, <1>5, LoseBalanced, RestartBalanced
  <1>6. ASSUME NEW h \in Host, Reconnect(h) PROVE LockInv'
    BY <1>1, <1>6, QuietBalanced DEF Reconnect
  <1> QED
    BY <1>2, <1>3, <1>4, <1>5, <1>6 DEF Next

\* Whoever holds a lock of a device is going to give it back, or died asking
\* for it: however many threads share a session, and whichever connections
\* break and processes restart, dev_query (poller-service.py:241-279) never
\* finds a device taken by nobody.
THEOREM NoLockIsLeft == Spec => []NoLockLeft
  <1> QED
    BY InitBalanced, NextBalanced, BalancedMeansNoLockLeft, PTL DEF Spec
=============================================================================
