--------------------------- MODULE PollerService ---------------------------
(***************************************************************************)
(* poller-service.py: worker threads, on one or several hosts, look for    *)
(* the device whose data is oldest and run poller.php or discovery.php on  *)
(* it.  What keeps two of them from the same device are MySQL's user-level *)
(* locks queue.N, poll.N and discovery.N.                                  *)
(*                                                                         *)
(* Such a lock belongs to a database session, not to a thread.  It is      *)
(* re-entrant, and it is lost with its session.  Every worker opens a      *)
(* session, but stores it in the variable db that `global db` shares among *)
(* all workers of the process.                                             *)
(*                                                                         *)
(* Time is abstracted to ages: how long ago a device's last poll began     *)
(* (polled), its last discovery (discovered) and the last attempt (tried), *)
(* each counted up to where nothing depends on it any more, which is also  *)
(* the value of NULL.  A worker's row keeps the times left until its poll  *)
(* and its discovery are due.                                              *)
(***************************************************************************)
EXTENDS Integers, FiniteSets

CONSTANTS
    Worker, Device, Host,
    HostOf,       \* the process a worker is a thread of
    NoSession,    \* holder of a free lock
    Single,       \* $config['poller_service_single_connection']
    PollFreq, DiscFreq, DownRetry,   \* the frequencies of the configuration
    Horizon,      \* bound: ages of polls are counted up to here
    MaxRun,       \* bound: time within which a command ends
    Prompt,       \* whether time stands still while a worker can go on
    Ops,          \* what may happen to devices, commands and connections
    Flaky         \* the devices it happens to

Session == Host \union Worker
Op == {"down", "pollfail", "discfail", "lose"}

ASSUME WorkerAssumption ==
    /\ HostOf \in [Worker -> Host] /\ Device # {}
    /\ IsFiniteSet(Worker)
    /\ Host \intersect Worker = {}
    /\ NoSession \notin Session
    /\ Single \in BOOLEAN /\ Prompt \in BOOLEAN
    /\ Ops \subseteq Op /\ Flaky \subseteq Device
ASSUME TimeAssumption ==
    /\ {PollFreq, DiscFreq, DownRetry, Horizon, MaxRun} \subseteq Nat
    /\ Horizon >= PollFreq

VARIABLES
    db,        \* the global db of a process
    lost,      \* whether its connection broke since the last query
    lock,      \* MySQL's user-level locks
    devices,   \* table devices
    worker     \* the worker threads

vars == <<db, lost, lock, devices, worker>>

Lock == {"queue", "poll", "discovery"} \X Device
Free == [by |-> NoSession, n |-> 0]
LockType == [by : Session \union {NoSession}, n : Nat]
DeviceType == [up : BOOLEAN, polled : 0..Horizon,
               discovered : 0..(DiscFreq + 1), tried : 0..(DownRetry + 1)]
WorkerType ==
    [pc : {"start", "query", "queue", "sleep", "attempt", "lock", "giveup",
           "refused", "unqueue", "check", "run", "unlock", "dead"},
     dev : Device, up : BOOLEAN, wait : 0..PollFreq, disc : 0..(DiscFreq + 1),
     act : {"poll", "discovery"}, run : Nat]

TypeOK ==
    /\ db \in [Host -> Session]
    /\ lost \in [Host -> BOOLEAN]
    /\ lock \in [Lock -> LockType]
    /\ devices \in [Device -> DeviceType]
    /\ worker \in [Worker -> WorkerType]

New == [up |-> TRUE, polled |-> Horizon, discovered |-> DiscFreq + 1,
        tried |-> DownRetry + 1]
Idle == [pc |-> "query", dev |-> CHOOSE d \in Device : TRUE, up |-> FALSE,
         wait |-> 0, disc |-> 0, act |-> "poll", run |-> 0]

Init ==
    /\ db = [h \in Host |-> h]
    /\ lost = [h \in Host |-> FALSE]
    /\ lock = [l \in Lock |-> Free]
    /\ devices = [d \in Device |-> New]
    /\ worker = [w \in Worker |-> [Idle EXCEPT !.pc = "start"]]

Conn(w) == db[HostOf[w]]
Goto(w, pc) == worker' = [worker EXCEPT ![w].pc = pc]
QueueLock(w) == <<"queue", worker[w].dev>>
ActionLock(w) == <<worker[w].act, worker[w].dev>>
-----------------------------------------------------------------------------
(***************************************************************************)
(* MySQL's GET_LOCK and RELEASE_LOCK for a session s.                      *)
(***************************************************************************)
\* Mutant: the answer of GET_LOCK is ignored.
AvailableAlways(s, l) == TRUE
Available(s, l) == lock[l].by \in {NoSession, s}
Acquire(s, l) == lock' = [lock EXCEPT ![l] = [by |-> s, n |-> @.n + 1]]
\* releaseLock runs its query twice.
Release(s, l) ==
    lock' = IF lock[l].by # s THEN lock
            ELSE [lock EXCEPT ![l] = IF lock[l].n > 2
                                     THEN [by |-> s, n |-> lock[l].n - 2] ELSE Free]
\* The server frees the locks of a session that ends.
LocksWithout(s) == [l \in Lock |-> IF lock[l].by = s THEN Free ELSE lock[l]]
-----------------------------------------------------------------------------
(***************************************************************************)
(* poll_worker                                                             *)
(***************************************************************************)
\* `db = DB()` rebinds the global: the connection of an earlier worker is
\* dropped and closed, that of the module lives on in default arguments.
Connect(w) ==
    LET h == HostOf[w] IN
    /\ worker[w].pc = "start"
    /\ IF Single THEN UNCHANGED <<db, lost, lock>>
       ELSE /\ db' = [db EXCEPT ![h] = w]
            /\ lost' = [lost EXCEPT ![h] = FALSE]
            /\ lock' = IF db[h] \in Worker THEN LocksWithout(db[h]) ELSE lock
    /\ Goto(w, "query")
    /\ UNCHANGED devices

Eligible(d) ==
    /\ \A kind \in {"queue", "poll", "discovery"} : lock[<<kind, d>>] = Free
    /\ devices[d].tried > DownRetry
Oldest == {d \in Device : Eligible(d) /\ \A e \in Device :
                Eligible(e) => devices[e].polled <= devices[d].polled}
\* Mutant: without the test `timestamp > now` of sleep_until.
LeftSigned(due, age) == due - age
Left(due, age) == IF age >= due THEN 0 ELSE due - age

\* dev_query, which finds nothing or the device to poll next.
Query(w) ==
    /\ worker[w].pc = "query"
    /\ \E d \in Oldest :
         worker' = [worker EXCEPT ![w] =
            [Idle EXCEPT !.pc = "queue", !.dev = d, !.up = devices[d].up,
                         !.wait = Left(PollFreq, devices[d].polled),
                         !.disc = Left(DiscFreq + 1, devices[d].discovered)]]
    /\ UNCHANGED <<db, lock, devices>>

\* Mutant: `continue` is missing after a failed getLock.
LockQueueAnyway(w) ==
    /\ worker[w].pc = "queue"
    /\ IF Available(Conn(w), QueueLock(w)) THEN Acquire(Conn(w), QueueLock(w))
                                          ELSE lock' = lock
    /\ Goto(w, "sleep")
    /\ UNCHANGED <<db, devices>>

LockQueue(w) ==
    /\ worker[w].pc = "queue"
    /\ IF Available(Conn(w), QueueLock(w))
       THEN Acquire(Conn(w), QueueLock(w)) /\ Goto(w, "sleep")
       ELSE lock' = lock /\ Goto(w, "refused")
    /\ UNCHANGED <<db, devices>>

\* sleep_until(next_poll), then the choice of the action.
Wake(w) ==
    /\ worker[w].pc = "sleep"
    /\ worker[w].wait = 0
    /\ worker' = [worker EXCEPT ![w].pc = "attempt",
            ![w].act = IF worker[w].disc = 0 /\ worker[w].up THEN "discovery"
                                                             ELSE "poll"]
    /\ UNCHANGED <<db, lock, devices>>

\* Mutant: the attempt is not stored.
AttemptUnmarked(w) ==
    /\ worker[w].pc = "attempt"
    /\ Goto(w, "lock")
    /\ UNCHANGED <<db, lock, devices>>

Attempt(w) ==
    /\ worker[w].pc = "attempt"
    /\ devices' = [devices EXCEPT ![worker[w].dev].tried = 0]
    /\ Goto(w, "lock")
    /\ UNCHANGED <<db, lock>>

\* Mutant: the device is polled without its lock.
LockActionAnyway(w) ==
    /\ worker[w].pc = "lock"
    /\ IF Available(Conn(w), ActionLock(w)) THEN Acquire(Conn(w), ActionLock(w))
                                           ELSE lock' = lock
    /\ Goto(w, "unqueue")
    /\ UNCHANGED <<db, devices>>

LockAction(w) ==
    /\ worker[w].pc = "lock"
    /\ IF Available(Conn(w), ActionLock(w))
       THEN Acquire(Conn(w), ActionLock(w)) /\ Goto(w, "unqueue")
       ELSE lock' = lock /\ Goto(w, "giveup")
    /\ UNCHANGED <<db, devices>>

\* Mutant: a worker that gives a device up keeps its queue lock.
GiveUpQueued(w) ==
    /\ worker[w].pc = "giveup"
    /\ Release(Conn(w), ActionLock(w))
    /\ worker' = [worker EXCEPT ![w] = Idle]
    /\ UNCHANGED <<db, devices>>

\* A lock that was refused is released all the same, through whichever
\* session is in db by then, and the queue lock after it.
GiveUp(w) ==
    /\ worker[w].pc = "giveup"
    /\ Release(Conn(w), ActionLock(w))
    /\ Goto(w, "refused")
    /\ UNCHANGED <<db, devices>>
Refused(w) ==
    /\ worker[w].pc = "refused"
    /\ Release(Conn(w), QueueLock(w))
    /\ worker' = [worker EXCEPT ![w] = Idle]
    /\ UNCHANGED <<db, devices>>

\* Mutant: the queue lock is not released before the command.
BeginQueued(w) ==
    /\ worker[w].pc = "unqueue"
    /\ worker' = [worker EXCEPT ![w].pc = "check", ![w].run = 0,
                                ![w].up = devices[worker[w].dev].up]
    /\ UNCHANGED <<db, lock, devices>>

Begin(w) ==
    /\ worker[w].pc = "unqueue"
    /\ Release(Conn(w), QueueLock(w))
    /\ worker' = [worker EXCEPT ![w].pc = "check", ![w].run = 0,
                                ![w].up = devices[worker[w].dev].up]
    /\ UNCHANGED <<db, devices>>

Fails(op, d) == op \in Ops /\ d \in Flaky

\* device_is_up stores whether the device answers, if that differs from the
\* status the command has read.  discovery.php skips a device that was down.
Check(w) ==
    LET d == worker[w].dev
        skipped == worker[w].act = "discovery" /\ ~worker[w].up
    IN
    /\ worker[w].pc = "check"
    /\ \E up \in BOOLEAN :
         /\ ~up => skipped \/ Fails("down", d)
         /\ up => ~skipped
         /\ devices' = IF up = worker[w].up THEN devices
                       ELSE [devices EXCEPT ![d].up = up]
         /\ worker' = [worker EXCEPT ![w].pc = "run", ![w].up = up]
    /\ UNCHANGED <<db, lock>>

\* poll_device and discover_device store, of a device that is up, when they
\* began.
Stored(w) ==
    LET age(max) == IF worker[w].run < max THEN worker[w].run ELSE max IN
    IF ~worker[w].up THEN devices
    ELSE IF worker[w].act = "poll"
         THEN [devices EXCEPT ![worker[w].dev].polled = age(Horizon)]
         ELSE [devices EXCEPT ![worker[w].dev].discovered = age(DiscFreq + 1)]

\* The command ends; one that dies stores nothing.
Finish(w) ==
    /\ worker[w].pc = "run"
    /\ \/ devices' = Stored(w)
       \/ /\ Fails(IF worker[w].act = "poll" THEN "pollfail" ELSE "discfail", worker[w].dev)
          /\ devices' = devices
    /\ Goto(w, "unlock")
    /\ UNCHANGED <<db, lock>>

Unlock(w) ==
    /\ worker[w].pc = "unlock"
    /\ Release(Conn(w), ActionLock(w))
    /\ worker' = [worker EXCEPT ![w] = Idle]
    /\ UNCHANGED <<db, devices>>

Step(w) ==
    \/ Query(w) \/ LockQueue(w) \/ Wake(w) \/ Attempt(w) \/ LockAction(w)
    \/ GiveUp(w) \/ Refused(w) \/ Begin(w) \/ Check(w) \/ Finish(w) \/ Unlock(w)
-----------------------------------------------------------------------------
(***************************************************************************)
(* DB.query after its connection broke.  It reconnects and runs the query  *)
(* in the new session, but without the mutex in_use that it gave up before *)
(* connect(): releasing it again ends the thread.  If another thread has   *)
(* taken the mutex meanwhile, it is that one whose release fails.          *)
(***************************************************************************)
Querying(w) ==
    worker[w].pc \in {"query", "queue", "attempt", "lock", "giveup", "refused",
                     "unqueue", "unlock"}
Spared(w) ==
    \E v \in Worker \ {w} : HostOf[v] = HostOf[w] /\ Querying(v)
Ready(w) == lost[HostOf[w]] /\ Querying(w) => Spared(w)

\* What the first query of a step does: GET_LOCK and UPDATE take effect, the
\* new session has nothing to release.
FirstQuery(w) ==
    LET wanted == IF worker[w].pc = "queue" THEN QueueLock(w) ELSE ActionLock(w) IN
    /\ IF worker[w].pc \in {"queue", "lock"} /\ Available(Conn(w), wanted)
       THEN Acquire(Conn(w), wanted)
       ELSE lock' = lock
    /\ devices' = IF worker[w].pc = "attempt"
                  THEN [devices EXCEPT ![worker[w].dev].tried = 0]
                  ELSE devices
Die(w) ==
    /\ lost[HostOf[w]] /\ Querying(w)
    /\ FirstQuery(w)
    /\ Goto(w, "dead")
    /\ lost' = [lost EXCEPT ![HostOf[w]] = FALSE]
    /\ UNCHANGED db

Work(w) ==
    \/ Connect(w)
    \/ Step(w) /\ Ready(w) /\ UNCHANGED lost
    \/ Die(w)
-----------------------------------------------------------------------------
\* A connection breaks, and the locks of its session are gone.
LoseConnection(h) ==
    /\ "lose" \in Ops
    /\ ~lost[h]
    /\ lock' = LocksWithout(db[h])
    /\ lost' = [lost EXCEPT ![h] = TRUE]
    /\ UNCHANGED <<db, devices, worker>>

\* The client library reconnects without a word for the next query (ping(True)
\* in connect()), when it is the sending that fails.
Reconnect(h) ==
    /\ lost[h]
    /\ lost' = [lost EXCEPT ![h] = FALSE]
    /\ UNCHANGED <<db, lock, devices, worker>>

\* The main thread is the first to query after that.  It ends the process,
\* which is started again (scripts/librenms-poller-service.service); the
\* commands end with it.
Restart(h) ==
    /\ lost[h]
    /\ db' = [db EXCEPT ![h] = h]
    /\ lost' = [lost EXCEPT ![h] = FALSE]
    /\ lock' = LocksWithout(db[h])
    /\ worker' = [w \in Worker |-> IF HostOf[w] = h THEN [Idle EXCEPT !.pc = "start"]
                                                    ELSE worker[w]]
    /\ UNCHANGED devices

Older(age, max) == IF age < max THEN age + 1 ELSE age
Waits(w) ==
    \/ worker[w].pc = "dead"
    \/ worker[w].pc = "query" /\ Oldest = {}
    \/ worker[w].pc = "sleep" /\ worker[w].wait > 0
    \/ worker[w].pc = "run" /\ worker[w].run < MaxRun
Tick ==
    /\ \A w \in Worker : worker[w].pc = "run" => worker[w].run < MaxRun
    /\ Prompt => \A w \in Worker : Waits(w)
    /\ devices' = [d \in Device |-> [devices[d] EXCEPT
            !.polled = Older(@, Horizon), !.discovered = Older(@, DiscFreq + 1),
            !.tried = Older(@, DownRetry + 1)]]
    /\ worker' = [w \in Worker |-> [worker[w] EXCEPT
            !.wait = Left(@, 1), !.disc = Left(@, 1),
            !.run = IF worker[w].pc = "run" THEN @ + 1 ELSE @]]
    /\ UNCHANGED <<db, lost, lock>>

Next ==
    \/ \E w \in Worker : Work(w)
    \/ \E h \in Host : LoseConnection(h) \/ Reconnect(h) \/ Restart(h)
    \/ Tick

Spec == Init /\ [][Next]_vars

\* Threads are scheduled, commands end and time passes.
FairSpec == Spec /\ (\A w \in Worker : WF_vars(Work(w))) /\ WF_vars(Tick)
-----------------------------------------------------------------------------
Running(w, act, d) ==
    /\ worker[w].pc \in {"check", "run"}
    /\ worker[w].act = act /\ worker[w].dev = d

\* "Concurrency is managed using mysql GET_LOCK to ensure that devices are
\* only being polled by one device at at time" (doc/Extensions/
\* Poller-Service.md:27), and likewise for discoveries.
OneAtATime ==
    \A d \in Device, act \in {"poll", "discovery"}, v, w \in Worker :
        Running(v, act, d) /\ Running(w, act, d) => v = w

\* Of the workers that wait for a device's turn or choose its action, only
\* one has passed the queue lock (poller-service.py:288-310).
OneInQueue ==
    \A v, w \in Worker :
        /\ worker[v].pc \in {"sleep", "attempt", "lock", "giveup", "unqueue"}
        /\ worker[w].pc \in {"sleep", "attempt", "lock", "giveup", "unqueue"}
        /\ worker[v].dev = worker[w].dev
        => v = w

\* No lock is left behind: whoever holds one is still going to release it,
\* else dev_query would never find the device again.  The exception is the
\* lock that a thread asked for in the query that ended it.
Uses(w, l) ==
    \/ /\ l = QueueLock(w)
       /\ worker[w].pc \in {"sleep", "attempt", "lock", "giveup", "refused", "unqueue"}
    \/ l = ActionLock(w) /\ worker[w].pc \in {"unqueue", "check", "run", "unlock"}
Abandoned(w, l) == worker[w].pc = "dead" /\ l \in {QueueLock(w), ActionLock(w)}
NoLockLeft ==
    \A l \in Lock : lock[l] # Free =>
        \E w \in Worker : /\ Uses(w, l) \/ Abandoned(w, l)
                          /\ Conn(w) = lock[l].by

\* Every device that answers is polled again and again, and every other one
\* tried (poller-service.py:5-8: "should poll every device every
\* $poll_frequency seconds, but should gracefully degrade"), although a device
\* whose polls are not stored comes first in dev_query for ever.
PolledAgain ==
    \A d \in Device :
        /\ d \notin Flaky => []<>(\E w \in Worker : Running(w, "poll", d))
        /\ []<>(\E w \in Worker, act \in {"poll", "discovery"} : Running(w, act, d))
=============================================================================
