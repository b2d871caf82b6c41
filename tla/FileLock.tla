------------------------------ MODULE FileLock ------------------------------
(***************************************************************************)
(* get_lock, set_lock and release_lock of includes/functions.php: a lock   *)
(* is a file that holds a process id, and it is held as long as a PHP      *)
(* program with that id runs.  set_lock looks first and writes then.       *)
(*                                                                         *)
(* A program that ends without release_lock leaves its file behind, which  *)
(* is harmless until another PHP program is given the same process id.     *)
(* The worker of a web server keeps its process id over many requests.     *)
(***************************************************************************)
EXTENDS Naturals

CONSTANTS
    Process,    \* programs that use the lock
    Peeking,    \* those that call get_lock first (discovery.php)
    Lasting,    \* those that are requests to a lasting PHP worker
    Pid, NoPid,
    MaxReused   \* bound: programs given the process id of a dead holder

ASSUME LockAssumption ==
    /\ Peeking \subseteq Process
    /\ Lasting \subseteq Process
    /\ NoPid \notin Pid
    /\ MaxReused \in Nat

VARIABLES
    lockfile,   \* the process id in the lock file, NoPid without a file
    pid,        \* the process id of each program that runs
    others,     \* those of other PHP programs
    step,       \* where a program is in its use of the lock
    reused,     \* counts up to MaxReused
    raced       \* history: two raced, and programs have been inside since

lockVars == <<lockfile, pid, others, step, reused, raced>>

LockTypeOK ==
    /\ lockfile \in Pid \union {NoPid}
    /\ pid \in [Process -> Pid \union {NoPid}]
    /\ others \subseteq Pid
    /\ step \in [Process -> {"out", "peek", "look", "write", "in", "leave"}]
    /\ reused \in 0..MaxReused
    /\ raced \in BOOLEAN

LockInit ==
    /\ lockfile = NoPid
    /\ pid = [p \in Process |-> NoPid]
    /\ others = {}
    /\ step = [p \in Process |-> "out"]
    /\ reused = 0
    /\ raced = FALSE

\* What `ps -e | grep php` lists.
Running == (others \union {pid[p] : p \in Process}) \ {NoPid}

\* Mutant: get_lock takes any file for a lock.
GetLockFile == lockfile # NoPid
GetLock == lockfile \in Running

\* Two programs have looked and neither has written; what that does is over
\* when the last program has left.
Race ==
    raced' = /\ raced \/ \E p, q \in Process :
                           p # q /\ step'[p] = "write" /\ step'[q] = "write"
             /\ \E p \in Process : step'[p] \in {"write", "in"}

At(p, from, to) ==
    /\ step[p] = from
    /\ step' = [step EXCEPT ![p] = to]
    /\ Race
-----------------------------------------------------------------------------
\* The kernel gives no id that is in use, and does not come back to the same
\* one for ever.
New(x) ==
    /\ x \notin Running
    /\ IF x = lockfile THEN reused < MaxReused /\ reused' = reused + 1
                       ELSE reused' = reused

Start(p) ==
    /\ At(p, "out", IF p \in Peeking THEN "peek" ELSE "look")
    /\ IF pid[p] = NoPid
       THEN \E x \in Pid : New(x) /\ pid' = [pid EXCEPT ![p] = x]
       ELSE UNCHANGED <<pid, reused>>
    /\ UNCHANGED <<lockfile, others>>

\* discovery.php: `if (get_lock('schema') === false)`.
Peek(p) ==
    /\ At(p, "peek", IF GetLock THEN "leave" ELSE "look")
    /\ UNCHANGED <<lockfile, pid, others, reused>>

\* Mutant: the program writes its id whatever it found.
LookAnyway(p) ==
    /\ At(p, "look", "write")
    /\ UNCHANGED <<lockfile, pid, others, reused>>

\* The first half of set_lock; a program that finds the lock held exits.
Look(p) ==
    /\ At(p, "look", IF GetLock THEN "leave" ELSE "write")
    /\ UNCHANGED <<lockfile, pid, others, reused>>

Write(p) ==
    /\ At(p, "write", "in")
    /\ lockfile' = pid[p]
    /\ UNCHANGED <<pid, others, reused>>

ReleaseLock(p) ==
    /\ At(p, "in", "leave")
    /\ lockfile' = NoPid
    /\ UNCHANGED <<pid, others, reused>>

\* The program goes on without a release.
Keep(p) ==
    /\ At(p, "in", "leave")
    /\ UNCHANGED <<lockfile, pid, others, reused>>

Ended(p) == IF p \in Lasting THEN pid ELSE [pid EXCEPT ![p] = NoPid]
Leave(p) ==
    /\ At(p, "leave", "out")
    /\ pid' = Ended(p)
    /\ UNCHANGED <<lockfile, others, reused>>

Crash(p) ==
    /\ step[p] # "out"
    /\ step' = [step EXCEPT ![p] = "out"]
    /\ pid' = [pid EXCEPT ![p] = NoPid]
    /\ Race
    /\ UNCHANGED <<lockfile, others, reused>>

OtherStarts ==
    /\ \E x \in Pid : New(x) /\ others' = others \union {x}
    /\ UNCHANGED <<lockfile, pid, step, raced>>
OtherEnds(x) ==
    /\ x \in others
    /\ others' = others \ {x}
    /\ UNCHANGED <<lockfile, pid, step, reused, raced>>

Take(p) == Start(p) \/ Peek(p) \/ Look(p) \/ Write(p)
LockNext ==
    \/ \E p \in Process : Take(p) \/ ReleaseLock(p) \/ Keep(p) \/ Leave(p) \/ Crash(p)
    \/ OtherStarts \/ \E x \in Pid : OtherEnds(x)

LockSpec == LockInit /\ [][LockNext]_lockVars
-----------------------------------------------------------------------------
\* Of the programs between set_lock and release_lock there is one at a time
\* (includes/sql-schema/update.php:27-100), whoever died and whatever process
\* ids were used again, unless two raced in set_lock (functions.php:2366-2372):
\* then there may be several until the last has left, and no longer.
OneHolder ==
    raced \/ \A p, q \in Process : step[p] = "in" /\ step[q] = "in" => p = q
=============================================================================
