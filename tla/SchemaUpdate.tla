---------------------------- MODULE SchemaUpdate ----------------------------
(***************************************************************************)
(* includes/sql-schema/update.php: apply the files of sql-schema/ above    *)
(* the version in dbSchema, one after the other, and store the version of  *)
(* each.  daily.sh runs it, discovery.php includes it if it finds the lock *)
(* 'schema' free, and so does the installer, a request to the web server,  *)
(* which returns in the middle when it has taken too long.  Many threads   *)
(* of poller-service.py and discovery-wrapper.py start discovery.php, so   *)
(* that programs do race for the lock and run beside each other.           *)
(*                                                                         *)
(* Of a file only its number and how often its statements were run count.  *)
(***************************************************************************)
EXTENDS FileLock, Integers, FiniteSets

CONSTANTS
    Latest,       \* the number of the last file
    MaxCrashes,   \* bound: programs that die
    MaxJoined,    \* bound: programs that come in beside another after a race
    Unreadable    \* files that file_get_contents does not return

ASSUME SchemaAssumption ==
    /\ Latest \in Nat /\ MaxCrashes \in Nat /\ MaxJoined \in Nat
    /\ IsFiniteSet(Process)
    /\ Unreadable \subseteq 1..Latest

VARIABLES
    version,   \* the version in dbSchema, 0 without one
    ran,       \* how often the statements of a file were run
    at,        \* the line a program inside the lock is at
    rev,       \* its $db_rev
    crashes,
    joined,      \* history: how many came in beside another after a race
    overlapped   \* history: those inside that were inside together after one

schemaVars == <<version, ran, at, rev, crashes, joined, overlapped>>
vars == <<lockVars, schemaVars>>

TypeOK ==
    /\ LockTypeOK
    /\ version \in 0..Latest
    /\ ran \in [1..Latest -> Nat]
    /\ at \in [Process -> {"check", "read", "files", "store"}]
    /\ rev \in [Process -> 0..Latest]
    /\ crashes \in 0..MaxCrashes
    /\ joined \in 0..MaxJoined
    /\ overlapped \subseteq Process

Init ==
    /\ LockInit
    /\ version \in 0..Latest
    /\ ran = [f \in 1..Latest |-> IF f <= version THEN 1 ELSE 0]
    /\ at = [p \in Process |-> "check"]
    /\ rev = [p \in Process |-> 0]
    /\ crashes = 0
    /\ joined = 0
    /\ overlapped = {}

Goto(p, here, there) ==
    /\ step[p] = "in" /\ at[p] = here
    /\ at' = [at EXCEPT ![p] = there]
-----------------------------------------------------------------------------
Inside == {p \in Process : step[p] = "in"}
InsideThen == {p \in Process : step'[p] = "in"}

\* Those inside after a race that are not alone there.
Meet ==
    overlapped' = {p \in InsideThen : \/ p \in overlapped
                                      \/ raced' /\ InsideThen # {p}}

Acquire(p) ==
    /\ Take(p)
    /\ at' = [at EXCEPT ![p] = "check"]
    /\ IF raced' /\ p \in InsideThen /\ Inside # {}
       THEN joined < MaxJoined /\ joined' = joined + 1
       ELSE UNCHANGED joined
    /\ Meet
    /\ UNCHANGED <<version, ran, rev, crashes>>

\* db_schema_is_current
Check(p) ==
    /\ Goto(p, "check", IF version >= Latest THEN "check" ELSE "read")
    /\ IF version >= Latest THEN ReleaseLock(p) ELSE UNCHANGED lockVars
    /\ Meet
    /\ UNCHANGED <<version, ran, rev, crashes, joined>>

ReadRev(p) ==
    /\ Goto(p, "read", "files")
    /\ rev' = [rev EXCEPT ![p] = version]
    /\ UNCHANGED <<lockVars, version, ran, crashes, joined, overlapped>>

\* The statements of the next file; errors are only counted.
Apply(p) ==
    /\ rev[p] < Latest
    /\ Goto(p, "files", "store")
    /\ rev' = [rev EXCEPT ![p] = @ + 1]
    /\ ran' = IF rev[p] + 1 \in Unreadable THEN ran
              ELSE [ran EXCEPT ![rev[p] + 1] = @ + 1]
    /\ UNCHANGED <<lockVars, version, crashes, joined, overlapped>>

\* Mutants: the version is that of the last file, that of the next one, or
\* not stored once there is one.
StoreLatest(p) ==
    /\ Goto(p, "store", "files")
    /\ version' = Latest
    /\ UNCHANGED <<lockVars, ran, rev, crashes, joined, overlapped>>
StoreNext(p) ==
    /\ Goto(p, "store", "files")
    /\ version' = rev[p] + 1
    /\ UNCHANGED <<lockVars, ran, rev, crashes, joined, overlapped>>
StoreFirst(p) ==
    /\ Goto(p, "store", "files")
    /\ version' = IF version = 0 THEN rev[p] ELSE version
    /\ UNCHANGED <<lockVars, ran, rev, crashes, joined, overlapped>>

\* The first version is inserted, and the highest row counts; an update
\* replaces them all.
StoreVersion(p) ==
    /\ Goto(p, "store", "files")
    /\ version' = IF rev[p] = 1 /\ version > 1 THEN version ELSE rev[p]
    /\ UNCHANGED <<lockVars, ran, rev, crashes, joined, overlapped>>

\* The installer's request has run for more than 45 seconds.
ReturnEarly(p) ==
    /\ p \in Lasting
    /\ rev[p] < Latest
    /\ Goto(p, "files", "check")
    /\ Keep(p)
    /\ Meet
    /\ UNCHANGED <<version, ran, rev, crashes, joined>>

End(p) ==
    /\ rev[p] >= Latest
    /\ Goto(p, "files", "check")
    /\ ReleaseLock(p)
    /\ Meet
    /\ UNCHANGED <<version, ran, rev, crashes, joined>>

Exit(p) == Leave(p) /\ UNCHANGED schemaVars

Die(p) ==
    /\ crashes < MaxCrashes
    /\ Crash(p)
    /\ crashes' = crashes + 1
    /\ Meet
    /\ UNCHANGED <<version, ran, at, rev, joined>>

Run(p) ==
    \/ Acquire(p) \/ Check(p) \/ ReadRev(p) \/ Apply(p) \/ StoreVersion(p)
    \/ ReturnEarly(p) \/ End(p) \/ Exit(p)

OtherPrograms(x) ==
    /\ OtherStarts \/ OtherEnds(x)
    /\ UNCHANGED schemaVars

Next ==
    \/ \E p \in Process : Run(p) \/ Die(p)
    \/ \E x \in Pid : OtherPrograms(x)

Spec == Init /\ [][Next]_vars

\* Cron and the user start the programs again, and other programs end.
FairSpec ==
    /\ Spec
    /\ \A p \in Process : SF_vars(Run(p))
    /\ \A x \in Pid : SF_vars(OtherEnds(x) /\ UNCHANGED schemaVars)
-----------------------------------------------------------------------------
\* No file is passed over (update.php:45-46): those up to the version were
\* run, by whichever program, and whichever others died or ran beside it.
NoFileSkipped == \A f \in 1..version : ran[f] > 0

\* No file is run twice, but for one program that died before it stored
\* the version (update.php:64-89) and for one that came in beside another
\* because of a race: each of those costs a file one run at most, however
\* often the version goes back.
OncePerCrash == \A f \in 1..Latest : ran[f] <= 1 + crashes + joined

\* The version goes back (update.php:83-88 store what was read once) by
\* nobody but a program that was inside with another after a race.
VersionGrows ==
    [][version' < version => \E p \in overlapped : StoreVersion(p)]_vars

\* The schema is brought up to date in the end, although programs died and
\* left their lock files (functions.php:2348-2355), unless a request to a
\* worker that lives on returned with the lock.
HeldByWorker ==
    \E p \in Lasting : step[p] # "in" /\ pid[p] # NoPid /\ lockfile = pid[p]
SchemaUpdated == <>[](version = Latest \/ HeldByWorker)
=============================================================================
