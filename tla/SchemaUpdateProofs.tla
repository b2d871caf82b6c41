------------------------- MODULE SchemaUpdateProofs -------------------------
(***************************************************************************)
(* What update.php guarantees for any number of programs and files, of     *)
(* which several may race for the lock.  SchemaUpdate inherits OneHolder   *)
(* from FileLock, whose specification it implements.                       *)
(***************************************************************************)
EXTENDS SchemaUpdate, FileLockProofs, FiniteSetTheorems

\* The programs use the lock file as FileLock says: nothing else writes it.
THEOREM UsesLock == Spec => LockSpec
<1>1. Init => LockInit
  BY DEF Init
<1>2. [Next]_vars => [LockNext]_lockVars
  <2>1. ASSUME NEW p \in Process, Run(p) PROVE [LockNext]_lockVars
    BY <2>1 DEF Run, Acquire, Check, ReadRev, Apply, StoreVersion, ReturnEarly,
                End, Exit, LockNext, lockVars
  <2>2. ASSUME NEW p \in Process, Die(p) PROVE LockNext
    BY <2>2 DEF Die, LockNext
  <2>3. ASSUME NEW x \in Pid, OtherPrograms(x) PROVE LockNext
    BY <2>3 DEF OtherPrograms, LockNext
  <2>4. QED
    BY <2>1, <2>2, <2>3 DEF Next, vars, lockVars
<1>3. QED
  BY <1>1, <1>2, PTL DEF Spec, LockSpec

\* Every variable keeps its type; the version is one of a file.
THEOREM TypeCorrect == Spec => []TypeOK
<1> DEFINE Own == /\ version \in 0..Latest
                  /\ ran \in [1..Latest -> Nat]
                  /\ at \in [Process -> {"check", "read", "files", "store"}]
                  /\ rev \in [Process -> 0..Latest]
                  /\ crashes \in 0..MaxCrashes
                  /\ joined \in 0..MaxJoined
                  /\ overlapped \subseteq Process
<1>1. Init => Own
  BY SchemaAssumption DEF Init
<1>2. Own /\ [Next]_vars => Own'
  <2> SUFFICES ASSUME Own, [Next]_vars PROVE Own'
    OBVIOUS
  <2> USE SchemaAssumption
  <2>1. ASSUME NEW p \in Process, Acquire(p) \/ Check(p) \/ ReadRev(p) PROVE Own'
    <3>1. overlapped' \subseteq Process
      BY <2>1 DEF Acquire, Check, ReadRev, Meet, InsideThen
    <3>2. joined' \in 0..MaxJoined
      BY <2>1 DEF Acquire, Check, ReadRev
    <3>3. QED
      BY <2>1, <3>1, <3>2 DEF Acquire, Check, ReadRev, Goto
  <2>2. ASSUME NEW p \in Process, Apply(p) PROVE Own'
    <3>1. rev[p] \in 0..Latest /\ rev[p] + 1 \in 1..Latest
      BY <2>2 DEF Apply
    <3>2. ran' \in [1..Latest -> Nat]
      BY <2>2, <3>1 DEF Apply
    <3>3. QED
      BY <2>2, <3>1, <3>2 DEF Apply, Goto
  <2>3. ASSUME NEW p \in Process, StoreVersion(p) PROVE Own'
    BY <2>3 DEF StoreVersion, Goto
  <2>4. ASSUME NEW p \in Process, ReturnEarly(p) \/ End(p) \/ Exit(p) PROVE Own'
    BY <2>4 DEF ReturnEarly, End, Exit, Goto, Meet, InsideThen, schemaVars
  <2>5. ASSUME NEW p \in Process, Die(p) PROVE Own'
    BY <2>5 DEF Die, Meet, InsideThen
  <2>6. ASSUME NEW x \in Pid, OtherPrograms(x) PROVE Own'
    BY <2>6 DEF OtherPrograms, schemaVars
  <2>7. CASE UNCHANGED vars
    BY <2>7 DEF vars, schemaVars
  <2>8. QED
    BY <2>1, <2>2, <2>3, <2>4, <2>5, <2>6, <2>7 DEF Next, Run
<1>3. Own /\ LockTypeOK => TypeOK
  BY DEF TypeOK
<1> HIDE DEF Own
<1>4. Spec => []Own
  BY <1>1, <1>2, PTL DEF Spec
<1>5. QED
  BY <1>3, <1>4, UsesLock, LockTypeCorrect, PTL
-----------------------------------------------------------------------------
(***************************************************************************)
(* No file is skipped, with any number of programs at once.                *)
(***************************************************************************)
Behind(n) == \A f \in 1..n : ran[f] > 0

\* A program has run, or found run, the files up to its own $db_rev.
Ran ==
    /\ Behind(version)
    /\ \A p \in Process :
         step[p] = "in" /\ at[p] \in {"files", "store"} => Behind(rev[p])

\* If every file can be read, the version never passes a file that was not
\* run, whatever programs do at once or die of.
THEOREM NeverSkipped ==
  ASSUME Unreadable = {}
  PROVE  Spec => []NoFileSkipped
<1>1. Init => Ran
  BY SchemaAssumption DEF Init, LockInit, Ran, Behind
<1>2. Ran /\ TypeOK /\ [Next]_vars => Ran'
  <2> SUFFICES ASSUME Ran, TypeOK, [Next]_vars PROVE Ran'
    OBVIOUS
  <2> USE SchemaAssumption DEF TypeOK, LockTypeOK
  <2>1. ASSUME NEW p \in Process, Acquire(p) PROVE Ran'
    BY <2>1 DEF Acquire, Take, Start, Peek, Look, Write, At, Ran, Behind
  <2>2. ASSUME NEW p \in Process, Check(p) PROVE Ran'
    BY <2>2 DEF Check, Goto, ReleaseLock, At, lockVars, Ran, Behind
  <2>3. ASSUME NEW p \in Process, ReadRev(p) PROVE Ran'
    BY <2>3 DEF ReadRev, Goto, lockVars, Ran, Behind
  <2>4. ASSUME NEW p \in Process, Apply(p) PROVE Ran'
    <3>1. rev[p] + 1 \in 1..Latest /\ ran' = [ran EXCEPT ![rev[p] + 1] = @ + 1]
      BY <2>4 DEF Apply
    <3>2. \A f \in 1..Latest : ran'[f] >= ran[f]
      BY <3>1
    <3>3. ran'[rev[p] + 1] > 0
      BY <3>1
    <3>4. Behind(rev[p])
      BY <2>4 DEF Apply, Goto, Ran
    <3>5. rev'[p] = rev[p] + 1
      BY <2>4 DEF Apply
    <3>6. Behind(rev[p])'
      <4> SUFFICES ASSUME NEW f \in 1..(rev[p] + 1) PROVE ran'[f] > 0
        BY <3>5 DEF Behind
      <4>1. CASE f = rev[p] + 1
        BY <3>3, <4>1
      <4>2. CASE f # rev[p] + 1
        BY <3>1, <3>2, <3>4, <4>2 DEF Behind
      <4>3. QED
        BY <4>1, <4>2
    <3>7. QED
      BY <2>4, <3>2, <3>6 DEF Apply, Goto, lockVars, Ran, Behind
  <2>5. ASSUME NEW p \in Process, StoreVersion(p) PROVE Ran'
    BY <2>5 DEF StoreVersion, Goto, lockVars, Ran, Behind
  <2>6. ASSUME NEW p \in Process, ReturnEarly(p) \/ End(p) PROVE Ran'
    BY <2>6 DEF ReturnEarly, End, Goto, Keep, ReleaseLock, At, Ran, Behind
  <2>7. ASSUME NEW p \in Process, Exit(p) \/ Die(p) PROVE Ran'
    BY <2>7 DEF Exit, Die, Leave, Crash, At, schemaVars, Ran, Behind
  <2>8. ASSUME NEW x \in Pid, OtherPrograms(x) PROVE Ran'
    BY <2>8 DEF OtherPrograms, OtherStarts, OtherEnds, schemaVars, Ran, Behind
  <2>9. CASE UNCHANGED vars
    BY <2>9 DEF vars, lockVars, schemaVars, Ran, Behind
  <2>10. QED
    BY <2>1, <2>2, <2>3, <2>4, <2>5, <2>6, <2>7, <2>8, <2>9 DEF Next, Run
<1>3. Ran => NoFileSkipped
  BY DEF Ran, Behind, NoFileSkipped
<1>4. QED
  BY <1>1, <1>2, <1>3, TypeCorrect, PTL DEF Spec
-----------------------------------------------------------------------------
(***************************************************************************)
(* How often a file is run.  Each program inside that has the file still   *)
(* ahead of it will run it once more; one that comes in alone has a file   *)
(* ahead of it only if a crash or a companion left it behind.              *)
(***************************************************************************)
Reader(p) == step[p] = "in" /\ at[p] \in {"files", "store"}
Unread(p) == step[p] = "in" /\ at[p] \in {"check", "read"}

Low(f) == {p \in Process : Reader(p) /\ rev[p] < f}
Due(f) == Low(f) \union {p \in Process : Unread(p) /\ (version < f \/ Low(f) # {})}
Doing(f) == {p \in Process : step[p] = "in" /\ at[p] = "store" /\ rev[p] = f}
Settled(f) == Due(f) = {} /\ Doing(f) = {} /\ version < f

Bound(f) ==
    /\ ran[f] + Cardinality(Due(f)) <= 1 + crashes + joined
    /\ Settled(f) => ran[f] <= crashes + joined

\* The programs with a file ahead of them are finitely many.
LEMMA DueFinite ==
  ASSUME NEW f PROVE IsFiniteSet(Due(f)) /\ Cardinality(Due(f)) \in Nat
<1>1. Due(f) \subseteq Process
  BY DEF Due, Low
<1>2. QED
  BY <1>1, SchemaAssumption, FS_Subset, FS_CardinalityType

\* Fewer programs with the file ahead of them are fewer.
LEMMA DueFewer ==
  ASSUME NEW f, NEW S, S \subseteq Due(f)
  PROVE  /\ IsFiniteSet(S) /\ Cardinality(S) \in Nat
         /\ Cardinality(S) <= Cardinality(Due(f))
         /\ S # Due(f) => Cardinality(S) < Cardinality(Due(f))
         /\ Due(f) # {} => Cardinality(Due(f)) > 0
<1>1. IsFiniteSet(Due(f)) /\ Cardinality(Due(f)) \in Nat
  BY DueFinite
<1>2. /\ IsFiniteSet(S) /\ Cardinality(S) <= Cardinality(Due(f))
      /\ Cardinality(S) = Cardinality(Due(f)) => S = Due(f)
  BY <1>1, FS_Subset
<1>3. Cardinality(S) \in Nat
  BY <1>2, FS_CardinalityType
<1>4. Due(f) # {} => Cardinality(Due(f)) # 0
  BY <1>1, FS_EmptySet
<1>5. QED
  BY <1>1, <1>2, <1>3, <1>4

\* The file is run by nobody, and nobody gets it ahead of him.
LEMMA NotRun ==
  ASSUME TypeOK, TypeOK', NEW f \in 1..Latest, Bound(f),
         Due(f)' \subseteq Due(f), ran'[f] = ran[f],
         crashes' >= crashes, joined' = joined,
         Settled(f)' => Due(f) # {} \/ crashes' = crashes + 1 \/ Settled(f)
  PROVE  Bound(f)'
<1> USE SchemaAssumption
<1> DEFINE n == Cardinality(Due(f))
           m == Cardinality(Due(f)')
<1>1. ran[f] \in Nat /\ crashes \in Nat /\ crashes' \in Nat /\ joined \in Nat
  BY DEF TypeOK
<1>2. /\ n \in Nat /\ m \in Nat /\ m <= n
      /\ Due(f) # {} => n > 0
  BY DueFinite, DueFewer
<1>3. ran[f] + n <= 1 + crashes + joined
  BY DEF Bound
<1>4. Settled(f) => ran[f] <= crashes + joined
  BY DEF Bound
<1>5. Cardinality(Due(f))' = m
  OBVIOUS
<1> HIDE DEF n, m
<1>6. ran'[f] + m <= 1 + crashes' + joined'
  BY <1>1, <1>2, <1>3
<1>7. Settled(f)' => ran'[f] <= crashes' + joined'
  BY <1>1, <1>2, <1>3, <1>4
<1>8. QED
  BY <1>5, <1>6, <1>7 DEF Bound

\* Nothing that counts has changed.
LEMMA SameBound ==
  ASSUME TypeOK, TypeOK', NEW f \in 1..Latest, Bound(f),
         Due(f)' = Due(f), Doing(f)' = Doing(f), version' = version,
         ran'[f] = ran[f], crashes' = crashes, joined' = joined
  PROVE  Bound(f)'
<1>1. crashes' >= crashes
  BY SchemaAssumption DEF TypeOK
<1>2. Settled(f)' => Settled(f)
  BY DEF Settled
<1>3. QED
  BY <1>1, <1>2, NotRun

\* A program takes the lock.
LEMMA AcquireBound ==
  ASSUME TypeOK, TypeOK', OneHolder', NEW f \in 1..Latest, Bound(f),
         NEW p \in Process, Acquire(p)
  PROVE  Bound(f)'
<1> USE SchemaAssumption DEF TypeOK, LockTypeOK
<1>1. /\ at' = [at EXCEPT ![p] = "check"] /\ step[p] # "in"
      /\ \A q \in Process \ {p} : step'[q] = step[q]
      /\ UNCHANGED <<version, ran, rev, crashes>>
  BY DEF Acquire, Take, Start, Peek, Look, Write, At
<1>2. \A q \in Process \ {p} : at'[q] = at[q]
  BY <1>1
<1>3. CASE step'[p] # "in"
  <2>1. joined' = joined
    BY <1>3 DEF Acquire, InsideThen
  <2>2. Low(f)' = Low(f)
    BY <1>1, <1>2, <1>3 DEF Low, Reader
  <2>3. Due(f)' = Due(f) /\ Doing(f)' = Doing(f)
    BY <1>1, <1>2, <1>3, <2>2 DEF Due, Doing, Unread
  <2>4. QED
    BY <1>1, <2>1, <2>3, SameBound
<1>4. CASE step'[p] = "in"
  <2>0. at'[p] = "check"
    BY <1>1
  <2>1. Low(f)' = Low(f)
    BY <1>1, <1>2, <1>4, <2>0 DEF Low, Reader
  <2>2. Due(f)' \subseteq Due(f) \union {p}
    BY <1>1, <1>2, <2>1 DEF Due, Unread
  <2>3. /\ IsFiniteSet(Due(f)) /\ Cardinality(Due(f)) \in Nat
        /\ p \notin Due(f)
    <3>1. p \notin Due(f)
      BY <1>1 DEF Due, Low, Reader, Unread
    <3>2. QED
      BY <3>1, DueFinite
  <2>4. /\ IsFiniteSet(Due(f) \union {p})
        /\ Cardinality(Due(f) \union {p}) = Cardinality(Due(f)) + 1
    BY <2>3, FS_AddElement
  <2>5. Cardinality(Due(f)') \in Nat /\ Cardinality(Due(f)') <= Cardinality(Due(f)) + 1
    BY <2>2, <2>4, FS_Subset, FS_CardinalityType, SMTT(20)
  <2>6. CASE Inside # {}
    <3>0. PICK q \in Process : step[q] = "in"
      BY <2>6 DEF Inside
    <3>1. raced'
      BY <1>1, <1>4, <3>0 DEF OneHolder
    <3>2. joined' = joined + 1
      BY <1>4, <2>6, <3>1 DEF Acquire, InsideThen
    <3>3. ran[f] \in Nat /\ crashes \in Nat /\ joined \in Nat
      OBVIOUS
    <3>4. ran[f] + Cardinality(Due(f)) <= 1 + crashes + joined
      BY DEF Bound
    <3>5. ran'[f] + Cardinality(Due(f)') <= 1 + crashes' + joined'
      BY <1>1, <2>3, <2>5, <3>2, <3>3, <3>4
    <3>6. ran'[f] <= crashes' + joined'
      BY <1>1, <2>3, <3>2, <3>3, <3>4
    <3>7. QED
      BY <3>5, <3>6 DEF Bound
  <2>7. CASE Inside = {}
    <3>1. Low(f) = {} /\ Due(f) = {} /\ Doing(f) = {}
      BY <2>7 DEF Inside, Low, Due, Doing, Reader, Unread
    <3>2. joined' = joined
      BY <2>7 DEF Acquire
    <3>3. CASE version < f
      <4>1. Settled(f)
        BY <3>1, <3>3 DEF Settled
      <4>2. ran[f] <= crashes + joined
        BY <4>1 DEF Bound
      <4>3. Cardinality(Due(f)') <= 1
        BY <2>5, <3>1, FS_EmptySet
      <4>4. p \in Due(f)'
        BY <1>1, <1>4, <2>0, <3>3 DEF Due, Unread
      <4>5. ran'[f] + Cardinality(Due(f)') <= 1 + crashes' + joined'
        BY <1>1, <2>5, <3>2, <4>2, <4>3
      <4>6. QED
        BY <4>4, <4>5 DEF Bound, Settled
    <3>4. CASE ~(version < f)
      <4>1. Due(f)' \subseteq Due(f)
        BY <1>1, <1>2, <2>1, <3>1, <3>4 DEF Due
      <4>2. ~Settled(f)'
        BY <1>1, <3>4 DEF Settled
      <4>3. crashes' >= crashes
        BY <1>1
      <4>4. QED
        BY <1>1, <3>2, <4>1, <4>2, <4>3, NotRun
    <3>5. QED
      BY <3>3, <3>4
  <2>8. QED
    BY <2>6, <2>7
<1>5. QED
  BY <1>3, <1>4

\* A program compares the version with the last file, or reads it.
LEMMA ReadBound ==
  ASSUME TypeOK, TypeOK', NEW f \in 1..Latest, Bound(f),
         NEW p \in Process, Check(p) \/ ReadRev(p)
  PROVE  Bound(f)'
<1> USE SchemaAssumption DEF TypeOK, LockTypeOK
<1>1. /\ UNCHANGED <<version, ran, crashes, joined>> /\ crashes' >= crashes
      /\ step[p] = "in" /\ Unread(p)
      /\ \A q \in Process \ {p} : /\ step'[q] = step[q] /\ at'[q] = at[q]
                                  /\ rev'[q] = rev[q]
  BY DEF Check, ReadRev, Goto, ReleaseLock, At, Unread, lockVars
<1>2. CASE Check(p)
  <2>1. /\ at'[p] \in {"check", "read"} /\ rev' = rev
        /\ step'[p] # "in" => ~(version < f)
        /\ step'[p] = "in" => step' = step
    BY <1>2 DEF Check, Goto, ReleaseLock, At, lockVars
  <2>2. Low(f)' = Low(f)
    BY <1>1, <2>1 DEF Low, Reader, Unread
  <2>3. Due(f)' \subseteq Due(f)
    BY <1>1, <2>1, <2>2 DEF Due, Unread
  <2>4. Settled(f)' => Settled(f)
    <3>1. SUFFICES ASSUME Settled(f)' PROVE Settled(f)
      OBVIOUS
    <3>2. step'[p] = "in"
      BY <1>1, <2>1, <3>1 DEF Settled
    <3>3. Due(f)' = Due(f) /\ Doing(f)' = Doing(f)
      BY <1>1, <2>1, <2>2, <3>2 DEF Due, Doing, Unread
    <3>4. QED
      BY <1>1, <3>1, <3>3 DEF Settled
  <2>5. QED
    BY <1>1, <2>3, <2>4, NotRun
<1>3. CASE ReadRev(p)
  <2>1. step' = step /\ at'[p] = "files" /\ rev'[p] = version
    BY <1>3 DEF ReadRev, Goto, lockVars
  <2>2. Low(f)' = Low(f) \union (IF version < f THEN {p} ELSE {})
    BY <1>1, <2>1 DEF Low, Reader, Unread
  <2>3. Due(f)' \subseteq Due(f)
    BY <1>1, <2>1, <2>2 DEF Due, Unread
  <2>4. ~Settled(f)'
    BY <1>1, <2>2 DEF Settled, Due
  <2>5. QED
    BY <1>1, <2>3, <2>4, NotRun
<1>4. QED
  BY <1>2, <1>3

\* A program runs a file.
LEMMA ApplyBound ==
  ASSUME TypeOK, TypeOK', NEW f \in 1..Latest, Bound(f),
         NEW p \in Process, Apply(p)
  PROVE  Bound(f)'
<1> USE SchemaAssumption DEF TypeOK, LockTypeOK
<1>1. /\ UNCHANGED <<version, crashes, joined>> /\ crashes' >= crashes /\ step' = step
      /\ step[p] = "in" /\ at[p] = "files" /\ at'[p] = "store"
      /\ rev[p] \in Nat /\ rev'[p] = rev[p] + 1
      /\ \A q \in Process \ {p} : at'[q] = at[q] /\ rev'[q] = rev[q]
  BY DEF Apply, Goto, lockVars
<1>2. CASE rev[p] + 1 = f
  <2>1. ran'[f] <= ran[f] + 1
    BY <1>2 DEF Apply
  <2>2. p \in Low(f)
    BY <1>1, <1>2 DEF Low, Reader
  <2>3. Low(f)' = Low(f) \ {p}
    BY <1>1, <1>2 DEF Low, Reader
  <2>4. Due(f)' \subseteq Due(f) \ {p} /\ p \in Due(f)
    BY <1>1, <2>2, <2>3 DEF Due, Unread
  <2>5. /\ Cardinality(Due(f)') \in Nat /\ Cardinality(Due(f)) \in Nat
        /\ Cardinality(Due(f)') < Cardinality(Due(f))
    BY <2>4, DueFewer, DueFinite
  <2>6. ran[f] + Cardinality(Due(f)) <= 1 + crashes + joined
    BY DEF Bound
  <2>7. ran'[f] + Cardinality(Due(f)') <= 1 + crashes' + joined'
    <3>1. ran[f] \in Nat /\ ran'[f] \in Nat /\ crashes \in Nat /\ joined \in Nat
      OBVIOUS
    <3>2. QED
      BY <1>1, <2>1, <2>5, <2>6, <3>1
  <2>8. p \in Doing(f)'
    BY <1>1, <1>2 DEF Doing
  <2>9. QED
    BY <2>7, <2>8 DEF Bound, Settled
<1>3. CASE rev[p] + 1 # f
  <2>1. ran'[f] = ran[f]
    BY <1>3 DEF Apply
  <2>2. Low(f)' = Low(f)
    <3>1. rev'[p] < f <=> rev[p] < f
      BY <1>1, <1>3
    <3>2. \A q \in Process : q \in Low(f)' <=> q \in Low(f)
      BY <1>1, <3>1 DEF Low, Reader
    <3>3. QED
      BY <3>2 DEF Low
  <2>3. Due(f)' = Due(f) /\ Doing(f)' = Doing(f)
    BY <1>1, <1>3, <2>2, SMTT(20) DEF Due, Doing, Unread
  <2>4. QED
    BY <1>1, <2>1, <2>3, SameBound
<1>4. QED
  BY <1>2, <1>3

\* A program stores the version of the file it ran.
LEMMA StoreBound ==
  ASSUME TypeOK, TypeOK', NEW f \in 1..Latest, Bound(f),
         NEW p \in Process, StoreVersion(p)
  PROVE  Bound(f)'
<1> USE SchemaAssumption DEF TypeOK, LockTypeOK
<1>1. /\ UNCHANGED <<ran, crashes, joined, rev>> /\ crashes' >= crashes /\ step' = step
      /\ step[p] = "in" /\ at[p] = "store" /\ at'[p] = "files"
      /\ \A q \in Process \ {p} : at'[q] = at[q]
  BY DEF StoreVersion, Goto, lockVars
<1>2. Low(f)' = Low(f)
  BY <1>1 DEF Low, Reader
<1>3. version' < f => p \in Low(f)
  <2>1. version' = IF rev[p] = 1 /\ version > 1 THEN version ELSE rev[p]
    BY DEF StoreVersion
  <2>2. rev[p] \in Nat /\ version \in Nat
    OBVIOUS
  <2>3. version' < f => rev[p] < f
    BY <2>1, <2>2
  <2>4. QED
    BY <1>1, <2>3 DEF Low, Reader
<1>4. Due(f)' \subseteq Due(f)
  BY <1>1, <1>2, <1>3 DEF Due, Unread
<1>5. Settled(f)' => Due(f) # {}
  BY <1>3 DEF Settled, Due
<1>6. QED
  BY <1>1, <1>4, <1>5, NotRun

\* A program returns in the middle, or ends.
LEMMA EndBound ==
  ASSUME TypeOK, TypeOK', NEW f \in 1..Latest, Bound(f),
         NEW p \in Process, ReturnEarly(p) \/ End(p)
  PROVE  Bound(f)'
<1> USE SchemaAssumption DEF TypeOK, LockTypeOK
<1>1. /\ UNCHANGED <<version, ran, crashes, joined, rev>> /\ crashes' >= crashes
      /\ step[p] = "in" /\ at[p] = "files" /\ step'[p] = "leave"
      /\ \A q \in Process \ {p} : step'[q] = step[q] /\ at'[q] = at[q]
  BY DEF ReturnEarly, End, Goto, Keep, ReleaseLock, At
<1>2. Low(f)' = Low(f) \ {p}
  BY <1>1 DEF Low, Reader
<1>3. Due(f)' \subseteq Due(f)
  BY <1>1, <1>2 DEF Due, Unread
<1>4. CASE p \in Low(f)
  BY <1>1, <1>3, <1>4, NotRun DEF Due
<1>5. CASE p \notin Low(f)
  <2>1. Due(f)' = Due(f) /\ Doing(f)' = Doing(f)
    BY <1>1, <1>2, <1>5 DEF Due, Doing, Unread
  <2>2. QED
    BY <1>1, <2>1, SameBound
<1>6. QED
  BY <1>4, <1>5

\* A program ends, or dies anywhere.
LEMMA GoneBound ==
  ASSUME TypeOK, TypeOK', NEW f \in 1..Latest, Bound(f),
         NEW p \in Process, Exit(p) \/ Die(p)
  PROVE  Bound(f)'
<1> USE SchemaAssumption DEF TypeOK, LockTypeOK
<1>1. /\ UNCHANGED <<version, ran, joined, rev, at>> /\ crashes' >= crashes
      /\ step'[p] # "in"
      /\ \A q \in Process \ {p} : step'[q] = step[q]
  BY DEF Exit, Die, Leave, Crash, At, schemaVars
<1>2. Low(f)' \subseteq Low(f)
  BY <1>1 DEF Low, Reader
<1>3. Due(f)' \subseteq Due(f)
  BY <1>1, <1>2 DEF Due, Unread
<1>4. CASE Die(p)
  BY <1>1, <1>3, <1>4, NotRun DEF Die
<1>5. CASE Exit(p)
  <2>1. step[p] # "in" /\ crashes' = crashes
    BY <1>5 DEF Exit, Leave, At, schemaVars
  <2>2. Low(f)' = Low(f)
    BY <1>1, <2>1 DEF Low, Reader
  <2>3. Due(f)' = Due(f) /\ Doing(f)' = Doing(f)
    BY <1>1, <2>1, <2>2 DEF Due, Doing, Unread
  <2>4. QED
    BY <1>1, <2>1, <2>3, SameBound
<1>6. QED
  BY <1>4, <1>5

\* Every step keeps the bound of every file.
LEMMA BoundNext ==
  ASSUME TypeOK, TypeOK', OneHolder', NEW f \in 1..Latest, Bound(f), [Next]_vars
  PROVE  Bound(f)'
<1>1. ASSUME UNCHANGED <<step, schemaVars>> PROVE Bound(f)'
  <2>1. Low(f)' = Low(f)
    BY <1>1 DEF Low, Reader, schemaVars
  <2>2. Due(f)' = Due(f) /\ Doing(f)' = Doing(f)
    BY <1>1, <2>1 DEF Due, Doing, Unread, schemaVars
  <2>3. QED
    BY <1>1, <2>2, SameBound DEF schemaVars
<1>2. ASSUME NEW x \in Pid, OtherPrograms(x) PROVE Bound(f)'
  BY <1>1, <1>2 DEF OtherPrograms, OtherStarts, OtherEnds
<1>3. CASE UNCHANGED vars
  BY <1>1, <1>3 DEF vars, lockVars
<1>4. QED
  BY <1>2, <1>3, AcquireBound, ReadBound, ApplyBound, StoreBound, EndBound, GoneBound
  DEF Next, Run

Bounded == \A f \in 1..Latest : Bound(f)

\* A file is run at most once more than programs died or came in beside
\* another because of a race.
THEOREM RunOncePerCrash == Spec => []OncePerCrash
<1>1. Init => Bounded
  <2> SUFFICES ASSUME Init, NEW f \in 1..Latest PROVE Bound(f)
    BY DEF Bounded
  <2>1. Due(f) = {}
    BY DEF Init, LockInit, Due, Low, Reader, Unread
  <2>2. Cardinality(Due(f)) = 0
    BY <2>1, FS_EmptySet
  <2>3. ran[f] = (IF f <= version THEN 1 ELSE 0) /\ crashes = 0 /\ joined = 0
    BY DEF Init
  <2>4. version \in Int /\ f \in Int
    BY SchemaAssumption DEF Init
  <2>5. QED
    BY <2>2, <2>3, <2>4 DEF Bound, Settled
<1>2. Bounded /\ TypeOK /\ TypeOK' /\ OneHolder' /\ [Next]_vars => Bounded'
  BY BoundNext DEF Bounded
<1>3. Bounded /\ TypeOK => OncePerCrash
  <2> SUFFICES ASSUME Bounded, TypeOK, NEW f \in 1..Latest
               PROVE  ran[f] <= 1 + crashes + joined
    BY DEF OncePerCrash
  <2>1. ran[f] + Cardinality(Due(f)) <= 1 + crashes + joined
    BY DEF Bounded, Bound
  <2>2. Cardinality(Due(f)) \in Nat /\ ran[f] \in Nat /\ crashes \in Nat /\ joined \in Nat
    BY DueFinite, SchemaAssumption DEF TypeOK
  <2>3. QED
    BY <2>1, <2>2
<1>4. QED
  BY <1>1, <1>2, <1>3, UsesLock, OneHolderAlways, TypeCorrect, PTL DEF Spec
-----------------------------------------------------------------------------
(***************************************************************************)
(* Whoever was inside alone since his set_lock knows the version.          *)
(***************************************************************************)
Knows(p) ==
    /\ \A q \in Process : step[q] = "in" => q = p
    /\ at[p] = "files" => rev[p] = version
    /\ at[p] = "store" => rev[p] = version + 1

Undisturbed == \A p \in Process : step[p] = "in" => p \in overlapped \/ Knows(p)

LEMMA UndisturbedNext ==
  ASSUME TypeOK, TypeOK', OneHolder', Undisturbed, [Next]_vars
  PROVE  Undisturbed'
<1> USE SchemaAssumption DEF TypeOK, LockTypeOK
<1>1. ASSUME NEW p \in Process, Acquire(p) PROVE Undisturbed'
  <2>1. /\ at' = [at EXCEPT ![p] = "check"] /\ step[p] # "in"
        /\ \A q \in Process \ {p} : step'[q] = step[q] /\ at'[q] = at[q]
        /\ UNCHANGED <<version, rev>>
    BY <1>1 DEF Acquire, Take, Start, Peek, Look, Write, At
  <2>2. SUFFICES ASSUME NEW q \in Process, step'[q] = "in", q \notin overlapped'
                 PROVE  Knows(q)'
    BY DEF Undisturbed
  <2>3. q \notin overlapped /\ (raced' => InsideThen = {q})
    BY <1>1, <2>2 DEF Acquire, Meet, InsideThen
  <2>4. \A r \in Process : step'[r] = "in" => r = q
    BY <2>2, <2>3 DEF OneHolder, InsideThen
  <2>5. q # p => Knows(q)
    BY <2>1, <2>2, <2>3 DEF Undisturbed
  <2>6. QED
    BY <2>1, <2>4, <2>5 DEF Knows
<1>2. ASSUME NEW p \in Process, StoreVersion(p) PROVE Undisturbed'
  <2>1. /\ step[p] = "in" /\ step' = step /\ rev' = rev /\ overlapped' = overlapped
        /\ at[p] = "store" /\ at' = [at EXCEPT ![p] = "files"]
        /\ version' = IF rev[p] = 1 /\ version > 1 THEN version ELSE rev[p]
    BY <1>2 DEF StoreVersion, Goto, lockVars
  <2>2. SUFFICES ASSUME NEW q \in Process, step[q] = "in", q \notin overlapped
                 PROVE  Knows(q)'
    BY <2>1 DEF Undisturbed
  <2>3. Knows(q) /\ q = p
    BY <2>1, <2>2 DEF Undisturbed, Knows
  <2>4. version' = rev[p]
    BY <2>1, <2>3 DEF Knows
  <2>5. QED
    BY <2>1, <2>3, <2>4 DEF Knows
<1>3. ASSUME NEW p \in Process, ReadRev(p) \/ Apply(p) PROVE Undisturbed'
  <2>1. /\ step[p] = "in" /\ step' = step /\ UNCHANGED <<overlapped, version>>
        /\ \A q \in Process \ {p} : rev'[q] = rev[q] /\ at'[q] = at[q]
        /\ at'[p] = "files" => rev'[p] = version
        /\ at'[p] = "store" => at[p] = "files" /\ rev'[p] = rev[p] + 1
    BY <1>3 DEF ReadRev, Apply, Goto, lockVars
  <2>2. QED
    BY <2>1 DEF Undisturbed, Knows
<1>4. ASSUME NEW p \in Process, Check(p) \/ ReturnEarly(p) \/ End(p) PROVE Undisturbed'
  <2>1. /\ UNCHANGED <<version, rev>>
        /\ \A q \in Process \ {p} : step'[q] = step[q] /\ at'[q] = at[q]
        /\ step'[p] = "in" => step' = step /\ at'[p] \in {"check", "read"}
        /\ Meet
        /\ step[p] = "in"
    BY <1>4 DEF Check, ReturnEarly, End, Goto, Keep, ReleaseLock, At, lockVars
  <2>2. \A q \in Process : step'[q] = "in" /\ q \notin overlapped' => q \notin overlapped
    BY <2>1 DEF Meet, InsideThen
  <2>3. \A q \in Process : step'[q] = "in" => step[q] = "in"
    BY <2>1
  <2>4. QED
    BY <2>1, <2>2, <2>3 DEF Undisturbed, Knows
<1>5. ASSUME NEW p \in Process, Exit(p) \/ Die(p) PROVE Undisturbed'
  <2>1. /\ UNCHANGED <<version, rev, at>>
        /\ \A q \in Process : step'[q] = "in" => step[q] = "in"
        /\ Meet \/ overlapped' = overlapped
    BY <1>5 DEF Exit, Die, Leave, Crash, At, schemaVars
  <2>2. \A q \in Process : step'[q] = "in" /\ q \notin overlapped' => q \notin overlapped
    BY <2>1 DEF Meet, InsideThen
  <2>3. QED
    BY <2>1, <2>2 DEF Undisturbed, Knows
<1>6. ASSUME UNCHANGED <<step, schemaVars>> PROVE Undisturbed'
  BY <1>6 DEF schemaVars, Undisturbed, Knows
<1>7. ASSUME NEW x \in Pid, OtherPrograms(x) PROVE Undisturbed'
  BY <1>6, <1>7 DEF OtherPrograms, OtherStarts, OtherEnds
<1>8. CASE UNCHANGED vars
  BY <1>6, <1>8 DEF vars, lockVars
<1>9. QED
  BY <1>1, <1>2, <1>3, <1>4, <1>5, <1>7, <1>8 DEF Next, Run

\* The version in dbSchema is taken back by nobody who was inside alone.
THEOREM NeverBack == Spec => VersionGrows
<1>1. Init => Undisturbed
  BY DEF Init, LockInit, Undisturbed
<1>2. Undisturbed /\ TypeOK /\ TypeOK' /\ OneHolder' /\ [Next]_vars => Undisturbed'
  BY UndisturbedNext
<1>3. Undisturbed /\ TypeOK /\ [Next]_vars
      => [version' < version => \E p \in overlapped : StoreVersion(p)]_vars
  <2> SUFFICES ASSUME Undisturbed, TypeOK, [Next]_vars, version' < version
               PROVE  \E p \in overlapped : StoreVersion(p)
    OBVIOUS
  <2>1. version' # version
    BY SchemaAssumption DEF TypeOK
  <2>2. PICK p \in Process : StoreVersion(p)
    BY <2>1 DEF Next, Run, Acquire, Check, ReadRev, Apply, ReturnEarly, End,
                Exit, Die, OtherPrograms, vars, schemaVars
  <2>3. CASE p \notin overlapped
    <3>1. rev[p] = version + 1 /\ version \in Nat
      BY <2>2, <2>3, SchemaAssumption DEF StoreVersion, Goto, Undisturbed, Knows, TypeOK
    <3>2. version' = rev[p]
      BY <2>2, <3>1 DEF StoreVersion
    <3>3. QED
      BY <3>1, <3>2
  <2>4. QED
    BY <2>2, <2>3
<1>4. QED
  BY <1>1, <1>2, <1>3, UsesLock, OneHolderAlways, TypeCorrect, PTL DEF Spec, VersionGrows
=============================================================================
