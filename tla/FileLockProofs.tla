--------------------------- MODULE FileLockProofs ---------------------------
(***************************************************************************)
(* The lock files of FileLock: types, and one holder at a time from the    *)
(* moment that the last of those that raced in set_lock has left.          *)
(***************************************************************************)
EXTENDS FileLock, TLAPS

\* The types hold at first.
LEMMA LockInitType == LockInit => LockTypeOK
<1> SUFFICES ASSUME LockInit PROVE LockTypeOK
  OBVIOUS
<1>1. raced \in BOOLEAN
  BY DEF LockInit
<1>2. QED
  BY <1>1, LockAssumption DEF LockInit, LockTypeOK

\* Every variable of the lock keeps its type, for any programs and ids.
THEOREM LockTypeCorrect == LockSpec => []LockTypeOK
<1>1. LockInit => LockTypeOK
  BY LockInitType
<1>2. LockTypeOK /\ [LockNext]_lockVars => LockTypeOK'
  <2> SUFFICES ASSUME LockTypeOK, [LockNext]_lockVars PROVE LockTypeOK'
    OBVIOUS
  <2> USE LockAssumption DEF LockTypeOK
  <2>1. ASSUME NEW p \in Process, Start(p) PROVE LockTypeOK'
    BY <2>1 DEF Start, New, At, Race
  <2>2. ASSUME NEW p \in Process, Peek(p) \/ Look(p) \/ Write(p) PROVE LockTypeOK'
    BY <2>2 DEF Peek, Look, Write, At, Race
  <2>3. ASSUME NEW p \in Process, ReleaseLock(p) \/ Keep(p) PROVE LockTypeOK'
    BY <2>3 DEF ReleaseLock, Keep, At, Race
  <2>4. ASSUME NEW p \in Process, Leave(p) \/ Crash(p) PROVE LockTypeOK'
    BY <2>4 DEF Leave, Crash, Ended, At, Race
  <2>5. CASE OtherStarts
    BY <2>5 DEF OtherStarts, New
  <2>6. ASSUME NEW x \in Pid, OtherEnds(x) PROVE LockTypeOK'
    BY <2>6 DEF OtherEnds
  <2>7. CASE UNCHANGED lockVars
    BY <2>7 DEF lockVars
  <2>8. QED
    BY <2>1, <2>2, <2>3, <2>4, <2>5, <2>6, <2>7 DEF LockNext, Take
<1>3. QED
  BY <1>1, <1>2, PTL DEF LockSpec
-----------------------------------------------------------------------------
\* The ids of programs that run are their own.
OwnIds ==
    /\ \A p \in Process : step[p] # "out" => pid[p] \in Pid
    /\ \A p \in Process : pid[p] \notin others
    /\ \A p, q \in Process : pid[p] = pid[q] /\ pid[p] # NoPid => p = q

\* Whoever writes the file is alone, and its holder is in it.
Exclusive ==
    /\ \A p \in Process : step[p] = "in" => lockfile = pid[p]
    /\ \A p, q \in Process : step[p] = "write" /\ step[q] \in {"write", "in"} => p = q

LockInv == LockTypeOK /\ OwnIds /\ (raced \/ Exclusive)

\* The invariant says what OneHolder asks: the file has one holder's id.
LEMMA OneByFile == LockInv => OneHolder
  BY LockAssumption DEF LockInv, LockTypeOK, OwnIds, Exclusive, OneHolder

\* After a step without a race either nobody is inside, or there had been no
\* race before and no two programs are about to write.
LEMMA RaceOver ==
  ASSUME Race, ~raced'
  PROVE  \/ \A p \in Process : step'[p] \notin {"write", "in"}
         \/ /\ ~raced
            /\ \A p, q \in Process : step'[p] = "write" /\ step'[q] = "write" => p = q
  BY DEF Race

\* Where nobody is inside there is nothing to exclude.
LEMMA Nobody ==
  ASSUME \A p \in Process : step'[p] \notin {"write", "in"}
  PROVE  Exclusive'
  BY DEF Exclusive

\* A program that saw no lock was not preceded by one that holds it.
LEMMA LookAlone ==
  ASSUME LockInv, NEW p \in Process, Look(p), ~raced'
  PROVE  Exclusive'
<1> USE LockAssumption DEF LockInv, LockTypeOK
<1>0. Race /\ UNCHANGED <<lockfile, pid>>
  BY DEF Look, At
<1>1. CASE \A q \in Process : step'[q] \notin {"write", "in"}
  BY <1>1, Nobody
<1>2. CASE /\ ~raced
           /\ \A q, r \in Process : step'[q] = "write" /\ step'[r] = "write" => q = r
  <2>1. ASSUME ~GetLock, NEW q \in Process PROVE step[q] # "in"
    BY <1>2, <2>1 DEF GetLock, Running, Exclusive, OwnIds
  <2>2. CASE GetLock
    BY <1>0, <1>2, <2>2 DEF Look, At, Exclusive
  <2>3. CASE ~GetLock
    BY <1>0, <1>2, <2>1, <2>3 DEF Look, At, Exclusive
  <2>4. QED
    BY <2>2, <2>3
<1>3. QED
  BY <1>0, <1>1, <1>2, RaceOver

\* The other steps of a program keep the holder's id in the file.
LEMMA StepAlone ==
  ASSUME LockInv, NEW p \in Process, Race, ~raced',
         Start(p) \/ Peek(p) \/ Write(p) \/ ReleaseLock(p) \/ Keep(p) \/ Leave(p) \/ Crash(p)
  PROVE  Exclusive'
<1> USE LockAssumption DEF LockInv, LockTypeOK
<1>1. CASE \A q \in Process : step'[q] \notin {"write", "in"}
  BY <1>1, Nobody
<1>2. CASE ~raced
  <2>1. Exclusive
    BY <1>2
  <2>2. CASE Start(p)
    BY <2>1, <2>2 DEF Start, At, Exclusive
  <2>3. CASE Peek(p)
    BY <2>1, <2>3 DEF Peek, At, Exclusive
  <2>4. CASE Write(p)
    BY <2>1, <2>4 DEF Write, At, Exclusive
  <2>5. CASE ReleaseLock(p)
    BY <1>2, <2>1, <2>5, OneByFile DEF ReleaseLock, At, Exclusive, OneHolder
  <2>6. CASE Keep(p) \/ Leave(p) \/ Crash(p)
    BY <2>1, <2>6 DEF Keep, Leave, Crash, Ended, At, Exclusive
  <2>7. QED
    BY <2>2, <2>3, <2>4, <2>5, <2>6
<1>3. QED
  BY <1>1, <1>2, RaceOver

\* The lock files are mutual exclusion, whoever dies and whichever ids are
\* given again, from when the last of those that raced in set_lock has left.
THEOREM OneHolderAlways == LockSpec => []OneHolder
<1>1. LockInit => LockInv
  BY LockAssumption, LockInitType DEF LockInit, LockInv, OwnIds, Exclusive
<1>2. LockInv /\ LockTypeOK' /\ [LockNext]_lockVars => LockInv'
  <2> SUFFICES ASSUME LockInv, LockTypeOK', [LockNext]_lockVars PROVE LockInv'
    OBVIOUS
  <2> USE LockAssumption DEF LockInv, LockTypeOK
  <2>1. OwnIds'
    <3>1. ASSUME NEW p \in Process, Start(p) PROVE OwnIds'
      BY <3>1 DEF Start, New, Running, At, OwnIds
    <3>2. ASSUME NEW p \in Process, Peek(p) \/ Look(p) \/ Write(p) PROVE OwnIds'
      BY <3>2 DEF Peek, Look, Write, At, OwnIds
    <3>3. ASSUME NEW p \in Process, ReleaseLock(p) \/ Keep(p) PROVE OwnIds'
      BY <3>3 DEF ReleaseLock, Keep, At, OwnIds
    <3>4. ASSUME NEW p \in Process, Leave(p) \/ Crash(p) PROVE OwnIds'
      BY <3>4 DEF Leave, Crash, Ended, At, OwnIds
    <3>5. CASE OtherStarts
      BY <3>5 DEF OtherStarts, New, Running, OwnIds
    <3>6. ASSUME NEW x \in Pid, OtherEnds(x) PROVE OwnIds'
      BY <3>6 DEF OtherEnds, OwnIds
    <3>7. CASE UNCHANGED lockVars
      BY <3>7 DEF lockVars, OwnIds
    <3>8. QED
      BY <3>1, <3>2, <3>3, <3>4, <3>5, <3>6, <3>7 DEF LockNext, Take
  <2>2. raced' \/ Exclusive'
    <3>1. ASSUME NEW p \in Process, Look(p) PROVE raced' \/ Exclusive'
      BY <3>1, LookAlone
    <3>2. ASSUME NEW p \in Process,
                 \/ Start(p) \/ Peek(p) \/ Write(p) \/ ReleaseLock(p)
                 \/ Keep(p) \/ Leave(p) \/ Crash(p)
          PROVE  raced' \/ Exclusive'
      <4>1. Race
        BY <3>2 DEF Start, Peek, Write, ReleaseLock, Keep, Leave, Crash, At
      <4>2. QED
        BY <3>2, <4>1, StepAlone
    <3>3. CASE OtherStarts \/ \E x \in Pid : OtherEnds(x)
      BY <3>3 DEF OtherStarts, OtherEnds, Exclusive
    <3>4. CASE UNCHANGED lockVars
      BY <3>4 DEF lockVars, Exclusive
    <3>5. QED
      BY <3>1, <3>2, <3>3, <3>4 DEF LockNext, Take
  <2>3. QED
    BY <2>1, <2>2
<1>3. LockInv => OneHolder
  BY OneByFile
<1>4. QED
  BY <1>1, <1>2, <1>3, LockTypeCorrect, PTL DEF LockSpec
=============================================================================
