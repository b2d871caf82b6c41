------------------------- MODULE PollerWrapperProofs -------------------------
(***************************************************************************)
(* Proofs about PollerWrapper: its types, and that the claims in memcached *)
(* keep two wrappers from one device, for any number of wrappers, whatever *)
(* keys expire, whoever crashes or loses memcached, whenever they start.    *)
(***************************************************************************)
EXTENDS PollerWrapper, TLAPS

LEMMA DeviceExists == Off.dev \in Device
  <1>1. (CHOOSE d \in Device : TRUE) \in Device
    BY WrapperAssumption
  <1> QED
    BY <1>1 DEF Off

LEMMA OffType == Off \in RunType
  <1>1. Off.dev \in Device
    BY DeviceExists
  <1>2. Off \in RunRecord /\ Off.touch \in TouchType(Off.role)
    BY <1>1 DEF Off, RunRecord, Pc, TouchType
  <1> QED
    BY <1>2 DEF RunType, RunRecord

LEMMA InitType == Init => TypeOK
  BY OffType, WrapperAssumption DEF Init, TypeOK

\* A wrapper goes on to another line.
LEMMA GotoType ==
    ASSUME TypeOK, NEW w \in Wrapper, NEW pc \in Pc, Goto(w, pc)
    PROVE  /\ run' \in [Wrapper -> RunType]
           /\ run' = [run EXCEPT ![w] = run'[w]]
           /\ run'[w].pc = pc /\ run'[w].dev = run[w].dev
           /\ run'[w].dist = run[w].dist /\ run'[w].lost = run[w].lost
  <1>1. run[w] \in RunType
    BY DEF TypeOK
  <1>2. [run[w] EXCEPT !.pc = pc] \in RunType
    BY <1>1 DEF RunType, RunRecord
  <1>3. run' = [run EXCEPT ![w] = [run[w] EXCEPT !.pc = pc]]
    BY DEF Goto
  <1>4. run'[w] = [run[w] EXCEPT !.pc = pc]
    BY <1>3 DEF TypeOK
  <1> QED
    BY <1>1, <1>2, <1>3, <1>4 DEF TypeOK, RunType, RunRecord

\* A wrapper takes the next device from its queue.
LEMMA BackType ==
    ASSUME TypeOK, NEW w \in Wrapper, Back(w)
    PROVE  /\ run' \in [Wrapper -> RunType]
           /\ run' = [run EXCEPT ![w] = run'[w]]
           /\ run'[w].pc = "work"
  <1> DEFINE r == [run[w] EXCEPT !.pc = "work", !.dev = Off.dev, !.lost = FALSE]
  <1>1. run[w] \in RunType
    BY DEF TypeOK
  <1>2. r \in RunType /\ r.pc = "work"
    BY <1>1, DeviceExists DEF RunType, RunRecord, Pc
  <1>3. run' = [run EXCEPT ![w] = r]
    BY DEF Back
  <1> QED
    BY <1>2, <1>3 DEF TypeOK

LEMMA EnterType ==
    ASSUME TypeOK, NEW w \in Wrapper, NEW pc \in Pc,
           NEW role \in {"alone", "master", "node"}, NEW dist \in BOOLEAN,
           Enter(w, pc, role, dist)
    PROVE  /\ run' \in [Wrapper -> RunType]
           /\ run' = [run EXCEPT ![w] = run'[w]]
           /\ run'[w].pc = pc
  <1> DEFINE r == [Off EXCEPT !.pc = pc, !.role = role, !.dist = dist, !.todo = Device]
  <1>1. r \in RunType /\ r.pc = pc
    <2>1. Off.touch = -1
      BY DEF Off
    <2>2. -1 \in TouchType(role)
      BY DEF TouchType
    <2> QED
      BY <2>1, <2>2, OffType DEF RunType, RunRecord
  <1>2. run' = [run EXCEPT ![w] = r]
    BY DEF Enter
  <1> QED
    BY <1>1, <1>2 DEF TypeOK

LEMMA CheckType ==
    ASSUME TypeOK, NEW w \in Wrapper, Check(w)
    PROVE  /\ run' \in [Wrapper -> RunType]
           /\ run' = [run EXCEPT ![w] = run'[w]]
           /\ run'[w].pc \in {"ask", "work"}
  <1>1. CASE Goto(w, "ask")
    BY <1>1, GotoType DEF Pc
  <1>2. CASE Enter(w, "work", "alone", FALSE)
    BY <1>2, EnterType DEF Pc
  <1> QED
    BY <1>1, <1>2 DEF Check

LEMMA RegisterType ==
    ASSUME TypeOK, NEW w \in Wrapper, Register(w)
    PROVE  /\ run' \in [Wrapper -> RunType]
           /\ run' = [run EXCEPT ![w] = run'[w]]
           /\ run'[w].pc \in {"setmaster", "join"}
  <1>1. CASE Enter(w, "setmaster", "master", TRUE)
    BY <1>1, EnterType DEF Pc
  <1>2. CASE Enter(w, "join", "node", TRUE)
    BY <1>2, EnterType DEF Pc
  <1> QED
    BY <1>1, <1>2 DEF Register

\* A node that finds None where the count was ends with an exception.
LEMMA JoinType ==
    ASSUME TypeOK, NEW w \in Wrapper, Join(w)
    PROVE  /\ run' \in [Wrapper -> RunType]
           /\ run' = [run EXCEPT ![w] = run'[w]]
           /\ run'[w].pc \in {"off", "work"}
  <1>1. CASE run' = [run EXCEPT ![w] = Off]
    <2>1. Off.pc = "off"
      BY DEF Off
    <2> QED
      BY <1>1, <2>1, OffType DEF TypeOK
  <1>2. CASE Goto(w, "work")
    BY <1>2, GotoType DEF Pc
  <1> QED
    BY <1>1, <1>2 DEF Join

LEMMA TakeType ==
    ASSUME TypeOK, NEW w \in Wrapper, NEW d \in Device, Take(w, d)
    PROVE  /\ run' \in [Wrapper -> RunType]
           /\ run' = [run EXCEPT ![w] = run'[w]]
           /\ ~(run'[w].dist /\ run'[w].pc \in {"alive", "poll"})
  <1>1. run[w] \in RunType /\ run[w].pc = "work"
    BY DEF TypeOK, Take, At
  <1>2. CASE run' = [run EXCEPT ![w].todo = @ \ {d}]
    <2> DEFINE r == [run[w] EXCEPT !.todo = @ \ {d}]
    <2>1. r \in RunType /\ r.pc = "work"
      BY <1>1 DEF RunType, RunRecord
    <2>2. run' = [run EXCEPT ![w] = r]
      BY <1>2 DEF TypeOK
    <2> QED
      BY <2>1, <2>2 DEF TypeOK
  <1>3. CASE run' = [run EXCEPT ![w].todo = @ \ {d}, ![w].dev = d,
                        ![w].pc = IF run[w].dist THEN "add" ELSE "poll"]
    <2> DEFINE pc == IF run[w].dist THEN "add" ELSE "poll"
               r == [run[w] EXCEPT !.todo = @ \ {d}, !.dev = d, !.pc = pc]
    <2>1. pc \in Pc
      BY DEF Pc
    <2>2. r \in RunType /\ r.dist = run[w].dist /\ r.pc = pc
      BY <1>1, <2>1 DEF RunType, RunRecord
    <2>3. run' = [run EXCEPT ![w] = r]
      BY <1>3 DEF TypeOK
    <2>4. run'[w] = r
      BY <2>3 DEF TypeOK
    <2> QED
      BY <2>2, <2>3, <2>4 DEF TypeOK
  <1> QED
    BY <1>2, <1>3 DEF Take

\* What only changes touch or dist of one wrapper.
LEMMA PrintType ==
    ASSUME TypeOK, NEW w \in Wrapper, Renew(w)
    PROVE  /\ run' \in [Wrapper -> RunType]
           /\ run' = [run EXCEPT ![w] = run'[w]]
           /\ run'[w].pc = run[w].pc /\ run'[w].dev = run[w].dev
           /\ run'[w].lost = run[w].lost /\ (run'[w].dist => run[w].dist)
  <1>1. run[w] \in RunType
    BY DEF TypeOK
  <1>2. ASSUME NEW t \in TouchType(run[w].role), run' = [run EXCEPT ![w].touch = t]
        PROVE  /\ run' \in [Wrapper -> RunType]
               /\ run' = [run EXCEPT ![w] = run'[w]]
               /\ run'[w].pc = run[w].pc /\ run'[w].dev = run[w].dev
               /\ run'[w].lost = run[w].lost /\ run'[w].dist = run[w].dist
    <2> DEFINE r == [run[w] EXCEPT !.touch = t]
    <2>0. t \in 0..MaxNodes \union Host \union {None, -1}
      BY DEF TouchType
    <2>1. /\ r \in RunType /\ r.pc = run[w].pc /\ r.dev = run[w].dev
          /\ r.lost = run[w].lost /\ r.dist = run[w].dist
      BY <1>1, <2>0 DEF RunType, RunRecord
    <2>2. run' = [run EXCEPT ![w] = r]
      BY <1>2
    <2>3. run'[w] = r
      BY <2>2 DEF TypeOK
    <2> QED
      BY <2>1, <2>2, <2>3 DEF TypeOK
  <1>3. CASE TouchGet(w)
    <2> DEFINE key == IF run[w].role = "node" THEN nodes ELSE master
    <2>1. Get(w, key) \in TouchType(run[w].role)
      BY DEF Get, TypeOK, TouchType
    <2>2. run' = [run EXCEPT ![w].touch = Get(w, key)]
      BY <1>3 DEF TouchGet
    <2> HIDE DEF key
    <2> QED
      BY <1>2, <2>1, <2>2
  <1>4. CASE TouchSet(w)
    <2>1. -1 \in TouchType(run[w].role)
      BY DEF TouchType
    <2> QED
      BY <1>2, <1>4, <2>1 DEF TouchSet
  <1>5. CASE TakeOver(w)
    <2> DEFINE r == [run[w] EXCEPT !.dist = FALSE]
    <2>1. /\ r \in RunType /\ r.pc = run[w].pc /\ r.dev = run[w].dev
          /\ r.lost = run[w].lost /\ r.dist = FALSE
      BY <1>1 DEF RunType, RunRecord
    <2>2. run' = [run EXCEPT ![w] = r]
      BY <1>5 DEF TakeOver
    <2>3. run'[w] = r
      BY <2>2 DEF TypeOK
    <2> QED
      BY <2>1, <2>2, <2>3 DEF TypeOK
  <1> QED
    BY <1>3, <1>4, <1>5 DEF Renew

\* What is renewed keeps its type: the count a node has read is a count or
\* None, and becomes a pickled None, the name a master has read is a name.
LEMMA TouchSetType ==
    ASSUME TypeOK, NEW w \in Wrapper, TouchSet(w)
    PROVE  /\ nodes' \in 0..MaxNodes \union {None, Pickled}
           /\ master' \in Host \union {None}
  <1>1. run[w].touch \in TouchType(run[w].role) /\ run[w].touch # -1
    BY DEF TypeOK, RunType, TouchSet
  <1>2. nodes' \in 0..MaxNodes \union {None, Pickled}
    BY <1>1 DEF TypeOK, TouchSet, TouchType
  <1>3. master' \in Host \union {None}
    BY <1>1 DEF TypeOK, TouchSet, TouchType
  <1> QED
    BY <1>2, <1>3

\* Other wrappers only learn that their claims are gone.
LEMMA WithoutType ==
    ASSUME TypeOK, NEW D, NEW v \in Wrapper
    PROVE  /\ Without(D)[v] \in RunType
           /\ Without(D)[v].pc = run[v].pc /\ Without(D)[v].dev = run[v].dev
           /\ Without(D)[v].dist = run[v].dist
           /\ Without(D)[v].lost = (run[v].lost \/ \E d \in D : Claims(v, d))
  <1> DEFINE c == run[v].lost \/ \E d \in D : Claims(v, d)
  <1>1. run[v] \in RunType
    BY DEF TypeOK
  <1>2. c \in BOOLEAN
    BY <1>1 DEF RunType, RunRecord
  <1>3. Without(D)[v] = [run[v] EXCEPT !.lost = c]
    BY DEF Without
  <1> HIDE DEF c
  <1>4. /\ Without(D)[v] \in RunType
        /\ Without(D)[v].pc = run[v].pc /\ Without(D)[v].dev = run[v].dev
        /\ Without(D)[v].dist = run[v].dist /\ Without(D)[v].lost = c
    BY <1>1, <1>2, <1>3 DEF RunType, RunRecord
  <1> QED
    BY <1>4 DEF c

LEMMA ClearType ==
    ASSUME TypeOK, NEW w \in Wrapper, Clear(w)
    PROVE  /\ run' \in [Wrapper -> RunType]
           /\ run'[w].pc = "unmaster"
           /\ \A v \in Wrapper \ {w} :
                 /\ run'[v].pc = run[v].pc /\ run'[v].dev = run[v].dev
                 /\ run'[v].dist = run[v].dist
                 /\ run[v].lost => run'[v].lost
                 /\ reach[w] /\ (\E d \in Device : Claims(v, d)) => run'[v].lost
  <1> DEFINE gone == IF reach[w] THEN Device ELSE {}
             new == Without(gone)
  <1>1. run' = [new EXCEPT ![w].pc = "unmaster"]
    BY DEF Clear
  <1>2. new = [v \in Wrapper |-> new[v]]
    BY DEF Without
  <1>3. \A v \in Wrapper :
           /\ new[v] \in RunType
           /\ new[v].pc = run[v].pc /\ new[v].dev = run[v].dev
           /\ new[v].dist = run[v].dist
           /\ new[v].lost = (run[v].lost \/ \E d \in gone : Claims(v, d))
    BY WithoutType
  <1>4. reach[w] => gone = Device
    OBVIOUS
  <1> HIDE DEF gone, new
  <1>5. [new[w] EXCEPT !.pc = "unmaster"] \in RunType
    BY <1>3 DEF RunType, RunRecord, Pc
  <1>6. run'[w] = [new[w] EXCEPT !.pc = "unmaster"]
    BY <1>1, <1>2
  <1>7. run'[w].pc = "unmaster"
    BY <1>3, <1>6 DEF RunType, RunRecord
  <1>8. \A v \in Wrapper \ {w} : run'[v] = new[v]
    BY <1>1, <1>2
  <1>9. run' = [v \in Wrapper |-> run'[v]]
    BY <1>1, <1>2
  <1>10. run' \in [Wrapper -> RunType]
    BY <1>3, <1>5, <1>6, <1>8, <1>9
  <1> QED
    BY <1>3, <1>4, <1>7, <1>8, <1>10

LEMMA NodesType ==
    ASSUME TypeOK, nodes \notin {None, Pickled, MaxNodes}
    PROVE  nodes + 1 \in 0..MaxNodes
  BY WrapperAssumption DEF TypeOK

LEMMA WorkType ==
    ASSUME TypeOK, NEW w \in Wrapper, Work(w)
    PROVE  TypeOK'
  <1> USE DEF Pc
  <1>h. HostOf[w] \in Host
    BY WrapperAssumption
  <1>n. 0 \in 0..MaxNodes
    BY WrapperAssumption
  <1>s. CASE Start(w)
    BY <1>s, GotoType DEF TypeOK, Start
  <1>c. CASE Check(w)
    BY <1>c, CheckType DEF TypeOK, Check
  <1>1. CASE Register(w)
    BY <1>1, RegisterType DEF TypeOK, Register
  <1>2. CASE SetMaster(w)
    BY <1>2, <1>h, GotoType DEF TypeOK, SetMaster
  <1>3. CASE SetNodes(w)
    BY <1>3, <1>n, GotoType DEF TypeOK, SetNodes
  <1>4. CASE Join(w)
    BY <1>4, NodesType, JoinType DEF TypeOK, Join
  <1>5. ASSUME NEW d \in Device, Take(w, d) PROVE TypeOK'
    BY <1>5, TakeType DEF TypeOK, Take
  <1>6. CASE Add(w)
    <2>1. run' \in [Wrapper -> RunType]
      BY <1>6, GotoType, BackType DEF Add
    <2>2. claimed' \subseteq Device
      BY <1>6 DEF Add, TypeOK, RunType, RunRecord
    <2> QED
      BY <1>6, <2>1, <2>2 DEF TypeOK, Add
  <1>7. CASE Alive(w)
    BY <1>7, GotoType, BackType DEF TypeOK, Alive
  <1>8. CASE Polled(w)
    BY <1>8, BackType DEF TypeOK, Polled
  <1>9. CASE QueueDone(w)
    BY <1>9, GotoType DEF TypeOK, QueueDone
  <1>10. CASE End(w)
    <2>1. nodes' \in 0..MaxNodes \union {None, Pickled}
      BY <1>10, WrapperAssumption DEF End, TypeOK
    <2> QED
      BY <1>10, <2>1, GotoType DEF TypeOK, End
  <1>11. CASE Wait(w)
    <2>1. AfterWait(w) \in Pc
      BY DEF AfterWait
    <2> QED
      BY <1>11, <2>1, GotoType DEF TypeOK, Wait
  <1>12. CASE Clear(w)
    BY <1>12, ClearType DEF TypeOK, Clear
  <1>13. CASE DeleteMaster(w)
    BY <1>13, GotoType DEF TypeOK, DeleteMaster
  <1>14. CASE DeleteNodes(w)
    BY <1>14, GotoType DEF TypeOK, DeleteNodes
  <1>15. CASE Exit(w)
    BY <1>15, OffType DEF TypeOK, Exit
  <1> QED
    BY <1>s, <1>c, <1>1, <1>2, <1>3, <1>4, <1>5, <1>6, <1>7, <1>8, <1>9, <1>10, <1>11,
       <1>12, <1>13, <1>14, <1>15 DEF Work

LEMMA NextType == TypeOK /\ [Next]_vars => TypeOK'
  <1> SUFFICES ASSUME TypeOK, [Next]_vars PROVE TypeOK'
    OBVIOUS
  <1>1. ASSUME NEW w \in Wrapper, Work(w) PROVE TypeOK'
    BY <1>1, WorkType
  <1>2. ASSUME NEW w \in Wrapper, Renew(w) PROVE TypeOK'
    <2>1. run' \in [Wrapper -> RunType]
      BY <1>2, PrintType
    <2>2. nodes' \in 0..MaxNodes \union {None, Pickled} /\ master' \in Host \union {None}
      BY <1>2, TouchSetType DEF Renew, TouchGet, TakeOver, TypeOK
    <2> QED
      BY <1>2, <2>1, <2>2 DEF TypeOK, Renew, TouchGet, TouchSet, TakeOver
  <1>3. ASSUME NEW w \in Wrapper, Crash(w) PROVE TypeOK'
    BY <1>3, OffType, WrapperAssumption DEF TypeOK, Crash, Fault
  <1>4. ASSUME NEW w \in Wrapper, Lose(w) \/ Regain(w) PROVE TypeOK'
    <2>1. reach' \in [Wrapper -> BOOLEAN]
      BY <1>4 DEF TypeOK, Lose, Regain
    <2>2. faults' \in 0..MaxFaults
      BY <1>4, WrapperAssumption DEF TypeOK, Lose, Regain, Fault
    <2> QED
      BY <1>4, <2>1, <2>2 DEF TypeOK, Lose, Regain
  <1>5. CASE MasterExpires \/ NodesExpire
    BY <1>5 DEF TypeOK, MasterExpires, NodesExpire
  <1>6. ASSUME NEW d \in Device, ClaimExpires(d) PROVE TypeOK'
    <2>1. run' = [v \in Wrapper |-> run'[v]]
      BY <1>6 DEF ClaimExpires, Without
    <2>2. run' \in [Wrapper -> RunType]
      BY <1>6, <2>1, WithoutType DEF ClaimExpires
    <2> QED
      BY <1>6, <2>2 DEF TypeOK, ClaimExpires
  <1>7. CASE UNCHANGED vars
    BY <1>7 DEF TypeOK, vars
  <1> QED
    BY <1>1, <1>2, <1>3, <1>4, <1>5, <1>6, <1>7 DEF Next

\* Every variable keeps its type: poller.nodes stays a count or None and
\* poller.master a name, though their renewals write back what they read
\* earlier (poller-wrapper.py:127-133).
THEOREM TypeCorrect == Spec => []TypeOK
  BY InitType, NextType, PTL DEF Spec
-----------------------------------------------------------------------------
(***************************************************************************)
(* The claims.  OneAtATime speaks of two wrappers that poll; the invariant *)
(* speaks of the claim: from add to the end of its poll a wrapper has a    *)
(* claim, unless it expired or was deleted, and no other wrapper has it.   *)
(***************************************************************************)
Has(w) == run[w].dist /\ run[w].pc \in {"alive", "poll"} /\ ~run[w].lost
Claimed == \A w \in Wrapper : Has(w) => run[w].dev \in claimed
Alone == \A v, w \in Wrapper : Has(v) /\ Has(w) /\ run[v].dev = run[w].dev => v = w
Exclusive == TypeOK /\ Claimed /\ Alone

LEMMA InitExclusive == Init => Exclusive
  BY InitType DEF Init, Exclusive, Claimed, Alone, Has, Off

LEMMA ExclusiveMeansOne == Exclusive => OneAtATime
  BY DEF Exclusive, Alone, OneAtATime, Polls, Has, At

\* A step after which nobody has a claim that was not his before, and all
\* that are had still exist.
LEMMA NoNewClaim ==
    ASSUME Exclusive, TypeOK',
           \A u \in Wrapper : Has(u)' =>
               Has(u) /\ run'[u].dev = run[u].dev /\ run[u].dev \in claimed'
    PROVE  Exclusive'
  BY DEF Exclusive, Claimed, Alone

\* A step of w alone that leaves the claims there are and makes w none.
LEMMA OwnStep ==
    ASSUME Exclusive, TypeOK', NEW w \in Wrapper, run' = [run EXCEPT ![w] = run'[w]],
           claimed \subseteq claimed',
           Has(w)' => Has(w) /\ run'[w].dev = run[w].dev
    PROVE  Exclusive'
  <1>1. ASSUME NEW u \in Wrapper, Has(u)'
        PROVE  Has(u) /\ run'[u].dev = run[u].dev
    <2>1. CASE u = w
      BY <1>1, <2>1
    <2>2. CASE u # w
      BY <1>1, <2>2 DEF Has, Exclusive, TypeOK
    <2> QED
      BY <2>1, <2>2
  <1> QED
    BY <1>1, NoNewClaim DEF Exclusive, Claimed

\* memcached's add succeeds only where there is no key.
LEMMA AddExclusive ==
    ASSUME Exclusive, TypeOK', NEW w \in Wrapper, Add(w)
    PROVE  Exclusive'
  <1>1. TypeOK
    BY DEF Exclusive
  <1>2. CASE Goto(w, "poll") /\ ~run[w].dist /\ UNCHANGED claimed
    BY <1>1, <1>2, GotoType, OwnStep DEF Pc, Has
  <1>3. CASE Back(w) /\ UNCHANGED claimed
    BY <1>1, <1>3, BackType, OwnStep DEF Has
  <1>4. CASE /\ Goto(w, "alive") /\ run[w].dev \notin claimed
             /\ claimed' = claimed \union {run[w].dev}
    <2>1. /\ run' = [run EXCEPT ![w] = run'[w]]
          /\ run'[w].dev = run[w].dev
      BY <1>1, <1>4, GotoType DEF Pc
    <2>2. ASSUME NEW u \in Wrapper \ {w}
          PROVE  run'[u] = run[u] /\ Has(u)' = Has(u)
      BY <2>1, <1>1 DEF TypeOK, Has
    <2>3. ASSUME NEW u \in Wrapper \ {w}, Has(u)
          PROVE  run[u].dev # run[w].dev
      BY <1>4, <2>3 DEF Exclusive, Claimed
    <2>4. Claimed'
      BY <1>4, <2>1, <2>2 DEF Exclusive, Claimed
    <2>5. Alone'
      <3> SUFFICES ASSUME NEW u \in Wrapper, NEW v \in Wrapper, Has(u)', Has(v)',
                          run'[u].dev = run'[v].dev
                   PROVE  u = v
        BY DEF Alone
      <3>1. CASE u # w /\ v # w
        BY <2>2, <3>1 DEF Exclusive, Alone
      <3>2. CASE u = w /\ v # w
        BY <2>1, <2>2, <2>3, <3>2
      <3>3. CASE u # w /\ v = w
        BY <2>1, <2>2, <2>3, <3>3
      <3> QED
        BY <3>1, <3>2, <3>3
    <2> QED
      BY <2>4, <2>5 DEF Exclusive
  <1> QED
    BY <1>2, <1>3, <1>4 DEF Add

LEMMA ClearExclusive ==
    ASSUME Exclusive, TypeOK', NEW w \in Wrapper, Clear(w)
    PROVE  Exclusive'
  <1>1. TypeOK
    BY DEF Exclusive
  <1>2. ASSUME NEW u \in Wrapper, Has(u)'
        PROVE  Has(u) /\ run'[u].dev = run[u].dev /\ ~reach[w]
    <2>1. u # w
      BY <1>1, <1>2, ClearType DEF Has
    <2>2. Has(u) /\ run'[u].dev = run[u].dev
      BY <1>1, <1>2, <2>1, ClearType DEF Has
    <2>3. Claims(u, run[u].dev) /\ run[u].dev \in Device
      BY <1>1, <2>2 DEF Has, Claims, TypeOK, RunType, RunRecord
    <2> QED
      BY <1>1, <1>2, <2>1, <2>2, <2>3, ClearType DEF Has
  <1>3. ~reach[w] => claimed' = claimed
    BY DEF Clear
  <1> QED
    BY <1>2, <1>3, NoNewClaim DEF Exclusive, Claimed

LEMMA WorkExclusive ==
    ASSUME Exclusive, TypeOK', NEW w \in Wrapper, Work(w)
    PROVE  Exclusive'
  <1> USE DEF Pc
  <1>0. TypeOK
    BY DEF Exclusive
  <1>s. CASE Start(w)
    BY <1>0, <1>s, GotoType, OwnStep DEF Start, Has
  <1>c. CASE Check(w)
    BY <1>0, <1>c, CheckType, OwnStep DEF Check, Has
  <1>1. CASE Register(w)
    BY <1>0, <1>1, RegisterType, OwnStep DEF Register, Has
  <1>2. CASE SetMaster(w)
    BY <1>0, <1>2, GotoType, OwnStep DEF SetMaster, Has
  <1>3. CASE SetNodes(w)
    BY <1>0, <1>3, GotoType, OwnStep DEF SetNodes, Has
  <1>4. CASE Join(w)
    BY <1>0, <1>4, JoinType, OwnStep DEF Join, Has
  <1>5. ASSUME NEW d \in Device, Take(w, d) PROVE Exclusive'
    <2>1. claimed' = claimed
      BY <1>5 DEF Take
    <2>2. run' = [run EXCEPT ![w] = run'[w]] /\ ~Has(w)'
      BY <1>0, <1>5, TakeType DEF Has
    <2> QED
      BY <2>1, <2>2, OwnStep
  <1>6. CASE Add(w)
    BY <1>6, AddExclusive
  <1>7. CASE Alive(w)
    <2>1. CASE Back(w)
      BY <1>0, <1>7, <2>1, BackType, OwnStep DEF Alive, Has
    <2>2. CASE Goto(w, "poll")
      <3>1. run[w].pc = "alive"
        BY <1>7 DEF Alive, At
      <3> QED
        BY <1>0, <1>7, <2>2, <3>1, GotoType, OwnStep DEF Alive, Has
    <2> QED
      BY <1>7, <2>1, <2>2 DEF Alive
  <1>8. CASE Polled(w)
    BY <1>0, <1>8, BackType, OwnStep DEF Polled, Has
  <1>9. CASE QueueDone(w)
    BY <1>0, <1>9, GotoType, OwnStep DEF QueueDone, Has
  <1>10. CASE End(w)
    BY <1>0, <1>10, GotoType, OwnStep DEF End, Has
  <1>11. CASE Wait(w)
    <2>1. CASE Goto(w, AfterWait(w))
      <3>1. AfterWait(w) \in {"clear", "exit"}
        BY DEF AfterWait
      <3> QED
        BY <1>0, <1>11, <2>1, <3>1, GotoType, OwnStep DEF Wait, Has
    <2>2. CASE UNCHANGED run
      BY <1>0, <1>11, <2>2, NoNewClaim DEF Wait, Exclusive, Claimed, Has
    <2> QED
      BY <1>11, <2>1, <2>2 DEF Wait
  <1>12. CASE Clear(w)
    BY <1>12, ClearExclusive
  <1>13. CASE DeleteMaster(w)
    BY <1>0, <1>13, GotoType, OwnStep DEF DeleteMaster, Has
  <1>14. CASE DeleteNodes(w)
    BY <1>0, <1>14, GotoType, OwnStep DEF DeleteNodes, Has
  <1>15. CASE Exit(w)
    BY <1>0, <1>15, OwnStep DEF Exit, Has, Off, TypeOK
  <1> QED
    BY <1>s, <1>c, <1>1, <1>2, <1>3, <1>4, <1>5, <1>6, <1>7, <1>8, <1>9, <1>10, <1>11,
       <1>12, <1>13, <1>14, <1>15 DEF Work

LEMMA NextExclusive == Exclusive /\ [Next]_vars => Exclusive'
  <1> SUFFICES ASSUME Exclusive, [Next]_vars PROVE Exclusive'
    OBVIOUS
  <1>0. TypeOK /\ TypeOK'
    BY NextType DEF Exclusive
  <1>1. ASSUME NEW w \in Wrapper, Work(w) PROVE Exclusive'
    BY <1>0, <1>1, WorkExclusive
  <1>2. ASSUME NEW w \in Wrapper, Renew(w) PROVE Exclusive'
    <2>1. claimed' = claimed
      BY <1>2 DEF Renew, TouchGet, TouchSet, TakeOver
    <2>2. /\ run' = [run EXCEPT ![w] = run'[w]]
          /\ Has(w)' => Has(w) /\ run'[w].dev = run[w].dev
      BY <1>0, <1>2, PrintType DEF Has
    <2> QED
      BY <1>0, <2>1, <2>2, OwnStep
  <1>3. ASSUME NEW w \in Wrapper, Crash(w) PROVE Exclusive'
    BY <1>0, <1>3, OwnStep DEF Crash, Has, Off, TypeOK
  <1>4. ASSUME UNCHANGED <<run, claimed>> PROVE Exclusive'
    BY <1>0, <1>4, NoNewClaim DEF Exclusive, Claimed, Has
  <1>5. ASSUME NEW d \in Device, ClaimExpires(d) PROVE Exclusive'
    <2>1. ASSUME NEW u \in Wrapper, Has(u)'
          PROVE  Has(u) /\ run'[u].dev = run[u].dev /\ run[u].dev # d
      <3>1. Has(u) /\ run'[u].dev = run[u].dev
        BY <1>0, <1>5, <2>1, WithoutType DEF ClaimExpires, Has
      <3>2. ~Claims(u, d)
        BY <1>0, <1>5, <2>1, WithoutType DEF ClaimExpires, Has
      <3> QED
        BY <3>1, <3>2 DEF Has, Claims
    <2> QED
      BY <1>0, <1>5, <2>1, NoNewClaim DEF ClaimExpires, Exclusive, Claimed
  <1> QED
    BY <1>1, <1>2, <1>3, <1>4, <1>5
       DEF Next, Lose, Regain, MasterExpires, NodesExpire, vars

\* Two wrappers that use memcached never poll a device at once, unless the
\* claim of one went before its poll was over: it expired after its 300
\* seconds (poller-wrapper.py:287), or a master that did not wait for it
\* cleared it (poller-wrapper.py:355-356).
THEOREM ClaimsExclude == Spec => []OneAtATime
  <1>1. Init => Exclusive
    BY InitExclusive
  <1>2. Exclusive /\ [Next]_vars => Exclusive'
    BY NextExclusive
  <1>3. Exclusive => OneAtATime
    BY ExclusiveMeansOne
  <1> QED
    BY <1>1, <1>2, <1>3, PTL DEF Spec
=============================================================================
