------------------------- MODULE AlertsIsolatedProofs -------------------------
(***************************************************************************)
(* Proofs about Alerts where the poller, alerts.php and the users take     *)
(* turns (Overlap = FALSE).  What they guarantee then, and lose when they  *)
(* overlap, rests on two facts: while alerts.php works on a row nobody     *)
(* changes it, and the latest logged event is the one the row stands for.  *)
(* On this invariant (Alone) rest, in this order: that what was closed was *)
(* notified, that the notices follow AlertProtocol, and that there are no  *)
(* more of them than the maximum.                                          *)
(***************************************************************************)
EXTENDS AlertsProofs

AtNotice == {"details", "issue", "alerted", "close"}
AtAck == {"ackissue", "ackclose"}

\* Nobody else runs while alerts.php does, and its cache is never stale.
TakeTurns ==
    /\ cron.pc # "idle" => \A d \in Device : poller[d].pc = "idle"
    /\ cron.pc = "idle" => \A d \in Device : cron.cache[d] = {}
    /\ \A d \in Device : cron.cache[d] \in {{}, enabled}

\* A deleted device has no rows and is not polled.
Deleted ==
    \A k \in Key : "gone" \in flags[k[1]] =>
        poller[k[1]].pc = "idle" /\ alerts[k].state = -1

\* The rows a loop has selected are still as they were selected.
Selected ==
    /\ \A k \in Key : alerts[k].open => alerts[k].state # -1
    /\ cron.pc \in {"alerts"} \union AtNotice =>
           \A k \in cron.todo : alerts[k].state \notin {-1, 2}
    /\ cron.pc \in AtNotice => alerts[cron.key].state \notin {-1, 2}
    /\ cron.pc \in {"acks"} \union AtAck =>
           \A k \in cron.todo : alerts[k].state = 2
    /\ cron.pc \in AtAck => alerts[cron.key].state = 2

\* What a program knows of a row of alert_log is the latest row.
KnowsLast(k, s) == HasLog(k) /\ LastRow(k).state = s
PollerKnows(d) ==
    /\ poller[d].pc = "set" =>
           KnowsLast(PollKey(d), IF poller[d].raise THEN 1 ELSE 0)
    /\ poller[d].pc = "write" =>
           /\ HasLog(PollKey(d))
           /\ poller[d].id = Len(log[PollKey(d)])
           /\ poller[d].row.count = LastRow(PollKey(d)).count
CronKnows ==
    /\ cron.pc \in {"fset"} \union AtNotice => KnowsLast(cron.key, cron.row.state)
    /\ cron.pc \in {"flog", "fset"} => cron.row.state \in {3, 4}
    /\ cron.pc = "details" =>
           cron.id = Len(log[cron.key]) /\ cron.id > purged[cron.key]

Alone ==
    /\ TakeTurns
    /\ Deleted
    /\ Selected
    /\ \A d \in Device : PollerKnows(d)
    /\ CronKnows

-----------------------------------------------------------------------------
(***************************************************************************)
(* The latest row of a key: which steps change it.                         *)
(***************************************************************************)
Steady(k) ==
    /\ Len(log'[k]) = Len(log[k])
    /\ HasLog(k) => /\ log'[k][Len(log[k])].state = log[k][Len(log[k])].state
                    /\ log'[k][Len(log[k])].count = log[k][Len(log[k])].count

LEMMA LengthFacts ==
    ASSUME TypeOK, NEW k \in Key
    PROVE  /\ Len(log[k]) \in Nat
           /\ HasLog(k) <=> Len(log[k]) > 0
           /\ HasRow(k) => HasLog(k)
           /\ HasLog(k) => LastRow(k) \in LogRow /\ Len(log[k]) \in DOMAIN log[k]
<1>1. /\ log[k] \in Seq(LogRow) /\ Len(log[k]) \in Nat
      /\ DOMAIN log[k] = 1..Len(log[k]) /\ purged[k] \in Nat
      /\ \A i \in 1..Len(log[k]) : log[k][i] \in LogRow
  BY LogFacts
<1>2. HasLog(k) <=> Len(log[k]) > 0
  BY <1>1 DEF HasLog
<1>3. HasRow(k) => Len(log[k]) > 0
  BY <1>1 DEF HasRow
<1> QED BY <1>1, <1>2, <1>3 DEF LastRow

LEMMA SteadyLast ==
    ASSUME TypeOK, TypeOK', NEW k \in Key, Steady(k)
    PROVE  /\ HasLog(k)' <=> HasLog(k)
           /\ HasLog(k) => /\ LastRow(k)'.state = LastRow(k).state
                           /\ LastRow(k)'.count = LastRow(k).count
<1>1. (HasLog(k) <=> Len(log[k]) > 0) /\ (HasLog(k)' <=> Len(log'[k]) > 0)
  <2>1. HasLog(k) <=> Len(log[k]) > 0
    BY LengthFacts
  <2>2. log'[k] \in Seq(LogRow)
    BY DEF TypeOK
  <2>3. HasLog(k)' <=> Len(log'[k]) > 0
    BY <2>2 DEF HasLog
  <2> QED BY <2>1, <2>3
<1>2. LastRow(k)' = log'[k][Len(log[k])]
  BY DEF LastRow, Steady
<1> QED BY <1>1, <1>2 DEF Steady, LastRow

LEMMA SameLogSteady ==
    ASSUME log' = log, NEW k
    PROVE  Steady(k)
BY DEF Steady

LEMMA AppendLast ==
    ASSUME TypeOK, NEW k \in Key, NEW row \in LogRow,
           log' = [log EXCEPT ![k] = Append(@, row)]
    PROVE  /\ HasLog(k)' /\ LastRow(k)' = row
           /\ Len(log'[k]) = Len(log[k]) + 1
           /\ \A q \in Key : q # k => log'[q] = log[q] /\ Steady(q)
<1>1. log[k] \in Seq(LogRow) /\ log'[k] = Append(log[k], row)
  BY DEF TypeOK
<1>2. /\ Len(log'[k]) = Len(log[k]) + 1 /\ 1 \in DOMAIN log'[k]
      /\ log'[k][Len(log[k]) + 1] = row
  BY <1>1
<1>3. \A q \in Key : q # k => log'[q] = log[q]
  BY DEF TypeOK
<1> QED BY <1>2, <1>3 DEF HasLog, LastRow, Steady

\* Of the latest row, the details that are written are those of the id.
LEMMA WriteLast ==
    ASSUME TypeOK, NEW k \in Key, NEW id \in Nat, NEW row \in LogRow,
           WriteDetails(k, id, row)
    PROVE  /\ \A q \in Key : q # k => log'[q] = log[q] /\ Steady(q)
           /\ Len(log'[k]) = Len(log[k])
           /\ HasLog(k) =>
                /\ log'[k][Len(log[k])].state = LastRow(k).state
                /\ log'[k][Len(log[k])].count =
                     IF id = Len(log[k]) /\ id > purged[k]
                     THEN row.count ELSE LastRow(k).count
<1> DEFINE old == log[k]
           new == [old EXCEPT ![id].n = row.n, ![id].to = row.to,
                              ![id].count = row.count, ![id].cool = row.cool]
<1>1. /\ id > purged[k] => log' = [log EXCEPT ![k] = new]
      /\ ~(id > purged[k]) => log' = log
  BY ZenonT(40) DEF WriteDetails, TypeOK
<1>2. /\ old \in Seq(LogRow) /\ Len(old) \in Nat /\ DOMAIN old = 1..Len(old)
      /\ DOMAIN new = DOMAIN old
      /\ \A i \in DOMAIN old : old[i] \in LogRow
  BY LogFacts
<1>3. \A i \in DOMAIN old : /\ new[i].state = old[i].state
                            /\ new[i].count = IF i = id THEN row.count ELSE old[i].count
  BY <1>2 DEF LogRow
<1>4. Len(new) = Len(old)
  <2>1. new \in Seq(LogRow)
    <3>1. \A i \in 1..Len(old) : new[i] \in LogRow
      BY <1>2, ZenonT(40) DEF LogRow
    <3>2. new \in [1..Len(old) -> LogRow]
      BY <1>2, <3>1
    <3> HIDE DEF new
    <3> QED BY <1>2, <3>2, SeqDef
  <2> HIDE DEF new
  <2> QED BY <1>2, <2>1
<1> HIDE DEF new
<1>5. \A q \in Key : q # k => log'[q] = log[q] /\ Steady(q)
  BY <1>1 DEF TypeOK, Steady
<1>6. log'[k] = IF id > purged[k] THEN new ELSE log[k]
  BY <1>1 DEF TypeOK
<1>7. Len(log'[k]) = Len(log[k])
  BY <1>4, <1>6
<1>8. HasLog(k) => Len(old) \in DOMAIN old
  BY LengthFacts
<1> QED BY <1>3, <1>5, <1>6, <1>7, <1>8 DEF LastRow

LEMMA ElapseSteady ==
    ASSUME TypeOK, NEW k \in Key, NEW t, Elapse(k, t), NEW q \in Key
    PROVE  Steady(q)
<1> DEFINE new == [i \in DOMAIN log[k] |-> Over(log[k][i], t)]
<1>1. /\ log[k] \in Seq(LogRow) /\ Len(log[k]) \in Nat
      /\ DOMAIN log[k] = 1..Len(log[k])
      /\ \A i \in DOMAIN log[k] : log[k][i] \in LogRow
  BY LogFacts
<1>2. log' = [log EXCEPT ![k] = new]
  BY DEF Elapse
<1>3. \A i \in DOMAIN log[k] : /\ new[i].state = log[k][i].state
                               /\ new[i].count = log[k][i].count
  BY <1>1 DEF Over, LogRow
<1>4. Len(new) = Len(log[k])
  BY <1>1
<1> HIDE DEF new
<1>5. log'[q] = IF q = k THEN new ELSE log[q]
  BY <1>2 DEF TypeOK
<1>6. HasLog(k) => Len(log[k]) \in DOMAIN log[k]
  BY LengthFacts
<1> QED BY <1>3, <1>4, <1>5, <1>6 DEF Steady

-----------------------------------------------------------------------------
(***************************************************************************)
(* What one step does to a row of `alerts`.                                *)
(***************************************************************************)
UserSets(k) ==
    /\ MayStart /\ alerts[k].state # -1
    /\ cron' = cron /\ poller' = poller /\ log' = log /\ hist' = hist
    /\ \/ "ack" \in Ops /\ alerts'[k] = Opened(alerts[k], 2)
       \/ "unack" \in Ops /\ alerts'[k] = Opened(alerts[k], alerts[k].alerted)
       \/ "apiack" \in Ops /\ alerts'[k] = [alerts[k] EXCEPT !.state = 2]
       \/ "apiunmute" \in Ops /\ alerts'[k] = [alerts[k] EXCEPT !.state = 1]
Deletes(k) ==
    /\ alerts'[k] = NoAlert
    /\ \/ cron.pc = "idle" \/ \E q \in Key : StaleRule(q)
       \/ MayStart /\ cron' = cron

LEMMA RowChange ==
    ASSUME TypeOK, [Next]_vars, NEW k \in Key, alerts'[k] # alerts[k]
    PROVE  \/ Deletes(k)
           \/ \E d \in Device : /\ RuleSet(d) /\ PollKey(d) = k
                                /\ alerts'[k] = Opened(alerts[k],
                                        IF poller[d].raise THEN 1 ELSE 0)
           \/ /\ cron.key = k /\ alerts[k].state # -1
              /\ \/ /\ FollowUpSet
                    /\ alerts'[k] = [state |-> cron.row.state, open |-> TRUE,
                                     alerted |-> 1]
                 \/ /\ AlertAlerted /\ cron.iss
                    /\ alerts'[k] = [alerts[k] EXCEPT !.alerted = cron.row.state]
           \/ /\ cron.key = k
              /\ AckClose \/ (AlertClose /\ cron.acc)
              /\ alerts'[k] = [alerts[k] EXCEPT !.open = FALSE]
           \/ UserSets(k)
<1>0. alerts \in [Key -> AlertRow] /\ cron.key \in Key
  BY DEF TypeOK, CronType
<1>1. ASSUME NEW d \in Device, Poll(d)
      PROVE  /\ RuleSet(d) /\ PollKey(d) = k
             /\ alerts'[k] = Opened(alerts[k], IF poller[d].raise THEN 1 ELSE 0)
  <2>1. RuleSet(d)
    BY <1>0, <1>1 DEF Poll, RunRules, CheckRule, RefreshRead, RefreshWrite,
       RuleLog, RulesEnd, rows
  <2>2. alerts' = [alerts EXCEPT ![PollKey(d)] = Opened(@, IF poller[d].raise
                                                           THEN 1 ELSE 0)]
    BY <2>1 DEF RuleSet
  <2>3. PollKey(d) = k
    BY <1>0, <2>2
  <2> QED BY <1>0, <2>1, <2>2, <2>3
<1>2. CASE CronStart
  BY <1>0, <1>2 DEF CronStart, ClearStale, Deletes
<1>3. ASSUME NEW q \in Key, StaleRule(q) PROVE Deletes(k)
  BY <1>0, <1>3 DEF StaleRule, Deletes
<1>4. CASE FollowUpSet
  BY <1>0, <1>4 DEF FollowUpSet
<1>5. CASE AlertAlerted
  BY <1>0, <1>5 DEF AlertAlerted
<1>6. CASE AlertClose
  BY <1>0, <1>6 DEF AlertClose
<1>7. CASE AckClose
  BY <1>0, <1>7 DEF AckClose
<1>8. ASSUME Cron PROVE CronStart \/ FollowUpSet \/ AlertAlerted \/ AlertClose
                        \/ AckClose \/ \E q \in Key : StaleRule(q)
  BY <1>8 DEF Cron, FollowUpRead, FollowUpLog, FollowUpEnd, AlertWait, AlertRead,
     AlertDetails, AlertIssue, AlertsEnd, AckRead, AckIssue, AcksEnd, rows
<1>9. CASE Environment
  <2>1. ASSUME NEW q \in Key, AckAlert(q) PROVE UserSets(k)
    BY <1>0, <2>1 DEF AckAlert, Operation, UserSets
  <2>2. ASSUME NEW q \in Key, UnackAlert(q) PROVE UserSets(k)
    BY <1>0, <2>2 DEF UnackAlert, Operation, UserSets
  <2>3. ASSUME NEW q \in Key, ApiSetState(q, "apiack", 2) PROVE UserSets(k)
    BY <1>0, <2>3 DEF ApiSetState, Operation, UserSets
  <2>4. ASSUME NEW q \in Key, ApiSetState(q, "apiunmute", 1) PROVE UserSets(k)
    BY <1>0, <2>4 DEF ApiSetState, Operation, UserSets
  <2>5. ASSUME NEW d \in Device, DeleteDevice(d) PROVE Deletes(k)
    BY <2>5 DEF DeleteDevice, Operation, Deletes
  <2> QED BY <1>9, <2>1, <2>2, <2>3, <2>4, <2>5 DEF Environment, FaultChange,
         PurgeLog, ChangeContacts, ToggleRule, ToggleFlag, CrashPoller, CrashCron, rows
<1>10. ~Time /\ ~(UNCHANGED vars)
  BY DEF Time, Elapse, vars, rows
<1> QED BY <1>1, <1>2, <1>3, <1>4, <1>5, <1>6, <1>7, <1>8, <1>9, <1>10 DEF Next

\* What the latest row says changes only with a new one.
LEMMA KnownLast ==
    ASSUME TypeOK, TypeOK', [Next]_vars, NEW k \in Key, NEW s, KnowsLast(k, s)
    PROVE  \/ KnowsLast(k, s)'
           \/ \E d \in Device : RuleLog(d) /\ PollKey(d) = k
           \/ FollowUpLog /\ cron.key = k
<1>1. ASSUME Len(log'[k]) = Len(log[k]),
             log'[k][Len(log[k])].state = LastRow(k).state
      PROVE  KnowsLast(k, s)'
  <2>1. Len(log[k]) > 0
    BY LengthFacts DEF KnowsLast
  <2>2. log'[k] \in Seq(LogRow)
    BY DEF TypeOK
  <2>3. HasLog(k)'
    BY <1>1, <2>1, <2>2 DEF HasLog
  <2> QED BY <1>1, <2>3 DEF KnowsLast, LastRow
<1>2. ASSUME Steady(k) PROVE KnowsLast(k, s)'
  BY <1>1, <1>2 DEF Steady, KnowsLast, LastRow
<1>3. ASSUME NEW q \in Key, NEW id \in Nat, NEW row \in LogRow,
             WriteDetails(q, id, row)
      PROVE  KnowsLast(k, s)'
  BY <1>1, <1>2, <1>3, WriteLast DEF KnowsLast
<1>4. ASSUME log' = log PROVE KnowsLast(k, s)'
  BY <1>2, <1>4, SameLogSteady
<1>5. cron.key \in Key /\ cron.row \in LogRow /\ cron.id \in Nat
  BY DEF TypeOK, CronType
<1>6. ASSUME NEW d \in Device, Poll(d), ~(RuleLog(d) /\ PollKey(d) = k)
      PROVE  KnowsLast(k, s)'
  <2>1. PollKey(d) \in Key /\ poller[d] \in PollerType
    BY DEF TypeOK, PollKey, PollerType, Key
  <2>2. CASE RefreshWrite(d)
    <3>1. [poller[d].row EXCEPT !.n = poller[d].n, !.to = people[PollKey(d)]] \in LogRow
          /\ poller[d].id \in Nat
      BY <2>1 DEF LogRow, PollerType, TypeOK
    <3> QED BY <1>3, <2>1, <2>2, <3>1 DEF RefreshWrite
  <2>3. CASE RuleLog(d)
    <3>1. log'[k] = log[k]
      BY <1>6, <2>1, <2>3 DEF RuleLog, TypeOK
    <3> QED BY <1>2, <3>1 DEF Steady
  <2>4. CASE ~RefreshWrite(d) /\ ~RuleLog(d)
    BY <1>4, <1>6, <2>4 DEF Poll, RunRules, CheckRule, RefreshRead, RuleSet,
                            RulesEnd, rows
  <2> QED BY <2>2, <2>3, <2>4
<1>7. ASSUME Cron, ~(FollowUpLog /\ cron.key = k) PROVE KnowsLast(k, s)'
  <2>1. CASE FollowUpLog
    <3>1. log'[k] = log[k]
      BY <1>5, <1>7, <2>1 DEF FollowUpLog, TypeOK
    <3> QED BY <1>2, <3>1 DEF Steady
  <2>2. CASE AlertDetails
    BY <1>3, <1>4, <1>5, <2>2 DEF AlertDetails
  <2>3. CASE ~FollowUpLog /\ ~AlertDetails
    BY <1>4, <1>7, <2>3 DEF Cron, CronStart, StaleRule, FollowUpRead, FollowUpSet,
             FollowUpEnd, AlertWait, AlertRead, AlertIssue, AlertAlerted,
             AlertClose, AlertsEnd, AckRead, AckIssue, AckClose, AcksEnd, rows
  <2> QED BY <2>1, <2>2, <2>3
<1>8. ASSUME Environment PROVE KnowsLast(k, s)'
  BY <1>4, <1>8 DEF Environment, FaultChange, AckAlert, UnackAlert, ApiSetState,
         PurgeLog, ChangeContacts, ToggleRule, ToggleFlag, DeleteDevice,
         CrashPoller, CrashCron, rows
<1>9. ASSUME Time PROVE KnowsLast(k, s)'
  BY <1>2, <1>9, ElapseSteady DEF Time
<1>10. ASSUME UNCHANGED vars PROVE KnowsLast(k, s)'
  BY <1>4, <1>10 DEF vars, rows
<1> QED BY <1>6, <1>7, <1>8, <1>9, <1>10 DEF Next

\* A step that is not one of alerts.php leaves it where it was, but for a crash.
CronStays ==
    /\ cron'.pc = cron.pc /\ cron'.key = cron.key /\ cron'.id = cron.id
    /\ cron'.iss = cron.iss /\ cron'.acc = cron.acc /\ cron'.upd = cron.upd
    /\ cron'.todo = cron.todo /\ cron'.row.state = cron.row.state
    /\ cron'.row.count = cron.row.count
    /\ told' = told /\ turn' = turn

LEMMA CronStill ==
    ASSUME TypeOK, [Next]_vars, ~Cron
    PROVE  CronStays \/ CrashCron
<1>1. cron \in CronType /\ cron.row \in LogRow
  BY DEF TypeOK, CronType
<1>2. CASE cron' = cron /\ told' = told /\ turn' = turn
  BY <1>2 DEF CronStays
<1>3. ASSUME NEW k \in Key, NEW t, Elapse(k, t) PROVE CronStays
  <2>1. /\ Over(cron.row, t).state = cron.row.state
        /\ Over(cron.row, t).count = cron.row.count
    BY <1>1 DEF Over, LogRow
  <2> QED BY <1>1, <1>3, <2>1 DEF Elapse, CronType, CronStays, hist
<1>4. ASSUME NEW d \in Device, Poll(d)
      PROVE  cron' = cron /\ told' = told /\ turn' = turn
  BY <1>4 DEF Poll, RunRules, CheckRule, RefreshRead, RefreshWrite, RuleLog,
     RuleSet, RulesEnd, hist
<1>5. ASSUME Environment, ~CrashCron
      PROVE  cron' = cron /\ told' = told /\ turn' = turn
  BY <1>5 DEF Environment, FaultChange, AckAlert, UnackAlert, ApiSetState,
     PurgeLog, ChangeContacts, ToggleRule, ToggleFlag, DeleteDevice, CrashPoller, hist
<1>6. ASSUME UNCHANGED vars PROVE cron' = cron /\ told' = told /\ turn' = turn
  BY <1>6 DEF vars, hist
<1> QED BY <1>2, <1>3, <1>4, <1>5, <1>6 DEF Next, Time

\* How alerts.php gets to the steps of a notice.
LEMMA NoticeMoves ==
    ASSUME TypeOK, [Next]_vars, cron'.pc \in AtNotice, ~CronStays
    PROVE  \/ \E k \in Key : AlertRead(k)
           \/ AlertDetails \/ AlertIssue \/ AlertAlerted
<1>1. cron \in CronType
  BY DEF TypeOK
<1>2. ~CrashCron
  BY DEF CrashCron, IdleCron, AtNotice
<1>3. Cron
  BY <1>2, CronStill
<1>4. ASSUME NEW pc \in {"follow", "alerts", "acks"}, NEW k \in Key, NEW c
      PROVE  [Loop(pc, k) EXCEPT !.cache = c].pc \notin AtNotice
  BY DEF Loop, IdleCron, AtNotice
<1>5. ASSUME NEW k \in Key, StaleRule(k) \/ FollowUpRead(k) \/ AlertWait(k) \/ AckRead(k)
      PROVE  FALSE
  <2>1. CASE StaleRule(k)
    BY <1>4, <2>1 DEF StaleRule
  <2>2. CASE FollowUpRead(k)
    <3>1. cron'.pc = "flog" \/ cron' = [Loop("follow", k) EXCEPT !.cache = NewCache(k)]
      BY <1>1, <2>2 DEF FollowUpRead, CronType
    <3> QED BY <1>4, <3>1 DEF AtNotice
  <2>3. CASE AlertWait(k)
    BY <1>4, <2>3 DEF AlertWait
  <2>4. CASE AckRead(k)
    BY <1>1, <2>4 DEF AckRead, CronType, AtNotice
  <2> QED BY <1>5, <2>1, <2>2, <2>3, <2>4
<1>6. ~CronStart /\ ~FollowUpLog /\ ~AckIssue
  BY <1>1 DEF CronStart, FollowUpLog, AckIssue, CronType, AtNotice
<1>7. ~FollowUpSet /\ ~AlertClose /\ ~AckClose
  BY <1>1, <1>4 DEF FollowUpSet, AlertClose, AckClose, CronType
<1>8. ASSUME NEW pc \in {"alerts", "acks"}, NEW c, NEW todo
      PROVE  [IdleCron EXCEPT !.pc = pc, !.cache = c, !.todo = todo].pc \notin AtNotice
  BY <1>8 DEF IdleCron, AtNotice
<1>9. ~FollowUpEnd /\ ~AlertsEnd
  BY <1>8 DEF FollowUpEnd, AlertsEnd
<1>10. ~AcksEnd
  BY DEF AcksEnd, IdleCron, AtNotice
<1> QED BY <1>3, <1>5, <1>6, <1>7, <1>9, <1>10 DEF Cron

LEMMA NoticeSteps ==
    ASSUME TypeOK, AlertDetails \/ AlertIssue \/ AlertAlerted
    PROVE  /\ cron'.key = cron.key /\ cron'.row = cron.row /\ cron'.todo = cron.todo
           /\ cron'.iss = cron.iss /\ cron'.acc = cron.acc /\ cron'.upd = cron.upd
           /\ \/ AlertDetails /\ cron.pc = "details" /\ cron'.pc = "issue"
              \/ AlertIssue /\ cron.pc = "issue" /\ cron'.pc = "alerted"
              \/ AlertAlerted /\ cron.pc = "alerted" /\ cron'.pc = "close"
BY DEF TypeOK, AlertDetails, AlertIssue, AlertAlerted, CronType

\* What is decided from the latest row, and what is kept of it.
LEMMA ReadFacts ==
    ASSUME TypeOK, NEW k \in Key, AlertRead(k)
    PROVE  /\ HasLog(k) /\ LastRow(k) \in LogRow /\ k \in cron.todo
           /\ cron.pc = "alerts" /\ cron'.pc = "details" /\ cron'.key = k
           /\ cron'.todo = cron.todo /\ cron'.id = Len(log[k])
           /\ cron'.row.state = LastRow(k).state
           /\ cron'.row.count = Tally(LastRow(k), Extra[k[2]])
           /\ cron'.iss <=> Issues(k, LastRow(k))
           /\ cron'.acc <=> Closes(k, LastRow(k))
           /\ cron'.upd <=> Rewrites(k, LastRow(k))
           /\ alerts' = alerts /\ log' = log /\ flags' = flags
           /\ told' = told /\ turn' = turn /\ issues' = issues /\ poller' = poller
<1>1. cron \in CronType /\ HasRow(k)
  BY DEF TypeOK, AlertRead, IsRuleValid, RowFound
<1>2. HasLog(k) /\ LastRow(k) \in LogRow
  BY <1>1, LengthFacts
<1>3. /\ cron'.pc = "details" /\ cron'.key = k /\ cron'.todo = cron.todo
      /\ cron'.id = Len(log[k])
      /\ cron'.row = [LastRow(k) EXCEPT !.count = Tally(LastRow(k), Extra[k[2]]),
                                        !.cool = HasGap(Extra[k[2]]) \/ @]
      /\ cron'.iss = Issues(k, LastRow(k)) /\ cron'.acc = Closes(k, LastRow(k))
      /\ cron'.upd = Rewrites(k, LastRow(k))
  BY <1>1, Zenon DEF AlertRead, CronType
<1>4. /\ cron'.row.state = LastRow(k).state
      /\ cron'.row.count = Tally(LastRow(k), Extra[k[2]])
  BY <1>2, <1>3 DEF LogRow
<1>5. /\ alerts' = alerts /\ log' = log /\ flags' = flags
      /\ told' = told /\ turn' = turn /\ issues' = issues /\ poller' = poller
      /\ cron.pc = "alerts" /\ k \in cron.todo
  BY DEF AlertRead, rows, env, hist
<1>6. /\ cron'.iss <=> Issues(k, LastRow(k))
      /\ cron'.acc <=> Closes(k, LastRow(k))
      /\ cron'.upd <=> Rewrites(k, LastRow(k))
  BY <1>3
<1> QED BY <1>2, <1>3, <1>4, <1>5, <1>6

-----------------------------------------------------------------------------
(***************************************************************************)
(* Alone is an invariant: one lemma per program.                           *)
(***************************************************************************)
\* Statements that leave the state of every row.
LEMMA StateKept ==
    ASSUME TypeOK, NEW k \in Key,
           \/ alerts' = alerts
           \/ alerts' = [alerts EXCEPT ![k].open = FALSE]
           \/ \E s \in LogRow : alerts' = [alerts EXCEPT ![k].alerted = s.state]
    PROVE  \A q \in Key : /\ alerts'[q].state = alerts[q].state
                          /\ alerts'[q].open => alerts[q].open
<1>1. CASE alerts' = alerts
  BY <1>1
<1>2. CASE alerts' = [alerts EXCEPT ![k].open = FALSE]
  BY <1>2 DEF TypeOK, AlertRow
<1>3. ASSUME NEW s \in LogRow, alerts' = [alerts EXCEPT ![k].alerted = s.state]
      PROVE  \A q \in Key : /\ alerts'[q].state = alerts[q].state
                            /\ alerts'[q].open => alerts[q].open
  BY <1>3 DEF TypeOK, AlertRow
<1> QED BY <1>1, <1>2, <1>3

LEMMA PollerStillKnows ==
    ASSUME TypeOK, TypeOK', NEW d \in Device, PollerKnows(d),
           NEW k \in Key, k = PollKey(d), Steady(k),
           poller'[d].pc = poller[d].pc, poller'[d].rule = poller[d].rule,
           poller'[d].raise = poller[d].raise, poller'[d].id = poller[d].id,
           poller'[d].row.count = poller[d].row.count
    PROVE  PollerKnows(d)'
<1>1. PollKey(d)' = k
  BY DEF PollKey
<1>2. /\ HasLog(k)' <=> HasLog(k)
      /\ HasLog(k) => /\ LastRow(k)'.state = LastRow(k).state
                      /\ LastRow(k)'.count = LastRow(k).count
      /\ Len(log'[k]) = Len(log[k])
  BY SteadyLast DEF Steady
<1>3. /\ HasLog(PollKey(d))' = HasLog(k)' /\ LastRow(PollKey(d))' = LastRow(k)'
  BY <1>1 DEF HasLog, LastRow
<1> QED BY <1>1, <1>2, <1>3 DEF PollerKnows, KnowsLast

\* With all pollers idle, or their rows untouched.
LEMMA PollersStillKnow ==
    ASSUME TypeOK, TypeOK', Alone, poller' = poller,
           (\A d \in Device : poller[d].pc = "idle") \/ log' = log
    PROVE  \A d \in Device : PollerKnows(d)'
<1> SUFFICES ASSUME NEW d \in Device PROVE PollerKnows(d)'
  OBVIOUS
<1>1. PollKey(d) \in Key
  BY DEF TypeOK, PollKey, PollerType, Key
<1>2. CASE poller[d].pc = "idle"
  BY <1>2 DEF PollerKnows
<1>3. CASE log' = log
  BY <1>1, <1>3, SameLogSteady, PollerStillKnows DEF Alone
<1> QED BY <1>2, <1>3

LEMMA PollAlone ==
    ASSUME ~Overlap, TypeOK, TypeOK', Alone, NEW d \in Device, Poll(d)
    PROVE  Alone'
<1>0. PollKey(d) \in Key /\ poller[d] \in PollerType
  BY DEF TypeOK, PollKey, PollerType, Key
<1>1. /\ cron' = cron /\ enabled' = enabled /\ flags' = flags /\ purged' = purged
  BY DEF Poll, RunRules, CheckRule, RefreshRead, RefreshWrite, RuleLog, RuleSet,
         RulesEnd, env
<1>2. cron.pc = "idle" /\ "gone" \notin flags[d]
  <2>1. CASE RunRules(d)
    BY <2>1 DEF RunRules, MayStart, Idle
  <2>2. CASE ~RunRules(d)
    <3>1. poller[d].pc # "idle"
      BY <2>2 DEF Poll, CheckRule, RefreshRead, RefreshWrite, RuleLog, RuleSet,
                  RulesEnd
    <3>2. <<d, poller[d].rule>> \in Key
      BY <1>0 DEF PollKey
    <3> QED BY <3>1, <3>2 DEF Alone, TakeTurns, Deleted
  <2> QED BY <2>1, <2>2
<1>3. ASSUME NEW e \in Device, e # d PROVE poller'[e] = poller[e]
  BY <1>3 DEF Poll, RunRules, CheckRule, RefreshRead, RefreshWrite, RuleLog,
         RuleSet, RulesEnd, NextRule, TypeOK
<1>4. TakeTurns'
  BY <1>1, <1>2 DEF Alone, TakeTurns
<1>5. \A k \in Key : /\ k[1] # d => alerts'[k] = alerts[k]
                     /\ alerts'[k].open => alerts'[k].state # -1
  <2>1. CASE alerts' = alerts
    BY <2>1 DEF Alone, Selected
  <2>2. CASE RuleSet(d)
    <3> DEFINE k == PollKey(d)
               t == IF poller[d].raise THEN 1 ELSE 0
    <3>1. t # -1 /\ k[1] = d
      BY DEF PollKey
    <3>2. alerts' = [alerts EXCEPT ![k] = Opened(@, t)]
      BY <2>2 DEF RuleSet
    <3>3. alerts'[k].state = t /\ \A q \in Key : q # k => alerts'[q] = alerts[q]
      BY <1>0, <3>2 DEF Opened, TypeOK, AlertRow
    <3> HIDE DEF t, k
    <3> QED BY <3>1, <3>3 DEF Alone, Selected
  <2> QED BY <2>1, <2>2 DEF Poll, RunRules, CheckRule, RefreshRead,
             RefreshWrite, RuleLog, RulesEnd, rows
<1>6. Deleted'
  BY <1>1, <1>2, <1>3, <1>5, KeyFacts DEF Alone, Deleted
<1>7. Selected' /\ CronKnows'
  BY <1>1, <1>2, <1>5 DEF Selected, CronKnows, AtNotice, AtAck
<1>8. ASSUME NEW e \in Device, e # d PROVE PollerKnows(e)'
  <2>1. PICK k \in Key : k = PollKey(e)
    BY DEF TypeOK, PollKey, PollerType, Key
  <2>2. k # PollKey(d)
    BY <1>8, <2>1 DEF PollKey
  <2>3. Steady(k)
    <3>1. log'[k] = log[k]
      BY <1>0, <2>2 DEF Poll, RunRules, CheckRule, RefreshRead, RefreshWrite,
             RuleLog, RuleSet, RulesEnd, WriteDetails, rows, TypeOK
    <3> QED BY <3>1 DEF Steady
  <2> QED BY <1>3, <1>8, <2>1, <2>3, PollerStillKnows DEF Alone
<1>9. PollerKnows(d)'
  <2>1. PICK k \in Key : k = PollKey(d)
    BY <1>0
  <2>2. CASE RuleLog(d)
    <3>1. PICK row \in LogRow :
              /\ log' = [log EXCEPT ![k] = Append(@, row)]
              /\ row.state = IF poller[d].raise THEN 1 ELSE 0
      <4> DEFINE new == IF poller[d].raise THEN NewRow(1, poller[d].n, people[k], k[2])
                                           ELSE NewRow(0, 0, 0, k[2])
      <4>1. new \in LogRow
        BY <1>0, <2>1, NewRowType, KeyFacts DEF PollerType, TypeOK
      <4>2. log' = [log EXCEPT ![k] = Append(@, new)]
        BY <2>1, <2>2 DEF RuleLog
      <4>3. new.state = IF poller[d].raise THEN 1 ELSE 0
        BY DEF NewRow
      <4> HIDE DEF new
      <4> QED BY <4>1, <4>2, <4>3
    <3>2. HasLog(k)' /\ LastRow(k)' = row
      BY <3>1, AppendLast
    <3>3. /\ poller'[d].pc = "set" /\ poller'[d].raise = poller[d].raise
          /\ poller'[d].rule = poller[d].rule
      BY <1>0, <2>2 DEF RuleLog, TypeOK, PollerType
    <3>4. PollKey(d)' = k
      BY <2>1, <3>3 DEF PollKey
    <3>5. HasLog(PollKey(d))' /\ LastRow(PollKey(d))' = row
      BY <3>2, <3>4 DEF HasLog, LastRow
    <3> QED BY <3>1, <3>3, <3>5 DEF PollerKnows, KnowsLast
  <2>3. CASE RefreshRead(d) /\ ~NextRule(d)
    <3>1. /\ HasRow(k) /\ log' = log
          /\ poller' = [poller EXCEPT ![d].pc = "write", ![d].id = Len(log[k]),
                                      ![d].row = LastRow(k)]
      BY <2>1, <2>3 DEF RefreshRead, rows
    <3>2. /\ poller'[d].pc = "write" /\ poller'[d].id = Len(log[k])
          /\ poller'[d].row = LastRow(k) /\ poller'[d].rule = poller[d].rule
      BY <1>0, <3>1 DEF TypeOK, PollerType
    <3>3. PollKey(d)' = k
      BY <2>1, <3>2 DEF PollKey
    <3>4. HasLog(k)
      BY <3>1, LengthFacts
    <3>5. HasLog(PollKey(d))' /\ LastRow(PollKey(d))' = LastRow(k)
      BY <3>1, <3>3, <3>4 DEF HasLog, LastRow
    <3> QED BY <3>1, <3>2, <3>3, <3>5 DEF PollerKnows
  <2>4. CASE ~RuleLog(d) /\ ~(RefreshRead(d) /\ ~NextRule(d))
    <3>1. poller'[d].pc \notin {"set", "write"}
      <4>1. ASSUME NEW r \in Rule, CheckRule(d, r)
            PROVE  poller'[d].pc \notin {"set", "write"}
        BY <1>0, <4>1 DEF CheckRule, IdlePoller, TypeOK
      <4>2. CASE NextRule(d)
        BY <1>0, <4>2 DEF NextRule, IdlePoller, TypeOK
      <4>3. CASE RunRules(d)
        BY <1>0, <4>3 DEF RunRules, TypeOK, PollerType
      <4>4. CASE RulesEnd(d)
        BY <1>0, <4>4 DEF RulesEnd, IdlePoller, TypeOK
      <4> QED BY <2>4, <4>1, <4>2, <4>3, <4>4 DEF Poll, RefreshWrite, RuleSet
    <3> QED BY <3>1 DEF PollerKnows
  <2> QED BY <2>2, <2>3, <2>4
<1> QED BY <1>4, <1>6, <1>7, <1>8, <1>9 DEF Alone

LEMMA TimeAlone ==
    ASSUME TypeOK, TypeOK', Alone, NEW q \in Key, NEW t, Elapse(q, t)
    PROVE  Alone'
<1>1. cron \in CronType /\ cron.row \in LogRow /\ cron.key \in Key
  BY DEF TypeOK, CronType
<1>2. /\ Over(cron.row, t).state = cron.row.state
      /\ Over(cron.row, t).count = cron.row.count
  BY <1>1 DEF Over, LogRow
<1>3. /\ cron'.pc = cron.pc /\ cron'.key = cron.key /\ cron'.id = cron.id
      /\ cron'.row.state = cron.row.state /\ cron'.todo = cron.todo
      /\ cron'.cache = cron.cache
  BY <1>1, <1>2 DEF Elapse, CronType
<1>4. /\ alerts' = alerts /\ flags' = flags /\ enabled' = enabled /\ purged' = purged
  BY DEF Elapse, env
<1>5. \A d \in Device : /\ poller'[d].pc = poller[d].pc
                        /\ poller'[d].rule = poller[d].rule
                        /\ poller'[d].raise = poller[d].raise
                        /\ poller'[d].id = poller[d].id
                        /\ poller'[d].row.count = poller[d].row.count
  <2> SUFFICES ASSUME NEW d \in Device
               PROVE  /\ poller'[d].pc = poller[d].pc
                      /\ poller'[d].rule = poller[d].rule
                      /\ poller'[d].raise = poller[d].raise
                      /\ poller'[d].id = poller[d].id
                      /\ poller'[d].row.count = poller[d].row.count
    OBVIOUS
  <2>1. poller[d] \in PollerType /\ poller[d].row \in LogRow
    BY DEF TypeOK, PollerType
  <2>2. \/ poller'[d] = poller[d]
        \/ poller'[d] = [poller[d] EXCEPT !.row = Over(poller[d].row, t)]
    BY DEF Elapse, TypeOK
  <2>3. Over(poller[d].row, t).count = poller[d].row.count
    BY <2>1 DEF Over, LogRow
  <2> QED BY <2>1, <2>2, <2>3 DEF PollerType
<1>6. \A d \in Device : PollerKnows(d)'
  <2> SUFFICES ASSUME NEW d \in Device PROVE PollerKnows(d)'
    OBVIOUS
  <2>1. PICK k \in Key : k = PollKey(d)
    BY DEF TypeOK, PollKey, PollerType, Key
  <2>2. Steady(k)
    BY ElapseSteady
  <2> QED BY <1>5, <2>1, <2>2, PollerStillKnows DEF Alone
<1>7. CronKnows'
  <2>1. PICK k \in Key : k = cron.key
    BY <1>1
  <2>2. /\ HasLog(k)' <=> HasLog(k)
        /\ HasLog(k) => LastRow(k)'.state = LastRow(k).state
        /\ Len(log'[k]) = Len(log[k])
    BY ElapseSteady, SteadyLast DEF Steady
  <2>3. HasLog(cron.key)' = HasLog(k)' /\ LastRow(cron.key)' = LastRow(k)'
    BY <1>3, <2>1 DEF HasLog, LastRow
  <2> QED BY <1>3, <1>4, <2>1, <2>2, <2>3 DEF Alone, CronKnows, KnowsLast
<1>8. TakeTurns' /\ Deleted' /\ Selected'
  BY <1>3, <1>4, <1>5, KeyFacts DEF Alone, TakeTurns, Deleted, Selected
<1> QED BY <1>6, <1>7, <1>8 DEF Alone

\* While both programs are idle, what the invariant says is only about rows.
LEMMA IdleAlone ==
    ASSUME Alone, Idle, cron' = cron, poller' = poller,
           enabled' = enabled \/ \A d \in Device : cron.cache[d] = {},
           \A k \in Key : "gone" \in flags'[k[1]] => alerts'[k].state = -1,
           \A k \in Key : alerts'[k].open => alerts'[k].state # -1
    PROVE  Alone'
<1>1. TakeTurns' /\ Selected' /\ CronKnows'
  BY DEF Alone, Idle, TakeTurns, Selected, CronKnows, AtNotice, AtAck
<1>2. Deleted'
  BY KeyFacts DEF Idle, Deleted
<1>3. \A d \in Device : PollerKnows(d)'
  BY DEF Idle, PollerKnows
<1> QED BY <1>1, <1>2, <1>3 DEF Alone

LEMMA EnvironmentAlone ==
    ASSUME ~Overlap, TypeOK, TypeOK', Alone, Environment
    PROVE  Alone'
<1>0. /\ \A k \in Key : "gone" \in flags[k[1]] => alerts[k].state = -1
      /\ \A k \in Key : alerts[k].open => alerts[k].state # -1
  BY DEF Alone, Deleted, Selected
<1>1. ASSUME NEW op, Operation(op)
      PROVE  Idle /\ \A d \in Device : cron.cache[d] = {}
  BY <1>1 DEF Operation, MayStart, Idle, Alone, TakeTurns
<1>2. ASSUME NEW k \in Key, FaultChange(k) PROVE Alone'
  <2>1. /\ alerts' = alerts /\ log' = log /\ cron' = cron /\ poller' = poller
        /\ flags' = flags /\ enabled' = enabled /\ purged' = purged
    BY <1>2 DEF FaultChange, rows
  <2>2. \A d \in Device : PollerKnows(d)'
    BY <2>1, PollersStillKnow
  <2>3. TakeTurns' /\ Deleted' /\ Selected' /\ CronKnows'
    BY <2>1 DEF Alone, TakeTurns, Deleted, Selected, CronKnows, KnowsLast, HasLog,
                LastRow
  <2> QED BY <2>2, <2>3 DEF Alone
<1>3. ASSUME NEW k \in Key, NEW s \in 0..4, alerts[k].state # -1,
             \/ alerts' = [alerts EXCEPT ![k].state = s]
             \/ alerts' = [alerts EXCEPT ![k] = Opened(@, s)]
      PROVE  /\ \A q \in Key : "gone" \in flags[q[1]] => alerts'[q].state = -1
             /\ \A q \in Key : alerts'[q].open => alerts'[q].state # -1
  <2>1. alerts'[k].state = s /\ \A q \in Key : q # k => alerts'[q] = alerts[q]
    <3>1. CASE alerts' = [alerts EXCEPT ![k].state = s]
      BY <3>1 DEF TypeOK, AlertRow
    <3>2. CASE alerts' = [alerts EXCEPT ![k] = Opened(@, s)]
      BY <3>2 DEF Opened, TypeOK, AlertRow
    <3> QED BY <1>3, <3>1, <3>2
  <2> QED BY <1>0, <1>3, <2>1
<1>4. ASSUME NEW k \in Key, AckAlert(k) \/ UnackAlert(k) PROVE Alone'
  <2>1. PICK s \in 0..4 : alerts' = [alerts EXCEPT ![k] = Opened(@, s)]
    <3>1. alerts[k].alerted \in 0..4
      BY DEF TypeOK, AlertRow
    <3>2. UnackAlert(k) =>
              alerts' = [alerts EXCEPT ![k] = Opened(@, alerts[k].alerted)]
      BY DEF UnackAlert, TypeOK
    <3> QED BY <1>4, <3>1, <3>2 DEF AckAlert
  <2>2. /\ alerts[k].state # -1 /\ cron' = cron /\ poller' = poller
        /\ enabled' = enabled /\ flags' = flags /\ Idle
    BY <1>1, <1>4 DEF AckAlert, UnackAlert
  <2>3. /\ \A q \in Key : "gone" \in flags[q[1]] => alerts'[q].state = -1
        /\ \A q \in Key : alerts'[q].open => alerts'[q].state # -1
    BY <1>3, <2>1, <2>2
  <2> QED BY <2>2, <2>3, IdleAlone
<1>5. ASSUME NEW k \in Key, NEW op, NEW s \in 0..4, ApiSetState(k, op, s) PROVE Alone'
  BY <1>1, <1>3, <1>5, IdleAlone DEF ApiSetState
<1>6. ASSUME NEW k \in Key, PurgeLog(k) \/ ChangeContacts(k) PROVE Alone'
  BY <1>0, <1>1, <1>6, IdleAlone DEF PurgeLog, ChangeContacts, rows
<1>7. ASSUME NEW r \in Rule, ToggleRule(r) PROVE Alone'
  BY <1>0, <1>1, <1>7, IdleAlone DEF ToggleRule, rows
<1>8. ASSUME NEW d \in Device, NEW f \in Flag, ToggleFlag(d, f) PROVE Alone'
  <2>1. \A k \in Key : "gone" \in flags'[k[1]] => "gone" \in flags[k[1]]
    BY <1>8, KeyFacts DEF ToggleFlag, TypeOK
  <2> QED BY <1>0, <1>1, <1>8, <2>1, IdleAlone DEF ToggleFlag, rows
<1>9. ASSUME NEW d \in Device, DeleteDevice(d) PROVE Alone'
  <2>1. /\ \A k \in Key : alerts'[k] = IF k[1] = d THEN NoAlert ELSE alerts[k]
        /\ \A e \in Device : e # d => flags'[e] = flags[e]
    BY <1>9 DEF DeleteDevice, TypeOK
  <2>2. /\ \A k \in Key : "gone" \in flags'[k[1]] => alerts'[k].state = -1
        /\ \A k \in Key : alerts'[k].open => alerts'[k].state # -1
    BY <1>0, <2>1, KeyFacts DEF NoAlert
  <2> QED BY <1>1, <1>9, <2>2, IdleAlone DEF DeleteDevice
<1>10. ASSUME NEW d \in Device, CrashPoller(d) PROVE Alone'
  <2>1. /\ alerts' = alerts /\ log' = log /\ cron' = cron
        /\ flags' = flags /\ enabled' = enabled /\ purged' = purged
        /\ \A e \in Device : poller'[e] = IF e = d THEN IdlePoller ELSE poller[e]
    BY <1>10 DEF CrashPoller, rows, TypeOK
  <2>2. IdlePoller.pc = "idle"
    BY DEF IdlePoller
  <2>3. \A e \in Device : PollerKnows(e)'
    BY <2>1, <2>2 DEF Alone, PollerKnows, PollKey, KnowsLast, HasLog, LastRow
  <2>4. TakeTurns' /\ Deleted' /\ Selected' /\ CronKnows'
    BY <2>1, <2>2, KeyFacts DEF Alone, TakeTurns, Deleted, Selected, CronKnows,
                KnowsLast, HasLog, LastRow
  <2> QED BY <2>3, <2>4 DEF Alone
<1>11. CASE CrashCron
  <2>1. /\ alerts' = alerts /\ log' = log /\ poller' = poller
        /\ flags' = flags /\ enabled' = enabled /\ purged' = purged
        /\ cron' = IdleCron
    BY <1>11 DEF CrashCron, rows
  <2>2. \A d \in Device : PollerKnows(d)'
    BY <2>1, PollersStillKnow
  <2>3. TakeTurns' /\ Deleted' /\ Selected' /\ CronKnows'
    BY <2>1 DEF Alone, TakeTurns, Deleted, Selected, CronKnows, IdleCron,
                AtNotice, AtAck
  <2> QED BY <2>2, <2>3 DEF Alone
<1>12. 1 \in 0..4 /\ 2 \in 0..4
  OBVIOUS
<1> QED BY <1>2, <1>4, <1>5, <1>6, <1>7, <1>8, <1>9, <1>10, <1>11, <1>12
        DEF Environment

LEMMA CronAlone ==
    ASSUME ~Overlap, TypeOK, TypeOK', Alone, Cron
    PROVE  Alone'
<1>0. /\ cron \in CronType /\ cron.key \in Key /\ cron.row \in LogRow
      /\ cron.id \in Nat /\ cron.todo \subseteq Key
  BY DEF TypeOK, CronType
<1>1. /\ flags' = flags /\ enabled' = enabled /\ poller' = poller /\ purged' = purged
  BY DEF Cron, CronStart, StaleRule, FollowUpRead, FollowUpLog, FollowUpSet,
         FollowUpEnd, AlertWait, AlertRead, AlertDetails, AlertIssue,
         AlertAlerted, AlertClose, AlertsEnd, AckRead, AckIssue, AckClose,
         AcksEnd, env
<1>2. \A d \in Device : poller[d].pc = "idle"
  <2>1. CASE CronStart
    BY <2>1 DEF CronStart, MayStart, Idle
  <2>2. CASE ~CronStart
    <3>1. cron.pc # "idle"
      BY <2>2 DEF Cron, StaleRule, FollowUpRead, FollowUpLog, FollowUpSet,
         FollowUpEnd, AlertWait, AlertRead, AlertDetails, AlertIssue,
         AlertAlerted, AlertClose, AlertsEnd, AckRead, AckIssue, AckClose, AcksEnd
    <3> QED BY <3>1 DEF Alone, TakeTurns
  <2> QED BY <2>1, <2>2
<1>3. \A d \in Device : PollerKnows(d)'
  BY <1>1, <1>2, PollersStillKnow
<1>4. \A k \in Key : NewCache(k) \in [Device -> SUBSET Rule]
                     /\ \A d \in Device : NewCache(k)[d] \in {{}, enabled}
  <2> SUFFICES ASSUME NEW k \in Key
               PROVE  NewCache(k) \in [Device -> SUBSET Rule]
                      /\ \A d \in Device : NewCache(k)[d] \in {{}, enabled}
    OBVIOUS
  <2>1. k[1] \in Device /\ cron.cache \in [Device -> SUBSET Rule]
    BY <1>0, KeyFacts DEF CronType
  <2>2. enabled \in SUBSET Rule /\ \A d \in Device : cron.cache[d] \in {{}, enabled}
    BY DEF TypeOK, Alone, TakeTurns
  <2> QED BY <2>1, <2>2 DEF NewCache, Cached
<1>5. cron.cache \in [Device -> SUBSET Rule]
      /\ \A d \in Device : cron.cache[d] \in {{}, enabled}
  BY <1>0 DEF Alone, TakeTurns, CronType
<1>6. ASSUME \A d \in Device : cron'.cache[d] \in {{}, enabled},
             cron'.pc = "idle" => \A d \in Device : cron'.cache[d] = {}
      PROVE  TakeTurns'
  BY <1>1, <1>2, <1>6 DEF TakeTurns
<1>7. ASSUME \A k \in Key : alerts[k].state = -1 => alerts'[k].state = -1
      PROVE  Deleted'
  BY <1>1, <1>7 DEF Alone, Deleted
<1>8. ASSUME NEW pc \in {"follow", "alerts", "acks"}, NEW k \in Key,
             NEW c \in [Device -> SUBSET Rule],
             cron' = [Loop(pc, k) EXCEPT !.cache = c]
      PROVE  cron'.pc = pc /\ cron'.todo = cron.todo \ {k} /\ cron'.cache = c
  BY <1>8 DEF Loop, IdleCron
\* A step that goes back to the head of its loop.
<1>9. ASSUME NEW pc \in {"follow", "alerts", "acks"}, NEW k \in Key,
             NEW c \in [Device -> SUBSET Rule],
             \A d \in Device : c[d] \in {{}, enabled},
             cron' = [Loop(pc, k) EXCEPT !.cache = c],
             \A q \in Key : alerts[q].state = -1 => alerts'[q].state = -1,
             \A q \in Key : alerts'[q].open => alerts'[q].state # -1,
             pc = "alerts" => /\ cron.pc \in {"alerts"} \union AtNotice
                              /\ \A q \in cron.todo \ {k} : alerts'[q].state = alerts[q].state,
             pc = "acks" => /\ cron.pc \in {"acks"} \union AtAck
                            /\ \A q \in cron.todo \ {k} : alerts'[q].state = alerts[q].state
      PROVE  Alone'
  <2>1. cron'.pc = pc /\ cron'.todo = cron.todo \ {k} /\ cron'.cache = c
    BY <1>8, <1>9
  <2>2. TakeTurns'
    BY <1>6, <1>9, <2>1
  <2>3. Deleted'
    BY <1>7, <1>9
  <2>4. Selected'
    BY <1>9, <2>1 DEF Alone, Selected, AtNotice, AtAck
  <2>5. CronKnows'
    BY <2>1 DEF CronKnows, AtNotice
  <2> QED BY <1>3, <2>2, <2>3, <2>4, <2>5 DEF Alone
<1>10. CASE CronStart
  <2>1. \A k \in Key : alerts'[k] \in {alerts[k], NoAlert}
    BY <1>10 DEF CronStart, ClearStale
  <2>2. /\ cron'.pc = "follow" /\ cron'.cache = cron.cache
    BY <1>0, <1>10 DEF CronStart, CronType
  <2>3. TakeTurns' /\ Deleted'
    BY <1>5, <1>6, <1>7, <2>1, <2>2 DEF NoAlert
  <2>4. Selected' /\ CronKnows'
    BY <2>1, <2>2 DEF NoAlert, Alone, Selected, CronKnows, AtNotice, AtAck
  <2> QED BY <1>3, <2>3, <2>4 DEF Alone
<1>11. ASSUME NEW k \in Key, StaleRule(k) PROVE Alone'
  <2>1. \A q \in Key : alerts'[q] = IF q = k THEN NoAlert ELSE alerts[q]
    BY <1>11 DEF StaleRule, TypeOK
  <2>2. /\ \A q \in Key : alerts[q].state = -1 => alerts'[q].state = -1
        /\ \A q \in Key : alerts'[q].open => alerts'[q].state # -1
        /\ \A q \in cron.todo \ {k} : alerts'[q].state = alerts[q].state
    BY <1>0, <2>1 DEF NoAlert, Alone, Selected
  <2>3. cron.pc \in {"follow", "alerts", "acks"}
        /\ cron' = [Loop(cron.pc, k) EXCEPT !.cache = NewCache(k)]
    BY <1>11 DEF StaleRule
  <2> QED BY <1>4, <1>9, <2>2, <2>3
<1>12. ASSUME alerts' = alerts
       PROVE  /\ \A q \in Key : alerts[q].state = -1 => alerts'[q].state = -1
              /\ \A q \in Key : alerts'[q].open => alerts'[q].state # -1
              /\ \A q \in cron.todo : alerts'[q].state = alerts[q].state
  BY <1>12 DEF Alone, Selected
<1>13. ASSUME NEW k \in Key, NEW pc \in {"follow", "alerts", "acks"},
              cron' = [Loop(pc, k) EXCEPT !.cache = NewCache(k)],
              cron.pc = pc, alerts' = alerts
       PROVE  Alone'
  BY <1>4, <1>9, <1>12, <1>13
<1>14. ASSUME NEW k \in Key, FollowUpRead(k) PROVE Alone'
  <2>1. cron.pc = "follow" /\ alerts' = alerts /\ log' = log
    BY <1>14 DEF FollowUpRead, rows
  <2>2. CASE cron' = [Loop("follow", k) EXCEPT !.cache = NewCache(k)]
    BY <1>13, <2>1, <2>2
  <2>3. CASE cron' # [Loop("follow", k) EXCEPT !.cache = NewCache(k)]
    <3>1. /\ cron'.pc = "flog" /\ cron'.cache = NewCache(k)
          /\ cron'.row = [LastRow(k) EXCEPT
                            !.state = IF fault[k] > LastRow(k).n THEN 3 ELSE 4,
                            !.n = fault[k]]
      BY <1>0, <1>14, <2>3 DEF FollowUpRead, CronType
    <3>2. LastRow(k) \in LogRow
      <4>1. HasRow(k)
        BY <1>14 DEF FollowUpRead, IsRuleValid, RowFound
      <4> QED BY <4>1, LogFacts
    <3>3. cron'.row.state \in {3, 4}
      BY <3>1, <3>2 DEF LogRow
    <3>4. TakeTurns' /\ Deleted'
      BY <1>4, <1>6, <1>7, <1>12, <2>1, <3>1
    <3>5. Selected' /\ CronKnows'
      BY <1>12, <2>1, <3>1, <3>3 DEF Selected, CronKnows, AtNotice, AtAck
    <3> QED BY <1>3, <3>4, <3>5 DEF Alone
  <2> QED BY <2>2, <2>3
<1>15. CASE FollowUpLog
  <2> DEFINE row == [cron.row EXCEPT !.early = Extra[cron.key[2]].delay]
  <2>1. PICK k \in Key : k = cron.key
    BY <1>0
  <2>2. row \in LogRow /\ row.state = cron.row.state
    BY <1>0, KeyFacts, RuleFacts DEF LogRow
  <2>3. log' = [log EXCEPT ![k] = Append(@, row)]
    BY <1>15, <2>1 DEF FollowUpLog
  <2> HIDE DEF row
  <2>4. HasLog(k)' /\ LastRow(k)' = row
    BY <2>2, <2>3, AppendLast
  <2>5. /\ cron'.pc = "fset" /\ cron'.key = k /\ cron'.row = cron.row
        /\ cron'.cache = cron.cache /\ alerts' = alerts /\ cron.pc = "flog"
    BY <1>0, <1>15, <2>1 DEF FollowUpLog, CronType
  <2>6. HasLog(cron.key)' /\ LastRow(cron.key)' = row
    BY <2>4, <2>5 DEF HasLog, LastRow
  <2>7. TakeTurns' /\ Deleted'
    BY <1>5, <1>6, <1>7, <1>12, <2>5
  <2>8. Selected'
    BY <1>12, <2>5 DEF Selected, AtNotice, AtAck
  <2>9. CronKnows'
    BY <2>2, <2>5, <2>6 DEF Alone, CronKnows, KnowsLast, AtNotice
  <2> QED BY <1>3, <2>7, <2>8, <2>9 DEF Alone
<1>16. CASE FollowUpSet
  <2>1. \A q \in Key : /\ alerts[q].state = -1 => alerts'[q].state = -1
                       /\ alerts'[q].open => alerts'[q].state # -1
    <3>1. cron.row.state # -1
      BY <1>0 DEF LogRow
    <3>2. \A q \in Key : \/ alerts'[q] = alerts[q]
                         \/ alerts[q].state # -1 /\ alerts'[q].state = cron.row.state
      BY <1>0, <1>16 DEF FollowUpSet, TypeOK
    <3> QED BY <3>1, <3>2 DEF Alone, Selected
  <2>2. cron' = [Loop("follow", cron.key) EXCEPT !.cache = cron.cache]
    BY <1>16 DEF FollowUpSet
  <2> QED BY <1>0, <1>5, <1>9, <2>1, <2>2
<1>17. CASE FollowUpEnd \/ AlertsEnd
  <2>1. /\ cron'.cache = cron.cache /\ alerts' = alerts
        /\ \/ cron'.pc = "alerts" /\ cron'.todo = ToNotify
           \/ cron'.pc = "acks" /\ cron'.todo = ToAck
    BY <1>17 DEF FollowUpEnd, AlertsEnd, IdleCron, rows
  <2>2. TakeTurns' /\ Deleted'
    BY <1>5, <1>6, <1>7, <1>12, <2>1
  <2>3. Selected' /\ CronKnows'
    BY <1>12, <2>1 DEF Alone, Selected, CronKnows, AtNotice, AtAck, ToNotify, ToAck
  <2> QED BY <1>3, <2>2, <2>3 DEF Alone
<1>18. CASE AcksEnd
  <2>1. cron'.pc = "idle" /\ cron'.cache = [d \in Device |-> {}] /\ alerts' = alerts
    BY <1>18 DEF AcksEnd, IdleCron, rows
  <2>2. TakeTurns' /\ Deleted'
    BY <1>6, <1>7, <1>12, <2>1
  <2>3. Selected' /\ CronKnows'
    BY <1>12, <2>1 DEF Selected, CronKnows, AtNotice, AtAck
  <2> QED BY <1>3, <2>2, <2>3 DEF Alone
<1>19. ASSUME NEW k \in Key, AlertWait(k) PROVE Alone'
  BY <1>13, <1>19 DEF AlertWait, rows
<1>20. ASSUME NEW k \in Key, AlertRead(k) PROVE Alone'
  <2>1. HasRow(k) /\ k \in cron.todo /\ cron.pc = "alerts"
    BY <1>20 DEF AlertRead, IsRuleValid, RowFound
  <2>2. LastRow(k) \in LogRow /\ HasLog(k)
    BY <2>1, LogFacts, LengthFacts
  <2>3. /\ cron'.pc = "details" /\ cron'.key = k /\ cron'.id = Len(log[k])
        /\ cron'.row.state = LastRow(k).state /\ cron'.todo = cron.todo
        /\ cron'.cache = NewCache(k) /\ alerts' = alerts /\ log' = log
    BY <1>0, <1>20, <2>2 DEF AlertRead, CronType, LogRow, rows
  <2>4. TakeTurns' /\ Deleted'
    BY <1>4, <1>6, <1>7, <1>12, <2>3
  <2>5. Selected'
    BY <1>12, <2>1, <2>3 DEF Alone, Selected, AtNotice, AtAck
  <2>6. HasLog(cron.key)' /\ LastRow(cron.key)' = LastRow(k)
    BY <2>2, <2>3 DEF HasLog, LastRow
  <2>7. CronKnows'
    BY <1>1, <2>1, <2>3, <2>6 DEF CronKnows, KnowsLast, HasRow
  <2> QED BY <1>3, <2>4, <2>5, <2>7 DEF Alone
<1>21. CASE AlertDetails \/ AlertIssue \/ AlertAlerted
  <2>1. PICK k \in Key : k = cron.key
    BY <1>0
  <2>2. /\ cron'.key = k /\ cron'.row = cron.row /\ cron'.todo = cron.todo
        /\ cron'.cache = cron.cache /\ cron.pc \in AtNotice
        /\ cron'.pc \in {"issue", "alerted", "close"}
    BY <1>0, <1>21, <2>1 DEF AlertDetails, AlertIssue, AlertAlerted, CronType, AtNotice
  <2>3. Steady(k) \/ AlertDetails
    BY <1>21, SameLogSteady DEF AlertIssue, AlertAlerted, rows
  <2>4. AlertDetails => HasLog(k)' /\ LastRow(k)'.state = LastRow(k).state
    <3> SUFFICES ASSUME AlertDetails
                 PROVE  HasLog(k)' /\ LastRow(k)'.state = LastRow(k).state
      OBVIOUS
    <3>1. HasLog(k)
      BY <2>1, <2>2 DEF Alone, CronKnows, KnowsLast
    <3>2. CASE log' = log
      BY <3>1, <3>2 DEF HasLog, LastRow
    <3>3. CASE WriteDetails(k, cron.id, cron.row)
      <4>1. /\ Len(log'[k]) = Len(log[k])
            /\ log'[k][Len(log[k])].state = LastRow(k).state
        BY <1>0, <3>1, <3>3, WriteLast
      <4>2. HasLog(k)'
        <5>1. Len(log[k]) > 0
          BY <3>1, LengthFacts
        <5>2. log'[k] \in Seq(LogRow)
          BY DEF TypeOK
        <5> QED BY <4>1, <5>1, <5>2 DEF HasLog
      <4> QED BY <4>1, <4>2 DEF LastRow
    <3> QED BY <2>1, <3>2, <3>3 DEF AlertDetails
  <2>5. HasLog(k) /\ LastRow(k).state = cron.row.state
    BY <2>1, <2>2 DEF Alone, CronKnows, KnowsLast
  <2>6. HasLog(k)' /\ LastRow(k)'.state = LastRow(k).state
    BY <2>3, <2>4, <2>5, SteadyLast
  <2>7. HasLog(cron.key)' /\ LastRow(cron.key)' = LastRow(k)'
    BY <2>2, <2>6 DEF HasLog, LastRow
  <2>8. CronKnows'
    BY <2>2, <2>5, <2>6, <2>7 DEF CronKnows, KnowsLast
  <2>9. \A q \in Key : /\ alerts'[q].state = alerts[q].state
                       /\ alerts'[q].open => alerts[q].open
    BY <1>0, <1>21, StateKept DEF AlertDetails, AlertIssue, AlertAlerted, rows
  <2>10. TakeTurns' /\ Deleted'
    BY <1>5, <1>6, <1>7, <2>2, <2>9
  <2>11. Selected'
    BY <1>0, <2>1, <2>2, <2>9 DEF Alone, Selected, AtNotice, AtAck
  <2> QED BY <1>3, <2>8, <2>10, <2>11 DEF Alone
<1>22. CASE AlertClose \/ AckClose
  <2>1. \A q \in Key : /\ alerts'[q].state = alerts[q].state
                       /\ alerts'[q].open => alerts[q].open
    BY <1>0, <1>22, StateKept DEF AlertClose, AckClose
  <2>2. \/ cron' = [Loop("alerts", cron.key) EXCEPT !.cache = cron.cache]
           /\ cron.pc = "close"
        \/ cron' = [Loop("acks", cron.key) EXCEPT !.cache = cron.cache]
           /\ cron.pc = "ackclose"
    BY <1>22 DEF AlertClose, AckClose
  <2>3. /\ \A q \in Key : alerts[q].state = -1 => alerts'[q].state = -1
        /\ \A q \in Key : alerts'[q].open => alerts'[q].state # -1
    BY <2>1 DEF Alone, Selected
  <2>4. \A q \in cron.todo \ {cron.key} : alerts'[q].state = alerts[q].state
    BY <1>0, <2>1
  <2>5. "close" \in AtNotice /\ "ackclose" \in AtAck
    BY DEF AtNotice, AtAck
  <2> QED BY <1>0, <1>5, <1>9, <2>2, <2>3, <2>4, <2>5
<1>23. ASSUME NEW k \in Key, AckRead(k) PROVE Alone'
  <2>1. /\ cron'.pc = "ackissue" /\ cron'.key = k /\ cron'.todo = cron.todo
        /\ cron'.cache = NewCache(k) /\ alerts' = alerts
        /\ cron.pc = "acks" /\ k \in cron.todo
    BY <1>0, <1>23 DEF AckRead, CronType, rows
  <2>2. TakeTurns' /\ Deleted'
    BY <1>4, <1>6, <1>7, <1>12, <2>1
  <2>3. Selected' /\ CronKnows'
    BY <1>12, <2>1 DEF Alone, Selected, CronKnows, AtNotice, AtAck
  <2> QED BY <1>3, <2>2, <2>3 DEF Alone
<1>24. CASE AckIssue
  <2>1. /\ cron'.pc = "ackclose" /\ cron'.key = cron.key /\ cron'.todo = cron.todo
        /\ cron'.cache = cron.cache /\ alerts' = alerts /\ cron.pc = "ackissue"
    BY <1>0, <1>24 DEF AckIssue, CronType, rows
  <2>2. TakeTurns' /\ Deleted'
    BY <1>5, <1>6, <1>7, <1>12, <2>1
  <2>3. Selected' /\ CronKnows'
    BY <2>1 DEF Alone, Selected, CronKnows, AtNotice, AtAck
  <2> QED BY <1>3, <2>2, <2>3 DEF Alone
<1> QED BY <1>10, <1>11, <1>14, <1>15, <1>16, <1>17, <1>18, <1>19, <1>20, <1>21,
           <1>22, <1>23, <1>24 DEF Cron

LEMMA AloneInit == Init => Alone
<1> SUFFICES ASSUME Init PROVE Alone
  OBVIOUS
<1>1. cron = IdleCron /\ IdleCron.pc = "idle" /\ IdlePoller.pc = "idle"
      /\ \A d \in Device : poller[d] = IdlePoller /\ cron.cache[d] = {}
  BY DEF Init, IdleCron, IdlePoller
<1>2. TakeTurns
  BY <1>1 DEF TakeTurns
<1>3. Deleted /\ Selected /\ CronKnows
  BY <1>1, KeyFacts DEF Init, Deleted, Selected, CronKnows, NoAlert, AtNotice, AtAck
<1>4. \A d \in Device : PollerKnows(d)
  BY <1>1 DEF PollerKnows
<1> QED BY <1>2, <1>3, <1>4 DEF Alone

LEMMA AloneStep ==
    ASSUME ~Overlap, TypeOK, Alone, [Next]_vars
    PROVE  Alone'
<1>1. TypeOK'
  BY TypeStep
<1>2. CASE \E d \in Device : Poll(d)
  BY <1>1, <1>2, PollAlone
<1>3. CASE Cron
  BY <1>1, <1>3, CronAlone
<1>4. CASE Environment
  BY <1>1, <1>4, EnvironmentAlone
<1>5. CASE Time
  BY <1>1, <1>5, TimeAlone DEF Time
<1>6. CASE UNCHANGED vars
  BY <1>6 DEF vars, rows, env, hist, Alone, TakeTurns, Deleted, Selected, PollerKnows,
              CronKnows, KnowsLast, HasLog, LastRow, PollKey
<1> QED BY <1>2, <1>3, <1>4, <1>5, <1>6 DEF Next

-----------------------------------------------------------------------------
(***************************************************************************)
(* Closed rows have been notified.  A row is closed without a notice only  *)
(* because the state it is in was notified before; a new event is logged   *)
(* one statement before the row is opened again.                           *)
(***************************************************************************)
Loud(k) == ~Extra[k[2]].mute
Settling(k) ==
    \/ \E d \in Device : poller[d].pc = "set" /\ PollKey(d) = k
    \/ cron.pc = "fset" /\ cron.key = k

NotIgnored == \A d \in Device : "ignore" \notin flags[d]
ClosedKnown ==
    \A k \in Key :
        Loud(k) /\ alerts[k].state \in {0, 1, 3, 4} /\ ~alerts[k].open =>
            Settling(k) \/ KnowsLast(k, alerts[k].alerted)
ClosingKnown ==
    cron.pc \in AtNotice /\ cron.acc /\ Loud(cron.key) =>
        \/ alerts[cron.key].alerted = cron.row.state
        \/ cron.iss /\ cron.pc # "close"
ClosedInv == NotIgnored /\ ClosedKnown /\ ClosingKnown

\* A poller between its two statements goes on to the second.
LEMMA SetStays ==
    ASSUME TypeOK, [Next]_vars, "crash" \notin Ops, NEW d \in Device,
           poller[d].pc = "set", ~RuleSet(d)
    PROVE  /\ poller'[d].pc = "set" /\ PollKey(d)' = PollKey(d)
           /\ poller'[d].raise = poller[d].raise
<1>0. poller \in [Device -> PollerType] /\ poller[d] \in PollerType
  BY DEF TypeOK
<1>1. CASE poller'[d] = poller[d]
  BY <1>1 DEF PollKey
<1>2. ASSUME NEW e \in Device, Poll(e) PROVE poller'[d] = poller[d]
  <2>1. CASE e = d
    BY <1>2, <2>1 DEF Poll, RunRules, CheckRule, RefreshRead, RefreshWrite,
       RuleLog, RulesEnd
  <2>2. CASE e # d
    BY <1>0, <1>2, <2>2 DEF Poll, RunRules, CheckRule, RefreshRead, RefreshWrite,
       RuleLog, RuleSet, RulesEnd, NextRule
  <2> QED BY <2>1, <2>2
<1>3. ASSUME NEW k \in Key, NEW t, Elapse(k, t)
      PROVE  \/ poller'[d] = poller[d]
             \/ poller'[d] = [poller[d] EXCEPT !.row = Over(poller[d].row, t)]
  BY <1>0, <1>3 DEF Elapse
<1>4. ASSUME NEW row, poller'[d] = [poller[d] EXCEPT !.row = row]
      PROVE  /\ poller'[d].pc = "set" /\ PollKey(d)' = PollKey(d)
             /\ poller'[d].raise = poller[d].raise
  BY <1>0, <1>4 DEF PollKey, PollerType
<1>5. CASE Cron
  BY <1>1, <1>5 DEF Cron, CronStart, StaleRule, FollowUpRead, FollowUpLog,
     FollowUpSet, FollowUpEnd, AlertWait, AlertRead, AlertDetails, AlertIssue,
     AlertAlerted, AlertClose, AlertsEnd, AckRead, AckIssue, AckClose, AcksEnd
<1>6. CASE Environment
  BY <1>1, <1>6 DEF Environment, FaultChange, AckAlert, UnackAlert, ApiSetState,
     PurgeLog, ChangeContacts, ToggleRule, ToggleFlag, DeleteDevice,
     CrashPoller, CrashCron
<1>7. CASE UNCHANGED vars
  BY <1>1, <1>7 DEF vars
<1> QED BY <1>1, <1>2, <1>3, <1>4, <1>5, <1>6, <1>7 DEF Next, Time

\* The row alerts.php is working on stays as it is.
LEMMA RowStands ==
    ASSUME ~Overlap, TypeOK, Alone, [Next]_vars, CronStays, cron.pc \in AtNotice
    PROVE  alerts'[cron.key] = alerts[cron.key]
<1> SUFFICES ASSUME NEW k \in Key, k = cron.key, alerts'[k] # alerts[k]
             PROVE  FALSE
  BY DEF TypeOK, CronType
<1>1. ~Idle /\ cron.pc # "idle"
  BY DEF Idle, AtNotice
<1>2. ~MayStart
  BY <1>1 DEF MayStart
<1>3. \A d \in Device : ~RuleSet(d)
  BY <1>1 DEF Alone, TakeTurns, RuleSet
<1>4. ~FollowUpSet /\ ~AckClose
  BY DEF FollowUpSet, AckClose, AtNotice
<1>5. ~AlertAlerted
  BY NoticeSteps DEF CronStays
<1>6. ~AlertClose
  <2>1. ASSUME AlertClose PROVE cron'.pc = "alerts" /\ cron.pc = "close"
    BY <2>1 DEF AlertClose, Loop, IdleCron
  <2> QED BY <2>1 DEF CronStays
<1>7. \A q \in Key : ~StaleRule(q)
  BY DEF StaleRule, AtNotice
<1> QED BY <1>1, <1>2, <1>3, <1>4, <1>5, <1>6, <1>7, RowChange DEF Deletes, UserSets

Attentive == Ops \intersect {"ignore", "apiunmute", "crash"} = {}

LEMMA FlagSteps ==
    ASSUME [Next]_vars, flags' # flags
    PROVE  \E d \in Device : DeleteDevice(d) \/ \E f \in Flag : ToggleFlag(d, f)
<1>1. ASSUME NEW d \in Device, Poll(d) PROVE flags' = flags
  BY <1>1 DEF Poll, RunRules, CheckRule, RefreshRead, RefreshWrite, RuleLog,
     RuleSet, RulesEnd, env
<1>2. CASE Cron
  BY <1>2 DEF Cron, CronStart, StaleRule, FollowUpRead, FollowUpLog,
     FollowUpSet, FollowUpEnd, AlertWait, AlertRead, AlertDetails, AlertIssue,
     AlertAlerted, AlertClose, AlertsEnd, AckRead, AckIssue, AckClose, AcksEnd, env
<1>3. CASE Environment
  BY <1>3 DEF Environment, FaultChange, AckAlert, UnackAlert, ApiSetState,
     PurgeLog, ChangeContacts, ToggleRule, CrashPoller, CrashCron
<1>4. CASE Time \/ UNCHANGED vars
  BY <1>4 DEF Time, Elapse, vars, env
<1> QED BY <1>1, <1>2, <1>3, <1>4 DEF Next

LEMMA NotIgnoredStep ==
    ASSUME Attentive, TypeOK, NotIgnored, [Next]_vars
    PROVE  NotIgnored'
<1>1. CASE flags' = flags
  BY <1>1 DEF NotIgnored
<1>2. ASSUME NEW d \in Device, NEW f \in Flag, ToggleFlag(d, f) PROVE NotIgnored'
  <2>1. f # "ignore"
    BY <1>2 DEF ToggleFlag, Operation, Attentive
  <2> QED BY <1>2, <2>1 DEF ToggleFlag, NotIgnored, TypeOK
<1>3. ASSUME NEW d \in Device, DeleteDevice(d) PROVE NotIgnored'
  BY <1>3 DEF DeleteDevice, NotIgnored, TypeOK
<1> QED BY <1>1, <1>2, <1>3, FlagSteps

LEMMA ClosedKnownStep ==
    ASSUME ~Overlap, Attentive, TypeOK, TypeOK', Alone, ClosedInv, [Next]_vars
    PROVE  ClosedKnown'
<1> SUFFICES ASSUME NEW k \in Key, Loud(k), alerts'[k].state \in {0, 1, 3, 4},
                    ~alerts'[k].open
             PROVE  Settling(k)' \/ KnowsLast(k, alerts[k].alerted)'
  BY DEF ClosedKnown, Loud
<1>0. alerts[k] \in AlertRow /\ alerts'[k] \in AlertRow /\ cron.key \in Key
      /\ cron.row \in LogRow /\ "apiunmute" \notin Ops /\ "crash" \notin Ops
  BY DEF TypeOK, CronType, Attentive
<1>1. \A t : alerts'[k] # Opened(alerts[k], t)
  BY <1>0 DEF Opened, AlertRow
<1>2. CASE alerts'[k] # alerts[k]
  <2>1. ~Deletes(k)
    BY DEF Deletes, NoAlert
  <2>2. ~UserSets(k)
    BY <1>0, <1>1 DEF UserSets, AlertRow
  <2>3. alerts'[k] # [state |-> cron.row.state, open |-> TRUE, alerted |-> 1]
    OBVIOUS
  <2>4. ~(AckClose /\ cron.key = k)
    <3>1. ASSUME AckClose, cron.key = k PROVE FALSE
      <4>1. cron.pc = "ackclose" /\ alerts' = [alerts EXCEPT ![k].open = FALSE]
        BY <3>1 DEF AckClose
      <4>2. alerts'[k].state = alerts[k].state
        BY <4>1, StateKept
      <4>3. alerts[k].state = 2
        BY <3>1, <4>1 DEF Alone, Selected, AtAck
      <4> QED BY <4>2, <4>3
    <3> QED BY <3>1
  <2>5. CASE /\ AlertAlerted /\ cron.iss /\ cron.key = k
             /\ alerts'[k] = [alerts[k] EXCEPT !.alerted = cron.row.state]
    <3>1. alerts'[k].alerted = cron.row.state /\ cron.pc = "alerted" /\ log' = log
      BY <1>0, <2>5 DEF AlertAlerted, AlertRow
    <3>2. KnowsLast(k, cron.row.state)
      BY <2>5, <3>1 DEF Alone, CronKnows, AtNotice
    <3>3. KnowsLast(k, alerts[k].alerted)'
      BY <3>1, <3>2 DEF KnowsLast, HasLog, LastRow
    <3> QED BY <3>3
  <2>6. CASE /\ AlertClose /\ cron.acc /\ cron.key = k
             /\ alerts'[k] = [alerts[k] EXCEPT !.open = FALSE]
    <3>1. alerts'[k].alerted = alerts[k].alerted /\ cron.pc = "close" /\ log' = log
      BY <1>0, <2>6 DEF AlertClose, AlertRow
    <3>2. KnowsLast(k, cron.row.state)
      BY <2>6, <3>1 DEF Alone, CronKnows, AtNotice
    <3>3. alerts[k].alerted = cron.row.state
      BY <2>6, <3>1 DEF ClosedInv, ClosingKnown, AtNotice
    <3>4. KnowsLast(k, alerts[k].alerted)'
      BY <3>1, <3>2, <3>3 DEF KnowsLast, HasLog, LastRow
    <3> QED BY <3>4
  <2> QED BY <1>1, <1>2, <2>1, <2>2, <2>3, <2>4, <2>5, <2>6, RowChange
<1>3. CASE alerts'[k] = alerts[k]
  <2>1. CASE KnowsLast(k, alerts[k].alerted)
    <3>1. ASSUME NEW d \in Device, RuleLog(d), PollKey(d) = k
          PROVE  Settling(k)'
      <4>1. poller'[d].pc = "set" /\ poller'[d].rule = poller[d].rule
        BY <3>1 DEF RuleLog, TypeOK, PollerType
      <4> QED BY <3>1, <4>1 DEF Settling, PollKey
    <3>2. ASSUME FollowUpLog, cron.key = k PROVE Settling(k)'
      BY <3>2 DEF FollowUpLog, TypeOK, CronType, Settling
    <3>3. PICK s \in Int : s = alerts[k].alerted
      BY <1>0 DEF AlertRow
    <3>4. KnowsLast(k, s)' \/ Settling(k)'
      BY <2>1, <3>1, <3>2, <3>3, KnownLast
    <3> QED BY <1>3, <3>3, <3>4 DEF KnowsLast
  <2>2. ASSUME NEW d \in Device, poller[d].pc = "set", PollKey(d) = k
        PROVE  Settling(k)'
    <3>1. ~RuleSet(d)
      BY <1>0, <1>1, <2>2 DEF RuleSet, TypeOK
    <3> QED BY <1>0, <2>2, <3>1, SetStays DEF Settling
  <2>3. CASE cron.pc = "fset" /\ cron.key = k
    <3>1. ~FollowUpSet
      <4>1. ASSUME FollowUpSet
            PROVE  alerts'[k] = [state |-> cron.row.state, open |-> TRUE,
                                 alerted |-> 1]
        BY <1>0, <1>3, <2>3, <4>1, SMTT(30) DEF FollowUpSet, TypeOK
      <4> QED BY <4>1
    <3>2. ~Cron
      BY <2>3, <3>1 DEF Cron, CronStart, StaleRule, FollowUpRead, FollowUpLog,
         FollowUpEnd, AlertWait, AlertRead, AlertDetails, AlertIssue,
         AlertAlerted, AlertClose, AlertsEnd, AckRead, AckIssue, AckClose, AcksEnd
    <3>3. CronStays
      BY <1>0, <3>2, CronStill DEF CrashCron
    <3> QED BY <2>3, <3>3 DEF CronStays, Settling
  <2>4. Settling(k) \/ KnowsLast(k, alerts[k].alerted)
    BY <1>3 DEF ClosedInv, ClosedKnown
  <2> QED BY <2>1, <2>2, <2>3, <2>4 DEF Settling
<1> QED BY <1>2, <1>3

LEMMA ClosingKnownStep ==
    ASSUME ~Overlap, Attentive, TypeOK, TypeOK', Alone, ClosedInv, [Next]_vars
    PROVE  ClosingKnown'
<1> SUFFICES ASSUME cron'.pc \in AtNotice, cron'.acc, Loud(cron'.key)
             PROVE  \/ alerts'[cron'.key].alerted = cron'.row.state
                    \/ cron'.iss /\ cron'.pc # "close"
  BY DEF ClosingKnown, Loud, AtNotice
<1>0. PICK k \in Key : k = cron.key
  BY DEF TypeOK, CronType
<1>1. CASE CronStays
  <2>1. alerts'[k] = alerts[k]
    BY <1>0, <1>1, RowStands DEF CronStays
  <2> QED BY <1>0, <1>1, <2>1 DEF CronStays, ClosedInv, ClosingKnown
<1>2. ASSUME NEW q \in Key, AlertRead(q)
      PROVE  \/ alerts'[cron'.key].alerted = cron'.row.state
             \/ cron'.iss /\ cron'.pc # "close"
  <2>1. q[1] \in Device /\ Loud(q) /\ Closes(q, LastRow(q))
    BY <1>2, ReadFacts, KeyFacts
  <2>2. flags[q[1]] \intersect {"ignore", "maintenance"} = {}
    BY <2>1 DEF Closes, ClosedInv, NotIgnored
  <2>3. Issues(q, LastRow(q)) \/ Same(q, LastRow(q))
    BY <2>1, <2>2 DEF Issues, Loud
  <2> QED BY <1>2, <2>3, ReadFacts DEF Same
<1>3. CASE AlertDetails \/ AlertIssue
  <2>1. alerts' = alerts
    BY <1>3 DEF AlertDetails, AlertIssue, rows
  <2>2. /\ cron'.key = k /\ cron'.row = cron.row /\ cron'.iss = cron.iss
        /\ cron'.acc = cron.acc /\ cron.pc \in AtNotice /\ cron'.pc # "close"
    BY <1>0, <1>3, NoticeSteps DEF AlertDetails, AlertIssue, AtNotice
  <2>3. alerts[k].alerted = cron.row.state \/ cron.iss
    BY <1>0, <2>2 DEF ClosedInv, ClosingKnown
  <2> QED BY <2>1, <2>2, <2>3
<1>4. CASE AlertAlerted
  <2>1. /\ cron.pc = "alerted" /\ cron'.key = k /\ cron'.row = cron.row
        /\ cron'.acc = cron.acc
    BY <1>0, <1>4, NoticeSteps DEF AlertAlerted
  <2>2. alerts[k].state # -1
    BY <1>0, <2>1 DEF Alone, Selected, AtNotice
  <2>3. CASE cron.iss
    BY <1>0, <1>4, <2>1, <2>2, <2>3 DEF AlertAlerted, TypeOK, AlertRow
  <2>4. CASE ~cron.iss
    <3>1. alerts' = alerts
      BY <1>4, <2>4 DEF AlertAlerted
    <3> QED BY <1>0, <2>1, <2>4, <3>1 DEF ClosedInv, ClosingKnown, AtNotice
  <2> QED BY <2>3, <2>4
<1>5. \/ CronStays \/ AlertDetails \/ AlertIssue \/ AlertAlerted
      \/ \E q \in Key : AlertRead(q)
  BY NoticeMoves
<1> QED BY <1>1, <1>2, <1>3, <1>4, <1>5

\* Once both programs have finished, a row that is closed and not acknowledged
\* has had its latest event notified (alerts.php:323), where the programs take
\* turns, no device is ignored, no process dies between two statements and
\* nobody unmutes over the API, which sets the state and leaves the row closed.
THEOREM EveryClosedNotified ==
    ASSUME ~Overlap, Attentive
    PROVE  Spec => []ClosedMeansNotified
<1>1. Init => ClosedInv
  BY DEF Init, NoAlert, IdleCron, ClosedInv, NotIgnored, ClosedKnown, ClosingKnown,
         AtNotice
<1>2. TypeOK /\ TypeOK' /\ Alone /\ ClosedInv /\ [Next]_vars => ClosedInv'
  BY NotIgnoredStep, ClosedKnownStep, ClosingKnownStep DEF ClosedInv
<1>3. TypeOK /\ Alone /\ [Next]_vars => Alone'
  BY AloneStep
<1>4. ClosedInv => ClosedMeansNotified
  <2> SUFFICES ASSUME ClosedInv, Idle, NEW k \in Key,
                      alerts[k].state \in {0, 1, 3, 4}, ~alerts[k].open, Loud(k)
               PROVE  alerts[k].alerted = LastRow(k).state
    BY DEF ClosedMeansNotified, Loud
  <2>1. ~Settling(k)
    BY DEF Idle, Settling
  <2> QED BY <2>1 DEF ClosedInv, ClosedKnown, KnowsLast
<1> QED BY <1>1, <1>2, <1>3, <1>4, AloneInit, TypeCorrect, PTL DEF Spec

-----------------------------------------------------------------------------
(***************************************************************************)
(* No recovery without a fault: the notices implement AlertProtocol.  A    *)
(* recovery is decided on because `alerted` is not 0; `alerted` is not 0   *)
(* because a fault was announced, or because RunFollowUp wrote it for a    *)
(* row it found closed; and such a row was closed after its announcement.  *)
(***************************************************************************)
FollowUp == {"follow", "flog", "fset"}

Outspoken == \A d \in Device : flags[d] \intersect {"silent", "ignore"} = {}
AlertedTold ==
    \A k \in Key : Loud(k) /\ alerts[k].alerted # 0 =>
        \/ told[k] = "fault"
        \/ cron.pc = "alerted" /\ cron.key = k /\ cron.iss /\ cron.row.state = 0
ClosedTold ==
    \A k \in Key : Loud(k) /\ alerts[k].state \in {1, 3, 4} /\ ~alerts[k].open =>
        told[k] = "fault"
ActiveLogged ==
    \A k \in Key : alerts[k].state \in {1, 3, 4} =>
        \/ \E d \in Device : poller[d].pc = "set" /\ PollKey(d) = k
        \/ HasLog(k) /\ LastRow(k).state # 0
FollowedTold ==
    /\ cron.pc \in FollowUp => \A k \in cron.todo : Loud(k) => told[k] = "fault"
    /\ cron.pc \in {"flog", "fset"} => cron.key \in cron.todo
NoticeTold ==
    cron.pc \in AtNotice =>
        /\ cron.iss => Loud(cron.key)
        /\ cron.iss /\ cron.row.state = 0 /\ cron.pc \in {"details", "issue"} =>
               told[cron.key] = "fault"
        /\ cron.iss /\ cron.row.state # 0 /\ cron.pc = "alerted" =>
               told[cron.key] = "fault"
        /\ cron.acc /\ Loud(cron.key) /\ cron.row.state # 0 =>
               \/ told[cron.key] = "fault"
               \/ cron.iss /\ cron.pc \in {"details", "issue"}
SpokenInv ==
    Outspoken /\ AlertedTold /\ ClosedTold /\ ActiveLogged /\ FollowedTold /\ NoticeTold

Faithful ==
    Ops \intersect {"silent", "ignore", "unack", "apiunmute", "crash"} = {}

\* Only the statement of the notice tells the contacts anything ...
LEMMA ToldKept ==
    ASSUME [Next]_vars, ~AlertIssue
    PROVE  told' = told /\ turn' = turn
<1>1. ASSUME NEW d \in Device, Poll(d) PROVE told' = told /\ turn' = turn
  BY <1>1 DEF Poll, RunRules, CheckRule, RefreshRead, RefreshWrite, RuleLog,
     RuleSet, RulesEnd, hist
<1>2. CASE Cron
  BY <1>2 DEF Cron, CronStart, StaleRule, FollowUpRead, FollowUpLog, FollowUpSet,
     FollowUpEnd, AlertWait, AlertRead, AlertDetails, AlertAlerted, AlertClose,
     AlertsEnd, AckRead, AckIssue, AckClose, AcksEnd, hist
<1>3. CASE Environment
  BY <1>3 DEF Environment, FaultChange, AckAlert, UnackAlert, ApiSetState,
     PurgeLog, ChangeContacts, ToggleRule, ToggleFlag, DeleteDevice, CrashPoller,
     CrashCron, hist
<1>4. CASE Time \/ UNCHANGED vars
  BY <1>4 DEF Time, Elapse, vars, hist
<1> QED BY <1>1, <1>2, <1>3, <1>4 DEF Next

\* ... of one key, and of a fault whenever it is sent for one.
LEMMA IssueTells ==
    ASSUME TypeOK, Outspoken, AlertIssue, NEW k \in Key
    PROVE  /\ k # cron.key \/ ~cron.iss => told'[k] = told[k]
           /\ k = cron.key /\ cron.iss /\ cron.row.state # 0 => told'[k] = "fault"
           /\ k = cron.key /\ cron.row.state = 0 => told'[k] \in {told[k], "ok"}
<1>1. k = cron.key => "silent" \notin flags[cron.key[1]]
  BY KeyFacts DEF Outspoken
<1> QED BY <1>1 DEF AlertIssue, Described, TypeOK

LEMMA OutspokenStep ==
    ASSUME Faithful, TypeOK, Outspoken, [Next]_vars
    PROVE  Outspoken'
<1>1. CASE flags' = flags
  BY <1>1 DEF Outspoken
<1>2. ASSUME NEW d \in Device, NEW f \in Flag, ToggleFlag(d, f) PROVE Outspoken'
  <2>1. f \notin {"silent", "ignore"}
    BY <1>2 DEF ToggleFlag, Operation, Faithful
  <2> QED BY <1>2, <2>1 DEF ToggleFlag, Outspoken, TypeOK
<1>3. ASSUME NEW d \in Device, DeleteDevice(d) PROVE Outspoken'
  BY <1>3 DEF DeleteDevice, Outspoken, TypeOK
<1> QED BY <1>1, <1>2, <1>3, FlagSteps

LEMMA AlertedToldStep ==
    ASSUME ~Overlap, Faithful, TypeOK, Alone, SpokenInv, [Next]_vars
    PROVE  AlertedTold'
<1> SUFFICES ASSUME NEW k \in Key, Loud(k), alerts'[k].alerted # 0
             PROVE  \/ told'[k] = "fault"
                    \/ /\ cron'.pc = "alerted" /\ cron'.key = k
                       /\ cron'.iss /\ cron'.row.state = 0
  BY DEF AlertedTold, Loud
<1>0. alerts[k] \in AlertRow /\ cron.key \in Key
  BY DEF TypeOK, CronType
<1>1. CASE AlertIssue
  <2>1. alerts' = alerts /\ cron.pc = "issue" /\ cron'.pc = "alerted"
        /\ cron'.key = cron.key /\ cron'.iss = cron.iss /\ cron'.row = cron.row
    BY <1>1, NoticeSteps DEF AlertIssue, AlertDetails, AlertAlerted, rows
  <2>2. told[k] = "fault"
    BY <2>1 DEF SpokenInv, AlertedTold
  <2> QED BY <1>1, <2>1, <2>2, IssueTells DEF SpokenInv
<1>2. CASE ~AlertIssue /\ alerts'[k] # alerts[k]
  <2>1. told' = told /\ ~Deletes(k)
    BY <1>2, ToldKept DEF Deletes, NoAlert
  <2>2. CASE AlertAlerted /\ cron.iss /\ cron.key = k
             /\ alerts'[k] = [alerts[k] EXCEPT !.alerted = cron.row.state]
    <3>1. cron.pc = "alerted" /\ cron.row.state # 0
      BY <1>0, <2>2 DEF AlertAlerted, AlertRow
    <3> QED BY <2>1, <2>2, <3>1 DEF SpokenInv, NoticeTold, AtNotice
  <2>3. CASE FollowUpSet /\ cron.key = k
    BY <2>1, <2>3 DEF FollowUpSet, SpokenInv, FollowedTold, FollowUp
  <2>4. CASE alerts'[k].alerted = alerts[k].alerted /\ cron.pc # "alerted"
    BY <2>1, <2>4 DEF SpokenInv, AlertedTold
  <2>5. ASSUME NEW d \in Device, RuleSet(d),
               alerts'[k] = Opened(alerts[k], IF poller[d].raise THEN 1 ELSE 0)
        PROVE  alerts'[k].alerted = alerts[k].alerted /\ cron.pc # "alerted"
    BY <1>0, <2>5 DEF RuleSet, Opened, AlertRow, Alone, TakeTurns
  <2>6. ASSUME AckClose \/ AlertClose, alerts'[k] = [alerts[k] EXCEPT !.open = FALSE]
        PROVE  alerts'[k].alerted = alerts[k].alerted /\ cron.pc # "alerted"
    BY <1>0, <2>6 DEF AckClose, AlertClose, AlertRow
  <2>7. ASSUME UserSets(k)
        PROVE  alerts'[k].alerted = alerts[k].alerted /\ cron.pc # "alerted"
    BY <1>0, <2>7 DEF UserSets, Opened, AlertRow, MayStart, Idle
  <2> QED BY <1>2, <2>1, <2>2, <2>3, <2>4, <2>5, <2>6, <2>7, RowChange
<1>3. CASE ~AlertIssue /\ alerts'[k] = alerts[k]
  <2>1. told' = told
    BY <1>3, ToldKept
  <2>2. CASE cron.pc = "alerted" /\ cron.key = k /\ cron.iss /\ cron.row.state = 0
    <3>1. ~AlertAlerted
      <4>1. alerts[k].state # -1
        BY <2>2 DEF Alone, Selected, AtNotice
      <4>2. [alerts[k] EXCEPT !.alerted = cron.row.state].alerted = 0
        BY <1>0, <2>2 DEF AlertRow
      <4> QED BY <1>3, <2>2, <4>1, <4>2 DEF AlertAlerted, TypeOK
    <3>2. ~Cron
      BY <2>2, <3>1 DEF Cron, CronStart, StaleRule, FollowUpRead, FollowUpLog,
         FollowUpSet, FollowUpEnd, AlertWait, AlertRead, AlertDetails, AlertIssue,
         AlertClose, AlertsEnd, AckRead, AckIssue, AckClose, AcksEnd
    <3>3. CronStays
      BY <3>2, CronStill DEF CrashCron, Faithful
    <3> QED BY <2>2, <3>3 DEF CronStays
  <2>3. CASE told[k] = "fault"
    BY <2>1, <2>3
  <2> QED BY <1>3, <2>2, <2>3 DEF SpokenInv, AlertedTold
<1> QED BY <1>1, <1>2, <1>3

\* The row alerts.php works on is active only if its latest event is a fault.
LEMMA NoticeOfActive ==
    ASSUME TypeOK, Alone, SpokenInv, cron.pc \in AtNotice,
           alerts[cron.key].state \in {1, 3, 4}
    PROVE  cron.row.state # 0
<1>1. PICK k \in Key : k = cron.key
  BY DEF TypeOK, CronType
<1>2. \A d \in Device : poller[d].pc # "set"
  BY DEF Alone, TakeTurns, AtNotice
<1>3. LastRow(k).state # 0
  BY <1>1, <1>2 DEF SpokenInv, ActiveLogged
<1> QED BY <1>1, <1>3 DEF Alone, CronKnows, KnowsLast

LEMMA ClosedToldStep ==
    ASSUME ~Overlap, Faithful, TypeOK, Alone, SpokenInv, [Next]_vars
    PROVE  ClosedTold'
<1> SUFFICES ASSUME NEW k \in Key, Loud(k), alerts'[k].state \in {1, 3, 4},
                    ~alerts'[k].open
             PROVE  told'[k] = "fault"
  BY DEF ClosedTold, Loud
<1>0. alerts[k] \in AlertRow /\ cron.key \in Key /\ Ops \intersect {"unack", "apiunmute"} = {}
  BY DEF TypeOK, CronType, Faithful
<1>1. CASE AlertIssue
  <2>1. alerts' = alerts /\ cron.pc = "issue"
    BY <1>1 DEF AlertIssue, rows
  <2>2. told[k] = "fault"
    BY <2>1 DEF SpokenInv, ClosedTold
  <2>3. k = cron.key => cron.row.state # 0
    BY <2>1, NoticeOfActive DEF AtNotice
  <2> QED BY <1>1, <2>2, <2>3, IssueTells DEF SpokenInv
<1>2. CASE ~AlertIssue /\ alerts'[k].state = alerts[k].state
             /\ alerts'[k].open = alerts[k].open
  BY <1>2, ToldKept DEF SpokenInv, ClosedTold
<1>3. CASE AlertClose /\ cron.acc /\ cron.key = k
  <2>1. cron.pc = "close" /\ alerts' = [alerts EXCEPT ![k].open = FALSE]
    BY <1>3 DEF AlertClose
  <2>2. alerts'[k].state = alerts[k].state
    BY <2>1, StateKept
  <2>3. cron.row.state # 0
    BY <1>3, <2>1, <2>2, NoticeOfActive DEF AtNotice
  <2>4. told' = told
    BY <2>1, ToldKept DEF AlertIssue
  <2> QED BY <1>3, <2>1, <2>3, <2>4 DEF SpokenInv, NoticeTold, AtNotice
<1>4. CASE AckClose /\ cron.key = k
  <2>1. cron.pc = "ackclose" /\ alerts' = [alerts EXCEPT ![k].open = FALSE]
    BY <1>4 DEF AckClose
  <2>2. alerts'[k].state = alerts[k].state
    BY <2>1, StateKept
  <2> QED BY <1>4, <2>1, <2>2 DEF Alone, Selected, AtAck
<1>5. ~Deletes(k)
  BY DEF Deletes, NoAlert
<1>6. \A t : alerts'[k] # Opened(alerts[k], t)
  BY <1>0 DEF Opened, AlertRow
<1>7. ~UserSets(k)
  BY <1>0, <1>6 DEF UserSets, AlertRow
<1>8. alerts'[k] # [state |-> cron.row.state, open |-> TRUE, alerted |-> 1]
  OBVIOUS
<1>9. ASSUME alerts'[k] = [alerts[k] EXCEPT !.alerted = cron.row.state]
      PROVE  alerts'[k].state = alerts[k].state /\ alerts'[k].open = alerts[k].open
  BY <1>0, <1>9 DEF AlertRow
<1>10. AlertAlerted => ~AlertIssue
  BY DEF AlertAlerted, AlertIssue
<1> QED BY <1>1, <1>2, <1>3, <1>4, <1>5, <1>6, <1>7, <1>8, <1>9, <1>10, RowChange

LEMMA ActiveLoggedStep ==
    ASSUME ~Overlap, Faithful, TypeOK, TypeOK', Alone, SpokenInv, [Next]_vars
    PROVE  ActiveLogged'
<1> SUFFICES ASSUME NEW k \in Key, alerts'[k].state \in {1, 3, 4}
             PROVE  \/ (\E d \in Device : poller[d].pc = "set" /\ PollKey(d) = k)'
                    \/ (HasLog(k) /\ LastRow(k).state # 0)'
  BY DEF ActiveLogged
<1>0. /\ alerts[k] \in AlertRow /\ cron \in CronType /\ cron.key \in Key
      /\ cron.row \in LogRow
      /\ "unack" \notin Ops /\ "apiunmute" \notin Ops /\ "crash" \notin Ops
  BY DEF TypeOK, CronType, Faithful
<1>1. ASSUME NEW s \in {1, 3, 4}, KnowsLast(k, s)
      PROVE  \/ (\E d \in Device : poller[d].pc = "set" /\ PollKey(d) = k)'
             \/ (HasLog(k) /\ LastRow(k).state # 0)'
  <2>1. ASSUME NEW d \in Device, RuleLog(d), PollKey(d) = k
        PROVE  poller'[d].pc = "set" /\ PollKey(d)' = k
    BY <2>1 DEF RuleLog, TypeOK, PollerType, PollKey
  <2>2. ASSUME FollowUpLog, cron.key = k
        PROVE  (HasLog(k) /\ LastRow(k).state # 0)'
    <3>1. cron.row.state # 0
      BY <2>2 DEF FollowUpLog, Alone, CronKnows
    <3>2. PICK row \in LogRow : row = [cron.row EXCEPT !.early = Extra[k[2]].delay]
      BY <1>0, RuleFacts, KeyFacts DEF LogRow
    <3>3. row.state = cron.row.state
      BY <1>0, <3>2 DEF LogRow
    <3>4. log' = [log EXCEPT ![k] = Append(@, row)]
      BY <2>2, <3>2 DEF FollowUpLog
    <3> QED BY <3>1, <3>3, <3>4, AppendLast
  <2>3. KnowsLast(k, s)' => (HasLog(k) /\ LastRow(k).state # 0)'
    BY DEF KnowsLast
  <2> QED BY <1>1, <2>1, <2>2, <2>3, KnownLast
<1>2. ASSUME alerts'[k].state = alerts[k].state,
             ~(\E d \in Device : poller[d].pc = "set" /\ PollKey(d) = k)
      PROVE  \/ (\E d \in Device : poller[d].pc = "set" /\ PollKey(d) = k)'
             \/ (HasLog(k) /\ LastRow(k).state # 0)'
  <2>1. HasLog(k) /\ LastRow(k).state # 0
    BY <1>2 DEF SpokenInv, ActiveLogged
  <2>2. PICK s \in {1, 3, 4} : s = LastRow(k).state
    BY <2>1, LengthFacts DEF LogRow
  <2> QED BY <1>1, <2>1, <2>2 DEF KnowsLast
<1>3. ASSUME NEW d \in Device, poller[d].pc = "set", PollKey(d) = k
      PROVE  \/ (\E e \in Device : poller[e].pc = "set" /\ PollKey(e) = k)'
             \/ (HasLog(k) /\ LastRow(k).state # 0)'
  <2>1. CASE RuleSet(d)
    <3>1. alerts'[k] = Opened(alerts[k], IF poller[d].raise THEN 1 ELSE 0)
      BY <1>3, <2>1 DEF RuleSet, TypeOK
    <3>2. poller[d].raise
      BY <1>0, <3>1 DEF Opened, AlertRow
    <3>3. KnowsLast(k, 1)
      BY <1>3, <3>2 DEF Alone, PollerKnows
    <3> QED BY <1>1, <3>3
  <2>2. CASE ~RuleSet(d)
    BY <1>0, <1>3, <2>2, SetStays
  <2> QED BY <2>1, <2>2
<1>4. CASE FollowUpSet /\ cron.key = k
  <2>1. cron.row.state \in {3, 4} /\ KnowsLast(k, cron.row.state)
    BY <1>4 DEF FollowUpSet, Alone, CronKnows
  <2>2. PICK s \in {3, 4} : s = cron.row.state
    BY <2>1
  <2> QED BY <1>1, <2>1, <2>2
<1>5. alerts'[k].state = alerts[k].state \/ (FollowUpSet /\ cron.key = k)
      \/ \E d \in Device : RuleSet(d) /\ PollKey(d) = k
  <2>1. ~Deletes(k)
    BY DEF Deletes, NoAlert
  <2>2. ~UserSets(k)
    <3>1. alerts'[k] # Opened(alerts[k], 2)
      <4>1. Opened(alerts[k], 2).state = 2
        BY <1>0 DEF Opened, AlertRow
      <4> QED BY <4>1
    <3>2. alerts'[k] # [alerts[k] EXCEPT !.state = 2]
      BY <1>0 DEF AlertRow
    <3> QED BY <1>0, <3>1, <3>2 DEF UserSets
  <2>3. ASSUME \/ alerts'[k] = [alerts[k] EXCEPT !.open = FALSE]
               \/ alerts'[k] = [alerts[k] EXCEPT !.alerted = cron.row.state]
        PROVE  alerts'[k].state = alerts[k].state
    BY <1>0, <2>3 DEF AlertRow
  <2> QED BY <2>1, <2>2, <2>3, RowChange
<1>6. \A d \in Device : RuleSet(d) => poller[d].pc = "set"
  BY DEF RuleSet
<1> QED BY <1>2, <1>3, <1>4, <1>5, <1>6

\* How alerts.php gets to the steps of RunFollowUp.
LEMMA FollowMoves ==
    ASSUME TypeOK, [Next]_vars, cron'.pc \in FollowUp, ~CronStays
    PROVE  \/ CronStart /\ cron'.todo = ToFollowUp([k \in Key |-> ClearStale(k)])
                        /\ cron'.pc = "follow"
           \/ /\ cron.pc \in FollowUp /\ cron'.todo \subseteq cron.todo /\ ~AlertIssue
              /\ \/ cron'.pc = "follow"
                 \/ \E k \in Key : FollowUpRead(k) /\ cron'.key = k
                                   /\ cron'.todo = cron.todo
                 \/ FollowUpLog /\ cron'.key = cron.key /\ cron'.todo = cron.todo
<1>1. cron \in CronType
  BY DEF TypeOK
<1>2. ~CrashCron
  BY DEF CrashCron, IdleCron, FollowUp
<1>3. Cron
  BY <1>2, CronStill
<1>4. ASSUME NEW pc, NEW k \in Key, NEW c
      PROVE  /\ [Loop(pc, k) EXCEPT !.cache = c].pc = pc
             /\ [Loop(pc, k) EXCEPT !.cache = c].todo \subseteq cron.todo
  BY DEF Loop, IdleCron
<1>5. CASE CronStart
  BY <1>1, <1>5 DEF CronStart, CronType
<1>6. ASSUME NEW k \in Key, StaleRule(k)
      PROVE  /\ cron.pc \in FollowUp /\ cron'.todo \subseteq cron.todo /\ ~AlertIssue
             /\ cron'.pc = "follow"
  BY <1>4, <1>6 DEF StaleRule, FollowUp, AlertIssue
<1>7. ASSUME NEW k \in Key, FollowUpRead(k)
      PROVE  /\ cron.pc \in FollowUp /\ cron'.todo \subseteq cron.todo /\ ~AlertIssue
             /\ \/ cron'.pc = "follow"
                \/ cron'.key = k /\ cron'.todo = cron.todo
  <2>1. cron.pc = "follow"
    BY <1>7 DEF FollowUpRead
  <2>2. CASE cron' = [Loop("follow", k) EXCEPT !.cache = NewCache(k)]
    BY <1>4, <2>1, <2>2 DEF FollowUp, AlertIssue
  <2>3. CASE cron' # [Loop("follow", k) EXCEPT !.cache = NewCache(k)]
    BY <1>1, <1>7, <2>1, <2>3 DEF FollowUpRead, CronType, FollowUp, AlertIssue
  <2> QED BY <2>2, <2>3
<1>8. ASSUME FollowUpLog
      PROVE  /\ cron.pc \in FollowUp /\ cron'.todo = cron.todo /\ ~AlertIssue
             /\ cron'.key = cron.key
  BY <1>1, <1>8 DEF FollowUpLog, CronType, FollowUp, AlertIssue
<1>9. CASE FollowUpSet
  <2>1. cron.pc = "fset" /\ cron.key \in Key
        /\ cron' = [Loop("follow", cron.key) EXCEPT !.cache = cron.cache]
    BY <1>1, <1>9 DEF FollowUpSet, CronType
  <2> QED BY <1>4, <2>1 DEF FollowUp, AlertIssue
<1>10. ASSUME NEW k \in Key, AlertWait(k) \/ AlertRead(k) \/ AckRead(k) PROVE FALSE
  <2>1. ASSUME AlertWait(k) PROVE FALSE
    BY <1>4, <2>1 DEF AlertWait, FollowUp
  <2>2. ASSUME AlertRead(k) PROVE FALSE
    BY <2>2, ReadFacts DEF FollowUp
  <2>3. ASSUME AckRead(k) PROVE FALSE
    BY <1>1, <2>3 DEF AckRead, CronType, FollowUp
  <2> QED BY <1>10, <2>1, <2>2, <2>3
<1>11. ~AlertDetails /\ ~AlertIssue /\ ~AlertAlerted
  BY NoticeSteps DEF FollowUp
<1>12. ~AlertClose /\ ~AckClose
  <2>1. cron.key \in Key
    BY <1>1 DEF CronType
  <2>2. ASSUME AlertClose PROVE FALSE
    BY <1>4, <2>1, <2>2 DEF AlertClose, FollowUp
  <2>3. ASSUME AckClose PROVE FALSE
    BY <1>4, <2>1, <2>3 DEF AckClose, FollowUp
  <2> QED BY <2>2, <2>3
<1>13. ~AckIssue
  BY <1>1 DEF AckIssue, CronType, FollowUp
<1>14. ASSUME NEW pc \in {"alerts", "acks"}, NEW c, NEW todo
       PROVE  [IdleCron EXCEPT !.pc = pc, !.cache = c, !.todo = todo].pc \notin FollowUp
  BY <1>14 DEF IdleCron, FollowUp
<1>15. ~FollowUpEnd /\ ~AlertsEnd
  BY <1>14 DEF FollowUpEnd, AlertsEnd
<1>16. ~AcksEnd
  BY DEF AcksEnd, IdleCron, FollowUp
<1>17. \/ CronStart \/ FollowUpLog \/ FollowUpSet
       \/ \E k \in Key : StaleRule(k) \/ FollowUpRead(k)
  BY <1>3, <1>10, <1>11, <1>12, <1>13, <1>15, <1>16 DEF Cron
<1>18. CASE FollowUpLog
  BY <1>8, <1>18
<1>19. CASE \E k \in Key : StaleRule(k) \/ FollowUpRead(k)
  BY <1>6, <1>7, <1>19
<1> QED BY <1>5, <1>9, <1>17, <1>18, <1>19

LEMMA FollowedToldStep ==
    ASSUME Faithful, TypeOK, SpokenInv, [Next]_vars
    PROVE  FollowedTold'
<1> SUFFICES ASSUME cron'.pc \in FollowUp
             PROVE  /\ \A k \in cron'.todo : Loud(k) => told'[k] = "fault"
                    /\ cron'.pc \in {"flog", "fset"} => cron'.key \in cron'.todo
  BY DEF FollowedTold, Loud, FollowUp
<1>1. CASE CronStays
  <2>1. told' = told
    BY <1>1 DEF CronStays
  <2> QED BY <1>1, <2>1 DEF CronStays, SpokenInv, FollowedTold
<1>2. CASE CronStart /\ cron'.pc = "follow"
           /\ cron'.todo = ToFollowUp([k \in Key |-> ClearStale(k)])
  <2>1. ASSUME NEW k \in cron'.todo, Loud(k) PROVE told'[k] = "fault"
    <3>1. k \in Key /\ ClearStale(k).state \in {1, 3, 4} /\ ~ClearStale(k).open
      BY <1>2, <2>1 DEF ToFollowUp
    <3>2. ClearStale(k) = alerts[k]
      BY <3>1 DEF ClearStale, NoAlert
    <3>3. told' = told
      BY <1>2 DEF CronStart, hist
    <3> QED BY <2>1, <3>1, <3>2, <3>3 DEF SpokenInv, ClosedTold
  <2> QED BY <1>2, <2>1
<1>3. CASE /\ cron.pc \in FollowUp /\ cron'.todo \subseteq cron.todo /\ ~AlertIssue
           /\ \/ cron'.pc = "follow"
              \/ \E k \in Key : FollowUpRead(k) /\ cron'.key = k
                                /\ cron'.todo = cron.todo
              \/ FollowUpLog /\ cron'.key = cron.key /\ cron'.todo = cron.todo
  <2>1. told' = told
    BY <1>3, ToldKept
  <2>2. \A k \in cron'.todo : Loud(k) => told'[k] = "fault"
    BY <1>3, <2>1 DEF SpokenInv, FollowedTold
  <2>3. cron'.pc \in {"flog", "fset"} => cron'.key \in cron'.todo
    BY <1>3 DEF FollowUpRead, FollowUpLog, SpokenInv, FollowedTold
  <2> QED BY <2>2, <2>3
<1> QED BY <1>1, <1>2, <1>3, FollowMoves

LEMMA NoticeToldStep ==
    ASSUME Faithful, TypeOK, Alone, SpokenInv, [Next]_vars
    PROVE  NoticeTold'
<1> SUFFICES ASSUME cron'.pc \in AtNotice, NEW k \in Key, k = cron'.key
             PROVE  /\ cron'.iss => Loud(k)
                    /\ cron'.iss /\ cron'.row.state = 0
                       /\ cron'.pc \in {"details", "issue"} => told'[k] = "fault"
                    /\ cron'.iss /\ cron'.row.state # 0 /\ cron'.pc = "alerted" =>
                           told'[k] = "fault"
                    /\ cron'.acc /\ Loud(k) /\ cron'.row.state # 0 =>
                           \/ told'[k] = "fault"
                           \/ cron'.iss /\ cron'.pc \in {"details", "issue"}
  <2>1. cron'.key \in Key
    <3>1. TypeOK'
      BY TypeStep
    <3> QED BY <3>1 DEF TypeOK, CronType
  <2> QED BY <2>1 DEF NoticeTold, Loud, AtNotice
<1>1. CASE CronStays
  <2>1. told' = told /\ k = cron.key /\ cron.pc \in AtNotice
    BY <1>1 DEF CronStays
  <2> QED BY <1>1, <2>1 DEF CronStays, SpokenInv, NoticeTold
<1>2. CASE \E q \in Key : AlertRead(q)
  <2> DEFINE row == LastRow(k)
  <2>1. AlertRead(k)
    BY <1>2, ReadFacts
  <2>2. /\ told' = told /\ cron'.row.state = row.state /\ cron'.pc = "details"
        /\ cron'.iss <=> Issues(k, row)
        /\ cron'.acc <=> Closes(k, row)
        /\ cron.pc = "alerts" /\ k \in cron.todo /\ k[1] \in Device
    BY <2>1, ReadFacts, KeyFacts
  <2>3. "gone" \notin flags[k[1]]
    BY <2>2 DEF Alone, Selected, Deleted
  <2>4. Loud(k) /\ alerts[k].alerted # 0 => told[k] = "fault"
    BY <2>2 DEF SpokenInv, AlertedTold
  <2>5. Issues(k, row) => Loud(k)
    BY DEF Issues, Loud
  <2>6. Issues(k, row) /\ row.state = 0 => alerts[k].alerted # 0
    BY <2>3 DEF Issues, Again, Same
  <2>7. Closes(k, row) /\ Loud(k) /\ ~Issues(k, row) => alerts[k].alerted = row.state
    BY <2>2 DEF Closes, Issues, Loud, Same, SpokenInv, Outspoken
  <2> HIDE DEF row
  <2> QED BY <2>2, <2>4, <2>5, <2>6, <2>7
<1>3. CASE AlertDetails \/ AlertIssue \/ AlertAlerted
  <2>1. /\ k = cron.key /\ cron'.row = cron.row /\ cron'.iss = cron.iss
        /\ cron'.acc = cron.acc /\ cron.pc \in AtNotice
        /\ \/ cron.pc = "details" /\ cron'.pc = "issue" /\ ~AlertIssue
           \/ AlertIssue /\ cron.pc = "issue" /\ cron'.pc = "alerted"
           \/ cron.pc = "alerted" /\ cron'.pc = "close" /\ ~AlertIssue
    BY <1>3, NoticeSteps DEF AtNotice, AlertIssue
  <2>2. CASE ~AlertIssue
    <3>1. told' = told
      BY <2>2, ToldKept
    <3> QED BY <2>1, <2>2, <3>1 DEF SpokenInv, NoticeTold
  <2>3. CASE AlertIssue
    <3>1. cron.iss => Loud(k)
      BY <2>1 DEF SpokenInv, NoticeTold
    <3>2. cron.iss /\ cron.row.state # 0 => told'[k] = "fault"
      BY <2>1, <2>3, IssueTells DEF SpokenInv
    <3>3. ~cron.iss => told'[k] = told[k]
      BY <2>1, <2>3, IssueTells DEF SpokenInv
    <3>4. ~cron.iss /\ cron.acc /\ Loud(k) /\ cron.row.state # 0 => told[k] = "fault"
      BY <2>1 DEF SpokenInv, NoticeTold
    <3>5. cron'.pc = "alerted"
      BY <2>1, <2>3
    <3> QED BY <2>1, <3>1, <3>2, <3>3, <3>4, <3>5
  <2> QED BY <2>2, <2>3
<1> QED BY <1>1, <1>2, <1>3, NoticeMoves

\* The notices implement AlertProtocol: the contacts hear of a recovery only if
\* the last thing they heard of the key was a fault (alerts.php:251), where the
\* programs take turns.  Assumed away: notices that are dropped although
\* `alerted` records them (a silent or ignored device), a death between the
\* notice and that record, and the two operations that reopen an acknowledged
\* event as a fault of which the contacts may have heard the recovery.
THEOREM NoticesFollowProtocol ==
    ASSUME ~Overlap, Faithful
    PROVE  Spec => NoSpuriousRecovery
<1>1. Init => Protocol!Init /\ SpokenInv
  <2>1. Init => Protocol!Init
    BY DEF Init, Protocol!Init
  <2>2. Init => SpokenInv
    BY DEF Init, NoAlert, IdleCron, SpokenInv, Outspoken, AlertedTold, ClosedTold,
           ActiveLogged, FollowedTold, NoticeTold, AtNotice, FollowUp
  <2> QED BY <2>1, <2>2
<1>2. TypeOK /\ TypeOK' /\ Alone /\ SpokenInv /\ [Next]_vars => SpokenInv'
  BY OutspokenStep, AlertedToldStep, ClosedToldStep, ActiveLoggedStep,
     FollowedToldStep, NoticeToldStep DEF SpokenInv
<1>3. TypeOK /\ Alone /\ SpokenInv /\ [Next]_vars => [Protocol!Next]_<<told, turn>>
  <2> SUFFICES ASSUME TypeOK, Alone, SpokenInv, [Next]_vars,
                      ~(told' = told /\ turn' = turn)
               PROVE  \E k \in Key : Protocol!Fault(k) \/ Protocol!Recovery(k)
    BY DEF Protocol!Next
  <2>1. AlertIssue
    BY ToldKept
  <2>2. PICK k \in Key : k = cron.key
    BY DEF TypeOK, CronType
  <2>3. /\ cron.pc = "issue" /\ cron.iss
        /\ told' = [told EXCEPT ![k] = IF cron.row.state = 0 THEN "ok" ELSE "fault"]
        /\ turn' = [turn EXCEPT ![k] = ~@]
    BY <2>1, <2>2 DEF AlertIssue
  <2>4. CASE cron.row.state = 0
    <3>1. told[k] = "fault"
      BY <2>2, <2>3, <2>4 DEF SpokenInv, NoticeTold, AtNotice
    <3> QED BY <2>3, <2>4, <3>1 DEF Protocol!Recovery, Protocol!Notice
  <2>5. CASE cron.row.state # 0
    BY <2>3, <2>5 DEF Protocol!Fault, Protocol!Notice
  <2> QED BY <2>4, <2>5
<1>4. TypeOK /\ Alone /\ [Next]_vars => Alone'
  BY AloneStep
<1>5. Spec => Protocol!Spec
  BY <1>1, <1>2, <1>3, <1>4, AloneInit, TypeCorrect, PTL DEF Spec, Protocol!Spec
<1> QED BY <1>5 DEF NoSpuriousRecovery

-----------------------------------------------------------------------------
(***************************************************************************)
(* The limit on notices.  The count in the details of the latest row is at *)
(* least the number of notices sent for it, because it is written before   *)
(* the notice; and a first notice is only sent while `alerted` is not 1.   *)
(***************************************************************************)
Limited(k) == Extra[k[2]].count # -1
Limit(k) == IF Extra[k[2]].count > 0 THEN Extra[k[2]].count ELSE 1

Counted == \A k \in Key : Limited(k) => issues[k] <= Limit(k)
Tallied ==
    \A k \in Key : Limited(k) /\ KnowsLast(k, 1) =>
        /\ Extra[k[2]].count > 0 => issues[k] <= LastRow(k).count
        /\ issues[k] > 0 =>
              \/ alerts[k].alerted = 1
              \/ alerts[k].state = -1
              \/ cron.pc = "alerted" /\ cron.key = k /\ cron.iss
FreshlyLogged ==
    \A d \in Device :
        poller[d].pc = "set" /\ poller[d].raise => issues[PollKey(d)] = 0
\* Of the notice under way: what will be written, what has been.
ToWrite ==
    cron.pc = "details" =>
        /\ cron.row.count >= LastRow(cron.key).count
        /\ cron.iss /\ cron.row.state = 1 =>
              cron.upd \/ cron.row.count = LastRow(cron.key).count
Written ==
    cron.pc = "issue" /\ cron.iss /\ cron.row.state = 1 =>
        cron.row.count = LastRow(cron.key).count
OneMoreFits ==
    /\ cron.pc \in {"details", "issue"} /\ cron.iss /\ cron.row.state = 1
    /\ Limited(cron.key)
    => /\ issues[cron.key] + 1 <= Limit(cron.key)
       /\ Extra[cron.key[2]].count > 0 => issues[cron.key] + 1 <= cron.row.count
CountedInv ==
    Counted /\ Tallied /\ FreshlyLogged /\ ToWrite /\ Written /\ OneMoreFits

LEMMA CountFacts ==
    ASSUME TypeOK, NEW k \in Key
    PROVE  /\ Extra[k[2]].count \in Int /\ issues[k] \in Nat
           /\ Limit(k) \in Int /\ Limit(k) >= 1
BY KeyFacts, RuleFacts, ConfigAssumption, SMTT(30) DEF TypeOK, Limit, ExtraType

\* What one step does to the number of notices of a key.
LEMMA IssuesStep ==
    ASSUME TypeOK, [Next]_vars, NEW k \in Key, issues'[k] # issues[k]
    PROVE  \/ \E d \in Device : /\ RuleLog(d) /\ PollKey(d) = k
                                /\ poller[d].raise /\ issues'[k] = 0
           \/ /\ AlertIssue /\ cron.key = k /\ cron.iss /\ cron.row.state = 1
              /\ issues'[k] = issues[k] + 1
<1>1. ASSUME NEW d \in Device, Poll(d)
      PROVE  /\ RuleLog(d) /\ PollKey(d) = k
             /\ poller[d].raise /\ issues'[k] = 0
  <2>1. RuleLog(d)
    BY <1>1 DEF Poll, RunRules, CheckRule, RefreshRead, RefreshWrite, RuleSet,
       RulesEnd, hist
  <2> QED BY <2>1 DEF RuleLog, TypeOK
<1>2. ASSUME Cron
      PROVE  /\ AlertIssue /\ cron.key = k /\ cron.iss /\ cron.row.state = 1
             /\ issues'[k] = issues[k] + 1
  <2>1. AlertIssue
    BY <1>2 DEF Cron, CronStart, StaleRule, FollowUpRead, FollowUpLog, FollowUpSet,
       FollowUpEnd, AlertWait, AlertRead, AlertDetails, AlertAlerted, AlertClose,
       AlertsEnd, AckRead, AckIssue, AckClose, AcksEnd, hist
  <2> QED BY <2>1 DEF AlertIssue, TypeOK
<1>3. ~Environment
  BY DEF Environment, FaultChange, AckAlert, UnackAlert, ApiSetState,
     PurgeLog, ChangeContacts, ToggleRule, ToggleFlag, DeleteDevice, CrashPoller,
     CrashCron, hist
<1>4. ~Time /\ ~(UNCHANGED vars)
  BY DEF Time, Elapse, vars, hist
<1> QED BY <1>1, <1>2, <1>3, <1>4 DEF Next

\* What one step does to the latest row of a key.
NewEvent(k) ==
    \/ \E d \in Device : RuleLog(d) /\ PollKey(d) = k /\ LastRow(k)'.count = 0
                         /\ LastRow(k)'.state = IF poller[d].raise THEN 1 ELSE 0
    \/ FollowUpLog /\ cron.key = k /\ LastRow(k)'.state # 1

LEMMA LastStep ==
    ASSUME TypeOK, Alone, [Next]_vars, NEW k \in Key
    PROVE  \/ Steady(k)
           \/ NewEvent(k)
           \/ /\ AlertDetails /\ cron.key = k /\ cron.upd
              /\ LastRow(k)'.state = LastRow(k).state
              /\ LastRow(k)'.count = cron.row.count
<1>1. /\ cron \in CronType /\ cron.row \in LogRow /\ cron.key \in Key
      /\ cron.id \in Nat
  BY DEF TypeOK, CronType
<1>2. ASSUME NEW d \in Device, Poll(d) PROVE Steady(k) \/ NewEvent(k)
  <2>1. PICK q \in Key : q = PollKey(d)
    BY DEF TypeOK, PollKey, PollerType, Key
  <2>2. poller[d] \in PollerType
    BY DEF TypeOK
  <2>3. CASE RuleLog(d)
    <3>1. PICK row \in LogRow :
              /\ log' = [log EXCEPT ![q] = Append(@, row)] /\ row.count = 0
              /\ row.state = IF poller[d].raise THEN 1 ELSE 0
      <4> DEFINE new == IF poller[d].raise THEN NewRow(1, poller[d].n, people[q], q[2])
                                           ELSE NewRow(0, 0, 0, q[2])
      <4>1. new \in LogRow
        BY <2>1, <2>2, NewRowType, KeyFacts DEF PollerType, TypeOK
      <4>2. log' = [log EXCEPT ![q] = Append(@, new)]
        BY <2>1, <2>3 DEF RuleLog
      <4>3. new.count = 0 /\ new.state = IF poller[d].raise THEN 1 ELSE 0
        BY DEF NewRow
      <4> HIDE DEF new
      <4> QED BY <4>1, <4>2, <4>3
    <3>2. k # q => Steady(k)
      BY <3>1, AppendLast
    <3>3. k = q => LastRow(k)' = row
      BY <3>1, AppendLast
    <3> QED BY <2>1, <2>3, <3>1, <3>2, <3>3 DEF NewEvent
  <2>4. CASE RefreshWrite(d)
    <3>1. PICK row \in LogRow : WriteDetails(q, poller[d].id, row)
                                /\ row.count = poller[d].row.count
      <4> DEFINE new == [poller[d].row EXCEPT !.n = poller[d].n, !.to = people[q]]
      <4>1. new \in LogRow /\ new.count = poller[d].row.count
        BY <2>2 DEF LogRow, PollerType, TypeOK
      <4>2. WriteDetails(q, poller[d].id, new)
        BY <2>1, <2>4 DEF RefreshWrite
      <4> HIDE DEF new
      <4> QED BY <4>1, <4>2
    <3>2. poller[d].id \in Nat
      BY <2>2 DEF PollerType
    <3>3. k # q => Steady(k)
      BY <3>1, <3>2, WriteLast
    <3>4. HasLog(q) /\ row.count = LastRow(q).count
      BY <2>1, <2>4, <3>1 DEF RefreshWrite, Alone, PollerKnows
    <3>5. k = q => Steady(k)
      BY <3>1, <3>2, <3>4, WriteLast DEF Steady, LastRow
    <3> QED BY <3>3, <3>5
  <2>5. CASE ~RuleLog(d) /\ ~RefreshWrite(d)
    BY <1>2, <2>5, SameLogSteady DEF Poll, RunRules, CheckRule, RefreshRead,
       RuleSet, RulesEnd, rows
  <2> QED BY <2>3, <2>4, <2>5
<1>3. CASE FollowUpLog
  <2>1. cron.row.state # 1
    BY <1>3 DEF FollowUpLog, Alone, CronKnows
  <2>2. PICK q \in Key : q = cron.key
    BY <1>1
  <2>3. PICK row \in LogRow : row = [cron.row EXCEPT !.early = Extra[q[2]].delay]
    BY <1>1, RuleFacts, KeyFacts DEF LogRow
  <2>4. row.state = cron.row.state
    BY <1>1, <2>3 DEF LogRow
  <2>5. log' = [log EXCEPT ![q] = Append(@, row)]
    BY <1>3, <2>2, <2>3 DEF FollowUpLog
  <2>6. k # q => Steady(k)
    BY <2>5, AppendLast
  <2>7. k = q => LastRow(k)' = row
    BY <2>5, AppendLast
  <2> QED BY <1>3, <2>1, <2>2, <2>4, <2>6, <2>7 DEF NewEvent
<1>4. CASE AlertDetails
  <2>1. PICK q \in Key : q = cron.key
    BY <1>1
  <2>2. /\ cron.pc = "details" /\ cron.id = Len(log[q]) /\ cron.id > purged[q]
        /\ HasLog(q)
    BY <1>4, <2>1 DEF AlertDetails, Alone, CronKnows, KnowsLast, AtNotice
  <2>3. CASE ~cron.upd
    BY <1>4, <2>3, SameLogSteady DEF AlertDetails
  <2>4. CASE cron.upd
    <3>1. WriteDetails(q, cron.id, cron.row)
      BY <1>4, <2>1, <2>4 DEF AlertDetails
    <3>2. k # q => Steady(k)
      BY <1>1, <3>1, WriteLast
    <3>3. /\ LastRow(q)'.state = LastRow(q).state
          /\ LastRow(q)'.count = cron.row.count
      BY <1>1, <2>2, <3>1, WriteLast DEF LastRow
    <3> QED BY <1>4, <2>1, <2>4, <3>2, <3>3
  <2> QED BY <2>3, <2>4
<1>5. CASE Cron /\ ~FollowUpLog /\ ~AlertDetails
  BY <1>5, SameLogSteady DEF Cron, CronStart, StaleRule, FollowUpRead, FollowUpSet,
     FollowUpEnd, AlertWait, AlertRead, AlertIssue, AlertAlerted, AlertClose,
     AlertsEnd, AckRead, AckIssue, AckClose, AcksEnd, rows
<1>6. CASE Environment
  BY <1>6, SameLogSteady DEF Environment, FaultChange, AckAlert, UnackAlert,
     ApiSetState, PurgeLog, ChangeContacts, ToggleRule, ToggleFlag, DeleteDevice,
     CrashPoller, CrashCron, rows
<1>7. CASE Time
  BY <1>7, ElapseSteady DEF Time
<1>8. CASE UNCHANGED vars
  BY <1>8, SameLogSteady DEF vars, rows
<1> QED BY <1>2, <1>3, <1>4, <1>5, <1>6, <1>7, <1>8 DEF Next

\* While alerts.php is between two steps of its own, nobody logs or notifies.
LEMMA NoticeUndisturbed ==
    ASSUME TypeOK, TypeOK', Alone, [Next]_vars, CronStays,
           cron.pc \in {"details", "issue"}, NEW k \in Key, k = cron.key
    PROVE  /\ issues'[k] = issues[k]
           /\ LastRow(k)'.count = LastRow(k).count
<1>1. \A d \in Device : poller[d].pc = "idle"
  BY DEF Alone, TakeTurns
<1>2. ~AlertDetails /\ ~AlertIssue /\ ~FollowUpLog
  BY NoticeSteps DEF CronStays, FollowUpLog
<1>3. \A d \in Device : ~RuleLog(d)
  BY <1>1 DEF RuleLog
<1>4. issues'[k] = issues[k]
  BY <1>2, <1>3, IssuesStep
<1>5. Steady(k)
  BY <1>2, <1>3, LastStep DEF NewEvent
<1>6. HasLog(k)
  BY DEF Alone, CronKnows, KnowsLast, AtNotice
<1> QED BY <1>4, <1>5, <1>6, SteadyLast

LEMMA LogGrows ==
    ASSUME TypeOK, NEW d \in Device, RuleLog(d), NEW k \in Key, PollKey(d) = k
    PROVE  Len(log'[k]) # Len(log[k])
<1> DEFINE new == IF poller[d].raise THEN NewRow(1, poller[d].n, people[k], k[2])
                                     ELSE NewRow(0, 0, 0, k[2])
<1>1. log[k] \in Seq(LogRow) /\ new \in LogRow
  BY NewRowType, KeyFacts DEF PollerType, TypeOK
<1>2. log'[k] = Append(log[k], new)
  BY DEF RuleLog, TypeOK
<1> HIDE DEF new
<1> QED BY <1>1, <1>2

\* A notice of a fault that is decided on stays within the limit.
LEMMA FitsWhenRead ==
    ASSUME TypeOK, Alone, CountedInv, NEW k \in Key, AlertRead(k),
           LastRow(k).state = 1, Limited(k), Issues(k, LastRow(k))
    PROVE  /\ issues[k] + 1 <= Limit(k)
           /\ Extra[k[2]].count > 0 => issues[k] + 1 <= Tally(LastRow(k), Extra[k[2]])
<1> DEFINE row == LastRow(k)
           x == Extra[k[2]]
<1>1. /\ HasLog(k) /\ row \in LogRow /\ row.count \in Nat
      /\ k \in cron.todo /\ cron.pc = "alerts"
  BY ReadFacts DEF LogRow
<1>2. x.count \in Int /\ issues[k] \in Nat /\ k[1] \in Device
  BY CountFacts, KeyFacts
<1>3. alerts[k].state # -1 /\ "gone" \notin flags[k[1]]
  BY <1>1 DEF Alone, Selected, Deleted
<1>4. /\ x.count > 0 => issues[k] <= row.count
      /\ issues[k] > 0 => alerts[k].alerted = 1
  BY <1>1, <1>3 DEF CountedInv, Tallied, KnowsLast
<1>5. Again(row, x) \/ alerts[k].alerted # 1
  BY <1>3 DEF Issues, Same
<1>6. Tally(row, x) = IF row.count < x.count THEN row.count + 1 ELSE row.count
  BY DEF Tally
<1>7. Again(row, x) => x.count # 0 /\ row.count < x.count
  BY DEF Again, Limited
<1>8. Limit(k) = IF x.count > 0 THEN x.count ELSE 1
  BY DEF Limit
<1> SUFFICES /\ issues[k] + 1 <= Limit(k)
             /\ x.count > 0 => issues[k] + 1 <= Tally(row, x)
  OBVIOUS
<1> HIDE DEF row, x
<1>9. CASE Again(row, x)
  BY <1>1, <1>2, <1>4, <1>6, <1>7, <1>8, <1>9
<1>10. CASE alerts[k].alerted # 1
  BY <1>1, <1>2, <1>4, <1>6, <1>8, <1>10
<1> QED BY <1>5, <1>9, <1>10

LEMMA CountedStep ==
    ASSUME TypeOK, Alone, CountedInv, [Next]_vars
    PROVE  Counted'
<1> SUFFICES ASSUME NEW k \in Key, Limited(k) PROVE issues'[k] <= Limit(k)
  BY DEF Counted, Limited, Limit
<1>1. issues[k] <= Limit(k) /\ Limit(k) \in Int /\ Limit(k) >= 1
  BY CountFacts DEF CountedInv, Counted
<1>2. AlertIssue /\ cron.key = k /\ cron.iss /\ cron.row.state = 1 =>
          issues[k] + 1 <= Limit(k)
  BY DEF AlertIssue, CountedInv, OneMoreFits
<1> QED BY <1>1, <1>2, IssuesStep

\* A poller about to open a row has logged the event before.
LEMMA SetFromLog ==
    ASSUME TypeOK, [Next]_vars, NEW d \in Device, poller'[d].pc = "set", ~RuleLog(d)
    PROVE  /\ poller[d].pc = "set" /\ PollKey(d)' = PollKey(d)
           /\ poller'[d].raise = poller[d].raise
<1>0. poller \in [Device -> PollerType] /\ poller[d] \in PollerType
  BY DEF TypeOK
<1>1. CASE poller'[d] = poller[d]
  BY <1>1 DEF PollKey
<1>2. ASSUME NEW e \in Device, Poll(e) PROVE poller'[d] = poller[d]
  <2>1. CASE e = d
    <3>1. ASSUME NEW r \in Rule PROVE ~CheckRule(d, r)
      <4> DEFINE left == poller[d].todo \ {r}
                 b == (fault[<<d, r>>] > 0) # Extra[r].invert
      <4>1. [IdlePoller EXCEPT !.pc = "rules", !.todo = left].pc # "set"
        BY DEF IdlePoller
      <4>2. ASSUME NEW pc \in {"refresh", "log"}
            PROVE  [IdlePoller EXCEPT !.pc = pc, !.todo = left, !.rule = r,
                                      !.raise = b, !.n = fault[<<d, r>>]].pc # "set"
        BY <4>2 DEF IdlePoller
      <4>3. CheckRule(d, r) => \E new : new.pc # "set" /\ poller' = [poller EXCEPT ![d] = new]
        <5> HIDE DEF left
        <5> QED BY <4>1, <4>2 DEF CheckRule, left
      <4> QED BY <1>0, <4>3
    <3>2. ~NextRule(d)
      BY <1>0 DEF NextRule, IdlePoller
    <3>3. ~RunRules(d) /\ ~RulesEnd(d)
      BY <1>0 DEF RunRules, RulesEnd, IdlePoller, PollerType
    <3>4. ~RefreshRead(d)
      BY <1>0, <3>2 DEF RefreshRead, PollerType
    <3> QED BY <1>2, <2>1, <3>1, <3>2, <3>3, <3>4 DEF Poll, RefreshWrite, RuleSet
  <2>2. CASE e # d
    BY <1>0, <1>2, <2>2 DEF Poll, RunRules, CheckRule, RefreshRead, RefreshWrite,
       RuleLog, RuleSet, RulesEnd, NextRule
  <2> QED BY <2>1, <2>2
<1>3. ASSUME NEW k \in Key, NEW t, Elapse(k, t)
      PROVE  \/ poller'[d] = poller[d]
             \/ poller'[d] = [poller[d] EXCEPT !.row = Over(poller[d].row, t)]
  BY <1>0, <1>3 DEF Elapse
<1>4. ASSUME NEW row, poller'[d] = [poller[d] EXCEPT !.row = row]
      PROVE  /\ poller[d].pc = "set" /\ PollKey(d)' = PollKey(d)
             /\ poller'[d].raise = poller[d].raise
  BY <1>0, <1>4 DEF PollKey, PollerType
<1>5. CASE Cron
  BY <1>1, <1>5 DEF Cron, CronStart, StaleRule, FollowUpRead, FollowUpLog,
     FollowUpSet, FollowUpEnd, AlertWait, AlertRead, AlertDetails, AlertIssue,
     AlertAlerted, AlertClose, AlertsEnd, AckRead, AckIssue, AckClose, AcksEnd
<1>6. ASSUME NEW e \in Device, CrashPoller(e) PROVE poller'[d] = poller[d]
  BY <1>0, <1>6 DEF CrashPoller, IdlePoller
<1>7. CASE Environment
  BY <1>1, <1>6, <1>7 DEF Environment, FaultChange, AckAlert, UnackAlert, ApiSetState,
     PurgeLog, ChangeContacts, ToggleRule, ToggleFlag, DeleteDevice, CrashCron
<1>8. CASE UNCHANGED vars
  BY <1>1, <1>8 DEF vars
<1> QED BY <1>1, <1>2, <1>3, <1>4, <1>5, <1>7, <1>8 DEF Next, Time

LEMMA FreshlyLoggedStep ==
    ASSUME TypeOK, Alone, CountedInv, [Next]_vars, "crash" \notin Ops
    PROVE  FreshlyLogged'
<1> SUFFICES ASSUME NEW d \in Device, poller'[d].pc = "set", poller'[d].raise
             PROVE  issues'[PollKey(d)'] = 0
  BY DEF FreshlyLogged
<1>1. CASE RuleLog(d)
  <2>1. PollKey(d)' = PollKey(d) /\ poller[d].raise
    BY <1>1 DEF RuleLog, PollKey, TypeOK, PollerType
  <2>2. PollKey(d) \in Key
    BY DEF TypeOK, PollKey, PollerType, Key
  <2> QED BY <1>1, <2>1, <2>2 DEF RuleLog, TypeOK
<1>2. CASE ~RuleLog(d)
  <2>1. /\ poller[d].pc = "set" /\ PollKey(d)' = PollKey(d)
        /\ poller'[d].raise = poller[d].raise
    BY <1>2, SetFromLog
  <2>2. PICK k \in Key : k = PollKey(d)
    BY DEF TypeOK, PollKey, PollerType, Key
  <2>3. issues[k] = 0
    BY <2>1, <2>2 DEF CountedInv, FreshlyLogged
  <2>4. ~AlertIssue
    BY <2>1 DEF Alone, TakeTurns, AlertIssue
  <2> QED BY <2>1, <2>2, <2>3, <2>4, IssuesStep
<1> QED BY <1>1, <1>2

LEMMA NoticeCountStep ==
    ASSUME TypeOK, TypeOK', Alone, CountedInv, [Next]_vars
    PROVE  ToWrite' /\ Written' /\ OneMoreFits'
<1> SUFFICES ASSUME cron'.pc \in {"details", "issue"}, NEW k \in Key, k = cron'.key
             PROVE  ToWrite' /\ Written' /\ OneMoreFits'
  <2>1. cron'.key \in Key
    BY DEF TypeOK, CronType
  <2> QED BY <2>1 DEF ToWrite, Written, OneMoreFits
<1>0. LastRow(cron.key)' = LastRow(k)'
  BY DEF LastRow
<1>1. CASE CronStays
  <2>1. k = cron.key /\ cron.pc \in {"details", "issue"}
    BY <1>1 DEF CronStays
  <2>2. issues'[k] = issues[k] /\ LastRow(k)'.count = LastRow(k).count
    BY <1>1, <2>1, NoticeUndisturbed
  <2>3. ToWrite' /\ Written'
    BY <1>0, <1>1, <2>1, <2>2 DEF CronStays, CountedInv, ToWrite, Written
  <2>4. OneMoreFits'
    BY <1>1, <2>1, <2>2 DEF CronStays, CountedInv, OneMoreFits, Limited, Limit
  <2> QED BY <2>3, <2>4
<1>2. CASE AlertRead(k)
  <2> DEFINE row == LastRow(k)
             x == Extra[k[2]]
  <2>1. /\ row \in LogRow /\ log' = log /\ cron'.pc = "details" /\ issues' = issues
        /\ cron'.row.state = row.state /\ cron'.row.count = Tally(row, x)
        /\ cron'.iss <=> Issues(k, row)
        /\ cron'.upd <=> Rewrites(k, row)
    BY <1>2, ReadFacts
  <2>2. LastRow(k)' = row
    BY <2>1 DEF LastRow
  <2>3. row.count \in Nat /\ x.count \in Int
    BY <2>1, CountFacts DEF LogRow
  <2>4. Tally(row, x) >= row.count
    BY <2>3 DEF Tally
  <2>5. Issues(k, row) /\ row.state = 1 => Rewrites(k, row) \/ Tally(row, x) = row.count
    BY <2>3 DEF Issues, Rewrites, Again, Tally
  <2>6. Issues(k, row) /\ row.state = 1 /\ Limited(k) =>
            /\ issues[k] + 1 <= Limit(k)
            /\ x.count > 0 => issues[k] + 1 <= Tally(row, x)
    BY <1>2, FitsWhenRead
  <2> HIDE DEF row, x
  <2>7. ToWrite'
    BY <1>0, <2>1, <2>2, <2>4, <2>5 DEF ToWrite
  <2>8. Written'
    BY <2>1 DEF Written
  <2>9. OneMoreFits'
    BY <2>1, <2>6 DEF OneMoreFits, Limited, Limit, x
  <2> QED BY <2>7, <2>8, <2>9
<1>3. CASE AlertDetails
  <2>1. /\ k = cron.key /\ cron'.row = cron.row /\ cron'.iss = cron.iss
        /\ cron.pc = "details" /\ cron'.pc = "issue"
    BY <1>3, NoticeSteps DEF AlertDetails, AlertIssue, AlertAlerted
  <2>2. issues'[k] = issues[k]
    BY <1>3 DEF AlertDetails, hist
  <2>3. HasLog(k)
    BY <2>1 DEF Alone, CronKnows, KnowsLast, AtNotice
  <2>4. CASE ~cron.upd
    <3>1. log' = log
      BY <1>3, <2>4 DEF AlertDetails
    <3>2. LastRow(k)' = LastRow(k)
      BY <3>1 DEF LastRow
    <3>3. Written'
      BY <1>0, <2>1, <2>4, <3>2 DEF CountedInv, ToWrite, Written
    <3> QED BY <2>1, <2>2, <3>3 DEF ToWrite, OneMoreFits, CountedInv, Limited, Limit
  <2>5. CASE cron.upd
    <3>1. cron.id = Len(log[k]) /\ cron.id > purged[k]
          /\ cron.id \in Nat /\ cron.row \in LogRow
      BY <2>1 DEF Alone, CronKnows, TypeOK, CronType
    <3>2. WriteDetails(k, cron.id, cron.row)
      BY <1>3, <2>1, <2>5 DEF AlertDetails
    <3>3. LastRow(k)'.count = cron.row.count
      BY <2>3, <3>1, <3>2, WriteLast DEF LastRow
    <3>4. Written'
      BY <1>0, <2>1, <3>3 DEF Written
    <3> QED BY <2>1, <2>2, <3>4 DEF ToWrite, OneMoreFits, CountedInv, Limited, Limit
  <2> QED BY <2>4, <2>5
<1>4. \/ CronStays \/ AlertDetails \/ \E q \in Key : AlertRead(q)
      \/ cron'.pc \in {"alerted", "close"}
  BY NoticeMoves, NoticeSteps DEF AtNotice
<1>5. \A q \in Key : AlertRead(q) => AlertRead(k)
  BY ReadFacts
<1> QED BY <1>1, <1>2, <1>3, <1>4, <1>5

LEMMA TalliedStep ==
    ASSUME ~Overlap, TypeOK, TypeOK', Alone, CountedInv, [Next]_vars, "crash" \notin Ops
    PROVE  Tallied'
<1> SUFFICES ASSUME NEW k \in Key, Limited(k), HasLog(k)', LastRow(k)'.state = 1
             PROVE  /\ Extra[k[2]].count > 0 => issues'[k] <= LastRow(k)'.count
                    /\ issues'[k] > 0 =>
                          \/ alerts'[k].alerted = 1
                          \/ alerts'[k].state = -1
                          \/ cron'.pc = "alerted" /\ cron'.key = k /\ cron'.iss
  BY DEF Tallied, Limited, KnowsLast
<1>0. /\ alerts[k] \in AlertRow /\ cron \in CronType /\ cron.key \in Key
      /\ cron.row \in LogRow /\ issues[k] \in Nat
      /\ HasLog(k) => LastRow(k).count \in Nat
  BY LengthFacts, CountFacts DEF TypeOK, CronType, LogRow
<1>1. CASE NewEvent(k)
  <2>1. PICK d \in Device : /\ RuleLog(d) /\ PollKey(d) = k
                            /\ LastRow(k)'.count = 0 /\ poller[d].raise
    BY <1>1 DEF NewEvent
  <2>2. issues'[k] = 0
    BY <2>1 DEF RuleLog, TypeOK
  <2> QED BY <2>1, <2>2
<1>2. CASE ~NewEvent(k)
  <2>1. KnowsLast(k, 1)
    <3>1. CASE Steady(k)
      BY <3>1, SteadyLast DEF KnowsLast
    <3>2. CASE AlertDetails /\ cron.key = k /\ LastRow(k)'.state = LastRow(k).state
      BY <3>2 DEF AlertDetails, Alone, CronKnows, KnowsLast, AtNotice
    <3> QED BY <1>2, <3>1, <3>2, LastStep
  <2>2. /\ Extra[k[2]].count > 0 => issues[k] <= LastRow(k).count
        /\ issues[k] > 0 =>
              \/ alerts[k].alerted = 1
              \/ alerts[k].state = -1
              \/ cron.pc = "alerted" /\ cron.key = k /\ cron.iss
    BY <2>1 DEF CountedInv, Tallied
  <2>3. LastRow(k)'.count >= LastRow(k).count /\ LastRow(k)'.count \in Nat
    <3>1. CASE Steady(k)
      BY <1>0, <2>1, <3>1, SteadyLast DEF KnowsLast
    <3>2. CASE AlertDetails /\ cron.key = k /\ LastRow(k)'.count = cron.row.count
      BY <1>0, <3>2 DEF AlertDetails, CountedInv, ToWrite, LogRow
    <3> QED BY <1>2, <3>1, <3>2, LastStep
  <2>4. CASE issues'[k] # issues[k]
    <3>1. \A d \in Device : ~(RuleLog(d) /\ PollKey(d) = k /\ poller[d].raise)
      <4>1. ASSUME NEW d \in Device, RuleLog(d), PollKey(d) = k PROVE NewEvent(k)
        <5>1. ~Steady(k)
          BY <4>1, LogGrows DEF Steady
        <5> QED BY <4>1, <5>1, LastStep DEF RuleLog, AlertDetails, Alone, TakeTurns
      <4> QED BY <1>2, <4>1
    <3>2. /\ AlertIssue /\ cron.key = k /\ cron.iss /\ cron.row.state = 1
          /\ issues'[k] = issues[k] + 1
      BY <2>4, <3>1, IssuesStep
    <3>3. LastRow(k)' = LastRow(k)
      BY <3>2 DEF AlertIssue, rows, LastRow
    <3>4. Extra[k[2]].count > 0 => issues[k] + 1 <= LastRow(k).count
      BY <3>2 DEF AlertIssue, CountedInv, OneMoreFits, Written
    <3>5. cron'.pc = "alerted" /\ cron'.key = k /\ cron'.iss
      BY <1>0, <3>2 DEF AlertIssue, CronType
    <3> QED BY <3>2, <3>3, <3>4, <3>5
  <2>5. CASE issues'[k] = issues[k] /\ issues[k] > 0
    <3>1. Extra[k[2]].count > 0 => issues'[k] <= LastRow(k)'.count
      BY <1>0, <2>1, <2>2, <2>3, <2>5 DEF KnowsLast
    <3>2. CASE alerts'[k] # alerts[k]
      <4>1. Deletes(k) => alerts'[k].state = -1
        BY DEF Deletes, NoAlert
      <4>2. ASSUME NEW d \in Device, RuleSet(d), PollKey(d) = k,
                   alerts'[k] = Opened(alerts[k], IF poller[d].raise THEN 1 ELSE 0)
            PROVE  alerts'[k].alerted = 1
        <5>1. poller[d].pc = "set" /\ cron.pc = "idle"
          BY <4>2 DEF RuleSet, Alone, TakeTurns
        <5>2. poller[d].raise
          BY <2>1, <4>2, <5>1 DEF Alone, PollerKnows, KnowsLast
        <5>3. issues[k] = 0
          BY <4>2, <5>1, <5>2 DEF CountedInv, FreshlyLogged
        <5> QED BY <2>5, <5>3
      <4>3. ASSUME alerts'[k] = [state |-> cron.row.state, open |-> TRUE, alerted |-> 1]
            PROVE  alerts'[k].alerted = 1
        BY <4>3
      <4>4. ASSUME AlertAlerted, cron.key = k,
                   alerts'[k] = [alerts[k] EXCEPT !.alerted = cron.row.state]
            PROVE  alerts'[k].alerted = 1
        <5>1. cron.row.state = 1
          BY <2>1, <4>4 DEF AlertAlerted, Alone, CronKnows, KnowsLast, AtNotice
        <5> QED BY <1>0, <4>4, <5>1 DEF AlertRow
      <4>5. ASSUME AckClose \/ AlertClose, cron.key = k,
                   alerts'[k] = [alerts[k] EXCEPT !.open = FALSE]
            PROVE  alerts'[k].alerted = 1
        <5>1. alerts[k].state # -1 /\ cron.pc # "alerted"
          BY <4>5 DEF AckClose, AlertClose, Alone, Selected, AtAck, AtNotice
        <5>2. alerts[k].alerted = 1
          BY <2>2, <2>5, <5>1
        <5> QED BY <1>0, <4>5, <5>2 DEF AlertRow
      <4>6. ASSUME UserSets(k) PROVE alerts'[k].alerted = 1
        <5>1. alerts[k].state # -1 /\ cron.pc # "alerted"
          BY <4>6 DEF UserSets, MayStart, Idle
        <5>2. alerts[k].alerted = 1
          BY <2>2, <2>5, <5>1
        <5> QED BY <1>0, <4>6, <5>2 DEF UserSets, Opened, AlertRow
      <4> QED BY <3>1, <3>2, <4>1, <4>2, <4>3, <4>4, <4>5, <4>6, RowChange
    <3>3. CASE alerts'[k] = alerts[k]
      <4>1. CASE cron.pc = "alerted" /\ cron.key = k /\ cron.iss
        <5>1. CASE AlertAlerted
          <6>1. alerts[k].state # -1 /\ cron.row.state = 1
            BY <2>1, <4>1 DEF Alone, Selected, CronKnows, KnowsLast, AtNotice
          <6>2. alerts'[k] = [alerts[k] EXCEPT !.alerted = 1]
            BY <4>1, <5>1, <6>1 DEF AlertAlerted, TypeOK
          <6> QED BY <1>0, <3>1, <6>2 DEF AlertRow
        <5>2. CASE ~AlertAlerted
          <6>1. ~Cron
            BY <4>1, <5>2 DEF Cron, CronStart, StaleRule, FollowUpRead, FollowUpLog,
               FollowUpSet, FollowUpEnd, AlertWait, AlertRead, AlertDetails,
               AlertIssue, AlertClose, AlertsEnd, AckRead, AckIssue, AckClose, AcksEnd
          <6>2. CronStays
            BY <6>1, CronStill DEF CrashCron
          <6> QED BY <3>1, <4>1, <6>2 DEF CronStays
        <5> QED BY <5>1, <5>2
      <4>2. CASE alerts[k].alerted = 1 \/ alerts[k].state = -1
        BY <3>1, <3>3, <4>2
      <4> QED BY <2>2, <2>5, <4>1, <4>2
    <3> QED BY <3>2, <3>3
  <2>6. CASE issues'[k] = issues[k] /\ ~(issues[k] > 0)
    BY <1>0, <2>1, <2>2, <2>3, <2>6 DEF KnowsLast
  <2> QED BY <2>4, <2>5, <2>6
<1> QED BY <1>1, <1>2

\* "Max alerts": no event is announced more often than the count of its rule,
\* once where that is not positive (alerts.php:299), however often its row is
\* opened again, where the programs take turns and none dies between the
\* notice and the record of it.
THEOREM NoticesLimited ==
    ASSUME ~Overlap, "crash" \notin Ops
    PROVE  Spec => []MaxAlerts
<1>1. Init => CountedInv
  <2> SUFFICES ASSUME Init PROVE CountedInv
    OBVIOUS
  <2>1. TypeOK
    BY TypeInit
  <2>2. Counted
    BY <2>1, CountFacts DEF Init, Counted
  <2> QED BY <2>2 DEF Init, IdleCron, IdlePoller, CountedInv, Tallied, FreshlyLogged,
         ToWrite, Written, OneMoreFits, KnowsLast, HasLog
<1>2. TypeOK /\ TypeOK' /\ Alone /\ CountedInv /\ [Next]_vars => CountedInv'
  BY CountedStep, TalliedStep, FreshlyLoggedStep, NoticeCountStep DEF CountedInv
<1>3. TypeOK /\ Alone /\ [Next]_vars => Alone'
  BY AloneStep
<1>4. CountedInv => MaxAlerts
  BY DEF CountedInv, Counted, Limited, Limit, MaxAlerts
<1> QED BY <1>1, <1>2, <1>3, <1>4, AloneInit, TypeCorrect, PTL DEF Spec

===============================================================================
