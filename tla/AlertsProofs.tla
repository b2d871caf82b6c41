---------------------------- MODULE AlertsProofs ----------------------------
(***************************************************************************)
(* Proofs about Alerts, for any devices, rules, configurations and bounds. *)
(***************************************************************************)
EXTENDS Alerts, SequenceTheorems, TLAPS

LEMMA KeyFacts ==
    /\ AnyKey \in Key
    /\ AnyRule \in Rule
    /\ \A k \in Key : k[1] \in Device /\ k[2] \in Rule /\ k = <<k[1], k[2]>>
<1>1. \A k \in Key : k[1] \in Device /\ k[2] \in Rule /\ k = <<k[1], k[2]>>
  BY DEF Key
<1>2. \E r \in Rule : TRUE
  BY SetsAssumption
<1>3. \E k \in Key : TRUE
  <2>1. PICK d \in Device : TRUE
    BY SetsAssumption
  <2>2. PICK r \in Rule : TRUE
    BY SetsAssumption
  <2>3. <<d, r>> \in Key
    BY <2>1, <2>2 DEF Key
  <2> QED BY <2>3
<1>4. AnyKey \in Key
  BY <1>3 DEF AnyKey
<1>5. AnyRule \in Rule
  BY <1>2 DEF AnyRule
<1> QED BY <1>1, <1>4, <1>5

LEMMA BoolNeq == ASSUME NEW a, NEW b PROVE (a # b) \in BOOLEAN
OBVIOUS

LEMMA RuleFacts ==
    ASSUME NEW r \in Rule
    PROVE  /\ Extra[r].count \in Int
           /\ Extra[r].delay \in BOOLEAN
           /\ Extra[r].interval \in BOOLEAN
           /\ Extra[r].invert \in BOOLEAN
           /\ Extra[r].mute \in BOOLEAN
BY ConfigAssumption DEF ExtraType

LEMMA NewRowType ==
    ASSUME NEW s \in {0, 1, 3, 4}, NEW n \in Nat, NEW to \in Nat, NEW r \in Rule
    PROVE  NewRow(s, n, to, r) \in LogRow
BY RuleFacts DEF NewRow, LogRow

LEMMA IdleTypes ==
    /\ NoLogRow \in LogRow
    /\ IdlePoller \in PollerType
    /\ IdleCron \in CronType
    /\ NoAlert \in AlertRow
<1>1. NoLogRow \in LogRow
  BY DEF NoLogRow, LogRow
<1>2. IdlePoller \in PollerType
  BY <1>1, KeyFacts DEF IdlePoller, PollerType
<1>3. IdleCron \in CronType
  BY <1>1, KeyFacts DEF IdleCron, CronType
<1>4. NoAlert \in AlertRow
  BY DEF NoAlert, AlertRow
<1> QED BY <1>1, <1>2, <1>3, <1>4

LEMMA AlertRowUpdate ==
    ASSUME TypeOK, NEW k \in Key, NEW s \in -1..4
    PROVE  /\ [alerts EXCEPT ![k] = Opened(@, s)] \in [Key -> AlertRow]
           /\ [alerts EXCEPT ![k].state = s] \in [Key -> AlertRow]
<1>1. alerts[k] \in AlertRow
  BY DEF TypeOK
<1>2. ASSUME NEW a \in AlertRow
      PROVE  /\ Opened(a, s) \in AlertRow
             /\ [a EXCEPT !.state = s] \in AlertRow
  BY DEF AlertRow, Opened
<1>3. [alerts EXCEPT ![k].state = s]
           = [alerts EXCEPT ![k] = [alerts[k] EXCEPT !.state = s]]
  BY DEF TypeOK
<1> QED BY <1>1, <1>2, <1>3 DEF TypeOK

LEMMA TypeInit == Init => TypeOK
BY IdleTypes, BoundAssumption DEF Init, TypeOK

LEMMA LogFacts ==
    ASSUME TypeOK, NEW k \in Key
    PROVE  /\ log[k] \in Seq(LogRow)
           /\ Len(log[k]) \in Nat
           /\ DOMAIN log[k] = 1..Len(log[k])
           /\ \A i \in 1..Len(log[k]) : log[k][i] \in LogRow
           /\ HasRow(k) => LastRow(k) \in LogRow /\ Len(log[k]) \in 1..Len(log[k])
           /\ purged[k] \in Nat
BY DEF TypeOK, HasRow, LastRow

LEMMA AppendType ==
    ASSUME TypeOK, NEW k \in Key, NEW row \in LogRow
    PROVE  [log EXCEPT ![k] = Append(@, row)] \in [Key -> Seq(LogRow)]
BY DEF TypeOK

LEMMA WriteType ==
    ASSUME TypeOK, NEW k \in Key, NEW id \in Nat, NEW row \in LogRow,
           WriteDetails(k, id, row)
    PROVE  log' \in [Key -> Seq(LogRow)]
<1> DEFINE old == log[k]
           new == [old EXCEPT ![id].n = row.n, ![id].to = row.to,
                              ![id].count = row.count, ![id].cool = row.cool]
<1>1. new \in Seq(LogRow)
  <2>1. \A i \in 1..Len(old) : new[i] \in LogRow
    BY LogFacts, ZenonT(40) DEF LogRow
  <2>2. DOMAIN new = 1..Len(old) /\ Len(old) \in Nat
    BY LogFacts
  <2>3. new \in [1..Len(old) -> LogRow]
    BY <2>1, <2>2
  <2> HIDE DEF new
  <2> QED BY <2>2, <2>3, SeqDef
<1>2. log' = log \/ log' = [log EXCEPT ![k] = new]
  BY ZenonT(40) DEF WriteDetails, TypeOK
<1> QED BY <1>1, <1>2 DEF TypeOK

-----------------------------------------------------------------------------
(***************************************************************************)
(* Every step preserves TypeOK: one lemma per program.                     *)
(***************************************************************************)
LEMMA PollType ==
    ASSUME TypeOK, NEW d \in Device, Poll(d)
    PROVE  TypeOK'
<1> DEFINE k == PollKey(d)
<1>0. k \in Key /\ poller[d] \in PollerType /\ poller[d].rule \in Rule
  BY DEF TypeOK, PollKey, PollerType, Key
<1>1. CASE RunRules(d)
  BY <1>1, IdleTypes DEF RunRules, TypeOK, rows, env, hist, PollerType
<1>2. ASSUME NEW r \in Rule, CheckRule(d, r) PROVE TypeOK'
  <2>1. poller' \in [Device -> PollerType]
    <3>1. <<d, r>> \in Key
      BY DEF Key
    <3>2. fault[<<d, r>>] \in Nat
      BY <3>1, BoundAssumption DEF TypeOK
    <3> DEFINE left == poller[d].todo \ {r}
    <3>3. left \in SUBSET Rule
      BY <1>0 DEF PollerType
    <3>4. [IdlePoller EXCEPT !.pc = "rules", !.todo = left] \in PollerType
      BY <3>3, IdleTypes DEF PollerType
    <3>5. ASSUME NEW pc \in {"refresh", "log"}, NEW b \in BOOLEAN
          PROVE  [IdlePoller EXCEPT !.pc = pc, !.todo = left, !.rule = r,
                                    !.raise = b, !.n = fault[<<d, r>>]] \in PollerType
      BY <3>2, <3>3, IdleTypes DEF PollerType
    <3>6. \E new \in PollerType : poller' = [poller EXCEPT ![d] = new]
      <4> HIDE DEF left
      <4>1. ((fault[<<d, r>>] > 0) # Extra[r].invert) \in BOOLEAN
        BY BoolNeq
      <4> QED BY <1>2, <3>4, <3>5, <4>1 DEF CheckRule, left
    <3> QED BY <3>6 DEF TypeOK
  <2> QED BY <1>2, <2>1 DEF CheckRule, TypeOK, rows, env, hist
<1>3. CASE RefreshRead(d)
  <2>1. poller' \in [Device -> PollerType]
    <3>1. [IdlePoller EXCEPT !.pc = "rules", !.todo = poller[d].todo] \in PollerType
      BY <1>0, IdleTypes DEF PollerType
    <3>2. CASE k[2] \in enabled /\ HasRow(k)
      <4>1. LastRow(k) \in LogRow /\ Len(log[k]) \in Nat
        BY <1>0, <3>2, LogFacts
      <4> DEFINE new == [poller[d] EXCEPT !.pc = "write", !.id = Len(log[k]),
                                          !.row = LastRow(k)]
      <4>2. new \in PollerType
        BY <1>0, <4>1 DEF PollerType
      <4>3. poller' = [poller EXCEPT ![d] = new]
        BY <1>3, <3>2 DEF RefreshRead, TypeOK
      <4> HIDE DEF new
      <4> QED BY <4>2, <4>3 DEF TypeOK
    <3>3. CASE ~(k[2] \in enabled /\ HasRow(k))
      BY <1>3, <3>1, <3>3 DEF RefreshRead, NextRule, TypeOK
    <3> QED BY <3>2, <3>3
  <2> QED BY <1>3, <2>1 DEF RefreshRead, TypeOK, rows, env, hist
<1>4. CASE RefreshWrite(d)
  <2>1. poller' \in [Device -> PollerType]
    BY <1>0, <1>4, IdleTypes DEF RefreshWrite, NextRule, TypeOK, PollerType
  <2> DEFINE row == [poller[d].row EXCEPT !.n = poller[d].n, !.to = people[k]]
  <2>2. row \in LogRow /\ poller[d].id \in Nat
    BY <1>0 DEF LogRow, PollerType, TypeOK
  <2>3. WriteDetails(k, poller[d].id, row)
    BY <1>4 DEF RefreshWrite
  <2>4. log' \in [Key -> Seq(LogRow)]
    <3> HIDE DEF row, k
    <3> QED BY <1>0, <2>2, <2>3, WriteType
  <2> QED BY <1>4, <2>1, <2>4 DEF RefreshWrite, TypeOK, env, hist
<1>5. CASE RuleLog(d)
  <2> DEFINE row == IF poller[d].raise THEN NewRow(1, poller[d].n, people[k], k[2])
                                       ELSE NewRow(0, 0, 0, k[2])
  <2>1. row \in LogRow
    BY <1>0, NewRowType, KeyFacts DEF PollerType, TypeOK
  <2>2. log' = [log EXCEPT ![k] = Append(@, row)]
    BY <1>5 DEF RuleLog
  <2>3. log' \in [Key -> Seq(LogRow)]
    <3> HIDE DEF row, k
    <3> QED BY <1>0, <2>1, <2>2, AppendType
  <2>4. issues' \in [Key -> 0..MaxIssues] /\ trigger' \in [Key -> Nat]
    BY <1>0, <1>5, BoundAssumption DEF RuleLog, TypeOK
  <2>5. poller' \in [Device -> PollerType]
    <3>1. poller' = [poller EXCEPT ![d].pc = "set"]
      BY <1>5 DEF RuleLog
    <3>2. [poller[d] EXCEPT !.pc = "set"] \in PollerType
      BY <1>0 DEF PollerType
    <3> QED BY <3>1, <3>2 DEF TypeOK
  <2> QED BY <1>5, <2>3, <2>4, <2>5 DEF RuleLog, TypeOK, env
<1>6. CASE RuleSet(d)
  <2>1. poller' \in [Device -> PollerType]
    BY <1>0, <1>6, IdleTypes DEF RuleSet, NextRule, TypeOK, PollerType
  <2>2. alerts' \in [Key -> AlertRow]
    <3> DEFINE t == IF poller[d].raise THEN 1 ELSE 0
    <3>1. t \in -1..4
      OBVIOUS
    <3>2. alerts' = [alerts EXCEPT ![k] = Opened(@, t)]
      BY <1>6 DEF RuleSet
    <3> HIDE DEF t, k
    <3> QED BY <1>0, <3>1, <3>2, AlertRowUpdate
  <2> QED BY <1>6, <2>1, <2>2 DEF RuleSet, TypeOK, env, hist
<1>7. CASE RulesEnd(d)
  BY <1>7, IdleTypes DEF RulesEnd, TypeOK, rows, env, hist
<1> QED BY <1>1, <1>2, <1>3, <1>4, <1>5, <1>6, <1>7 DEF Poll

LEMMA LoopType ==
    ASSUME TypeOK, NEW k \in Key,
           NEW pc \in {"follow", "alerts", "acks"}
    PROVE  /\ Loop(pc, k) \in CronType
           /\ NewCache(k) \in [Device -> SUBSET Rule]
           /\ cron.cache \in [Device -> SUBSET Rule]
           /\ [Loop(pc, k) EXCEPT !.cache = NewCache(k)] \in CronType
           /\ [Loop(pc, k) EXCEPT !.cache = cron.cache] \in CronType
           /\ cron \in CronType
           /\ cron.key \in Key /\ cron.row \in LogRow /\ cron.id \in Nat
<1>1. cron \in CronType
  BY DEF TypeOK
<1>2. cron.cache \in [Device -> SUBSET Rule]
  BY <1>1 DEF CronType
<1>3. NewCache(k) \in [Device -> SUBSET Rule]
  BY <1>2, KeyFacts DEF NewCache, Cached, TypeOK
<1>4. Loop(pc, k) \in CronType
  BY <1>1, IdleTypes DEF Loop, CronType
<1>5. ASSUME NEW c \in [Device -> SUBSET Rule]
      PROVE  [Loop(pc, k) EXCEPT !.cache = c] \in CronType
  BY <1>4, <1>5 DEF CronType
<1> QED BY <1>1, <1>2, <1>3, <1>4, <1>5 DEF CronType

LEMMA FollowUpType ==
    ASSUME TypeOK,
           \/ CronStart \/ FollowUpLog \/ FollowUpSet \/ FollowUpEnd
           \/ \E k \in Key : StaleRule(k) \/ FollowUpRead(k)
    PROVE  TypeOK'
<1>1. CASE CronStart
  <2>1. alerts' \in [Key -> AlertRow]
    BY <1>1, IdleTypes DEF CronStart, ClearStale, TypeOK
  <2>2. cron' \in CronType
    BY <1>1 DEF CronStart, ToFollowUp, TypeOK, CronType
  <2> QED BY <1>1, <2>1, <2>2 DEF CronStart, TypeOK, env, hist
<1>2. CASE FollowUpLog
  <2> DEFINE row == [cron.row EXCEPT !.early = Extra[cron.key[2]].delay]
  <2>1. cron.key \in Key /\ cron.row \in LogRow
    BY DEF TypeOK, CronType
  <2>2. row \in LogRow
    BY <2>1, KeyFacts, RuleFacts DEF LogRow
  <2>3. log' = [log EXCEPT ![cron.key] = Append(@, row)]
    BY <1>2 DEF FollowUpLog
  <2>4. log' \in [Key -> Seq(LogRow)]
    <3> HIDE DEF row
    <3> QED BY <2>1, <2>2, <2>3, AppendType
  <2>5. cron' \in CronType
    BY <1>2 DEF FollowUpLog, TypeOK, CronType
  <2> QED BY <1>2, <2>4, <2>5 DEF FollowUpLog, TypeOK, env, hist
<1>3. CASE FollowUpSet
  <2>1. cron.key \in Key /\ cron.row.state \in {0, 1, 3, 4}
    BY DEF TypeOK, CronType, LogRow
  <2>2. alerts' \in [Key -> AlertRow]
    BY <1>3, <2>1 DEF FollowUpSet, TypeOK, AlertRow
  <2>3. cron' \in CronType
    BY <1>3, <2>1, LoopType DEF FollowUpSet
  <2> QED BY <1>3, <2>2, <2>3 DEF FollowUpSet, TypeOK, env, hist
<1>4. CASE FollowUpEnd
  <2>1. cron' \in CronType
    BY <1>4, IdleTypes DEF FollowUpEnd, ToNotify, TypeOK, CronType
  <2> QED BY <1>4, <2>1 DEF FollowUpEnd, TypeOK, rows, env, hist
<1>5. ASSUME NEW k \in Key, StaleRule(k) PROVE TypeOK'
  <2>1. alerts' \in [Key -> AlertRow]
    BY <1>5, IdleTypes DEF StaleRule, TypeOK
  <2>2. cron' \in CronType
    BY <1>5, LoopType DEF StaleRule
  <2> QED BY <1>5, <2>1, <2>2 DEF StaleRule, TypeOK, env, hist
<1>6. ASSUME NEW k \in Key, FollowUpRead(k) PROVE TypeOK'
  <2>1. cron \in CronType /\ NewCache(k) \in [Device -> SUBSET Rule]
        /\ [Loop("follow", k) EXCEPT !.cache = NewCache(k)] \in CronType
    BY LoopType
  <2>2. HasRow(k)
    BY <1>6 DEF FollowUpRead, IsRuleValid, RowFound
  <2>3. LastRow(k) \in LogRow /\ fault[k] \in Nat
    BY <2>2, LogFacts, BoundAssumption DEF TypeOK
  <2> DEFINE new == [LastRow(k) EXCEPT
                        !.state = IF fault[k] > LastRow(k).n THEN 3 ELSE 4,
                        !.n = fault[k]]
  <2>4. new \in LogRow
    BY <2>3 DEF LogRow
  <2>5. \/ cron' = [cron EXCEPT !.pc = "flog", !.key = k, !.row = new,
                                !.cache = NewCache(k)]
        \/ cron' = [Loop("follow", k) EXCEPT !.cache = NewCache(k)]
    BY <1>6 DEF FollowUpRead
  <2>6. cron' \in CronType
    <3> HIDE DEF new
    <3> QED BY <2>1, <2>4, <2>5 DEF CronType
  <2> QED BY <1>6, <2>6 DEF FollowUpRead, TypeOK, rows, env, hist
<1> QED BY <1>1, <1>2, <1>3, <1>4, <1>5, <1>6

LEMMA AlertType ==
    ASSUME TypeOK,
           \/ AlertDetails \/ AlertIssue \/ AlertAlerted \/ AlertClose \/ AlertsEnd
           \/ AckIssue \/ AckClose \/ AcksEnd
           \/ \E k \in Key : AlertWait(k) \/ AlertRead(k) \/ AckRead(k)
    PROVE  TypeOK'
<1>0. cron \in CronType /\ cron.key \in Key /\ cron.row \in LogRow /\ cron.id \in Nat
  BY DEF TypeOK, CronType
<1>1. CASE AlertDetails
  <2>1. log' \in [Key -> Seq(LogRow)]
    BY <1>0, <1>1, WriteType DEF AlertDetails, TypeOK
  <2>2. cron' \in CronType
    BY <1>0, <1>1 DEF AlertDetails, CronType
  <2> QED BY <1>1, <2>1, <2>2 DEF AlertDetails, TypeOK, env, hist
<1>2. CASE AlertIssue
  <2>1. told' \in [Key -> {"ok", "fault"}]
    BY <1>0, <1>2 DEF AlertIssue, TypeOK
  <2>2. issues' \in [Key -> 0..MaxIssues]
    <3>1. issues[cron.key] \in 0..MaxIssues /\ MaxIssues \in Nat
      BY <1>0, BoundAssumption DEF TypeOK
    <3>2. \/ issues' = issues
          \/ /\ issues[cron.key] < MaxIssues
             /\ issues' = [issues EXCEPT ![cron.key] = issues[cron.key] + 1]
      BY <1>0, <1>2 DEF AlertIssue, TypeOK
    <3>3. issues[cron.key] < MaxIssues => issues[cron.key] + 1 \in 0..MaxIssues
      BY <3>1
    <3> QED BY <3>2, <3>3 DEF TypeOK
  <2>3. cron' \in CronType
    BY <1>0, <1>2 DEF AlertIssue, CronType
  <2>4. turn' \in [Key -> BOOLEAN]
    BY <1>0, <1>2 DEF AlertIssue, TypeOK
  <2> QED BY <1>2, <2>1, <2>2, <2>3, <2>4 DEF AlertIssue, TypeOK, rows, env
<1>3. CASE AlertAlerted
  <2>1. cron.row.state \in {0, 1, 3, 4}
    BY <1>0 DEF LogRow
  <2>2. alerts' \in [Key -> AlertRow]
    <3>1. \/ alerts' = alerts
          \/ alerts' = [alerts EXCEPT ![cron.key] =
                            [alerts[cron.key] EXCEPT !.alerted = cron.row.state]]
      BY <1>0, <1>3 DEF AlertAlerted, TypeOK
    <3>2. [alerts[cron.key] EXCEPT !.alerted = cron.row.state] \in AlertRow
      <4>1. alerts[cron.key] \in AlertRow
        BY <1>0 DEF TypeOK
      <4>2. ASSUME NEW a \in AlertRow, NEW t \in {0, 1, 3, 4}
            PROVE  [a EXCEPT !.alerted = t] \in AlertRow
        BY DEF AlertRow
      <4> QED BY <2>1, <4>1, <4>2
    <3> QED BY <3>1, <3>2 DEF TypeOK
  <2>3. cron' \in CronType
    BY <1>0, <1>3 DEF AlertAlerted, CronType
  <2> QED BY <1>3, <2>2, <2>3 DEF AlertAlerted, TypeOK, env, hist
<1>4. CASE AlertClose
  <2>1. alerts' \in [Key -> AlertRow]
    BY <1>0, <1>4, ZenonT(40) DEF AlertClose, TypeOK, AlertRow
  <2>2. cron' \in CronType
    BY <1>0, <1>4, LoopType DEF AlertClose
  <2> QED BY <1>4, <2>1, <2>2 DEF AlertClose, TypeOK, env, hist
<1>5. CASE AlertsEnd
  <2>1. cron' \in CronType
    BY <1>0, <1>5, IdleTypes DEF AlertsEnd, ToAck, CronType
  <2> QED BY <1>5, <2>1 DEF AlertsEnd, TypeOK, rows, env, hist
<1>6. CASE AckIssue
  <2>1. cron' \in CronType
    BY <1>0, <1>6 DEF AckIssue, CronType
  <2> QED BY <1>6, <2>1 DEF AckIssue, TypeOK, rows, env, hist
<1>7. CASE AckClose
  <2>1. alerts' \in [Key -> AlertRow]
    BY <1>0, <1>7, ZenonT(40) DEF AckClose, TypeOK, AlertRow
  <2>2. cron' \in CronType
    BY <1>0, <1>7, LoopType DEF AckClose
  <2> QED BY <1>7, <2>1, <2>2 DEF AckClose, TypeOK, env, hist
<1>8. CASE AcksEnd
  BY <1>8, IdleTypes DEF AcksEnd, TypeOK, rows, env, hist
<1>9. ASSUME NEW k \in Key, AlertWait(k) PROVE TypeOK'
  <2>1. cron' \in CronType
    BY <1>9, LoopType DEF AlertWait
  <2> QED BY <1>9, <2>1 DEF AlertWait, TypeOK, rows, env, hist
<1>10. ASSUME NEW k \in Key, AckRead(k) PROVE TypeOK'
  <2>1. NewCache(k) \in [Device -> SUBSET Rule]
    BY LoopType
  <2>2. cron' \in CronType
    BY <1>0, <1>10, <2>1 DEF AckRead, CronType
  <2> QED BY <1>10, <2>2 DEF AckRead, TypeOK, rows, env, hist
<1>11. ASSUME NEW k \in Key, AlertRead(k) PROVE TypeOK'
  <2>1. NewCache(k) \in [Device -> SUBSET Rule]
    BY LoopType
  <2>2. LastRow(k) \in LogRow /\ Len(log[k]) \in Nat
    <3>1. HasRow(k)
      BY <1>11 DEF AlertRead, IsRuleValid, RowFound
    <3> QED BY <3>1, LogFacts
  <2>3. ASSUME NEW row \in LogRow, NEW a \in BOOLEAN, NEW b \in BOOLEAN,
               NEW c \in BOOLEAN
        PROVE  [cron EXCEPT !.pc = "details", !.key = k, !.id = Len(log[k]),
                   !.row = row, !.upd = a, !.acc = b, !.iss = c,
                   !.cache = NewCache(k)] \in CronType
    BY <1>0, <2>1, <2>2 DEF CronType
  <2>4. ASSUME NEW n \in Nat, NEW b \in BOOLEAN
        PROVE  [LastRow(k) EXCEPT !.count = n, !.cool = b] \in LogRow
    BY <2>2 DEF LogRow
  <2>5. PICK n \in Nat, b0 \in BOOLEAN, a \in BOOLEAN, b \in BOOLEAN, c \in BOOLEAN :
          cron' = [cron EXCEPT !.pc = "details", !.key = k, !.id = Len(log[k]),
                      !.row = [LastRow(k) EXCEPT !.count = n, !.cool = b0],
                      !.upd = a, !.acc = b, !.iss = c, !.cache = NewCache(k)]
    <3> DEFINE row  == LastRow(k)
               n    == Tally(row, Extra[k[2]])
               cool == HasGap(Extra[k[2]]) \/ row.cool
               upd  == Rewrites(k, row)
               acc  == Closes(k, row)
               iss  == Issues(k, row)
    <3>1. n \in Nat
      BY <2>2 DEF Tally, LogRow
    <3>2. cool \in BOOLEAN /\ upd \in BOOLEAN /\ acc \in BOOLEAN /\ iss \in BOOLEAN
      BY DEF Rewrites, Closes, Issues
    <3>3. cron' = [cron EXCEPT !.pc = "details", !.key = k, !.id = Len(log[k]),
                      !.row = [LastRow(k) EXCEPT !.count = n, !.cool = cool],
                      !.upd = upd, !.acc = acc, !.iss = iss, !.cache = NewCache(k)]
      BY <1>11, Zenon DEF AlertRead
    <3> HIDE DEF n, cool, upd, acc, iss
    <3> QED BY <3>1, <3>2, <3>3, ZenonT(40)
  <2>6. cron' \in CronType
    BY <2>3, <2>4, <2>5, ZenonT(40)
  <2> QED BY <1>11, <2>6 DEF AlertRead, TypeOK, rows, env, hist
<1> QED BY <1>1, <1>2, <1>3, <1>4, <1>5, <1>6, <1>7, <1>8, <1>9, <1>10, <1>11

LEMMA EnvironmentType ==
    ASSUME TypeOK, Environment
    PROVE  TypeOK'
<1>0. ASSUME Event PROVE budget' \in 0..MaxEvents
  BY <1>0, BoundAssumption DEF Event, TypeOK
<1>1. ASSUME NEW k \in Key, FaultChange(k) PROVE TypeOK'
  <2>1. fault' \in [Key -> 0..MaxFaults]
    BY <1>1, BoundAssumption DEF FaultChange, TypeOK
  <2> QED BY <1>0, <1>1, <2>1 DEF FaultChange, TypeOK, rows, hist
<1>2. ASSUME NEW k \in Key, AckAlert(k) PROVE TypeOK'
  <2>1. alerts' \in [Key -> AlertRow]
    <3>1. 2 \in -1..4
      OBVIOUS
    <3> QED BY <1>2, <3>1, AlertRowUpdate DEF AckAlert
  <2> QED BY <1>0, <1>2, <2>1 DEF AckAlert, Operation, TypeOK, hist
<1>3. ASSUME NEW k \in Key, UnackAlert(k) PROVE TypeOK'
  <2>1. alerts' \in [Key -> AlertRow]
    <3>1. alerts[k].alerted \in -1..4
      BY DEF TypeOK, AlertRow
    <3>2. alerts' = [alerts EXCEPT ![k] = Opened(@, alerts[k].alerted)]
      BY <1>3 DEF UnackAlert, TypeOK
    <3> QED BY <3>1, <3>2, AlertRowUpdate
  <2> QED BY <1>0, <1>3, <2>1 DEF UnackAlert, Operation, TypeOK, hist
<1>4. ASSUME NEW k \in Key, NEW op, NEW s \in 1..2, ApiSetState(k, op, s)
      PROVE  TypeOK'
  <2>1. alerts' \in [Key -> AlertRow]
    <3>1. s \in -1..4
      OBVIOUS
    <3> QED BY <1>4, <3>1, AlertRowUpdate DEF ApiSetState
  <2> QED BY <1>0, <1>4, <2>1 DEF ApiSetState, Operation, TypeOK, hist
<1>5. ASSUME NEW k \in Key, PurgeLog(k) PROVE TypeOK'
  <2>1. purged' \in [Key -> Nat]
    <3>1. PICK i \in (purged[k] + 1)..Len(log[k]) : purged' = [purged EXCEPT ![k] = i]
      BY <1>5 DEF PurgeLog
    <3>2. i \in Nat
      BY LogFacts
    <3> QED BY <3>1, <3>2 DEF TypeOK
  <2> QED BY <1>0, <1>5, <2>1 DEF PurgeLog, Operation, TypeOK, rows, hist
<1>6. ASSUME NEW k \in Key, ChangeContacts(k) PROVE TypeOK'
  BY <1>0, <1>6, SMTT(30) DEF ChangeContacts, Operation, TypeOK, rows, hist
<1>7. ASSUME NEW r \in Rule, ToggleRule(r) PROVE TypeOK'
  BY <1>0, <1>7 DEF ToggleRule, Operation, TypeOK, rows, hist
<1>8. ASSUME NEW d \in Device, NEW f \in Flag, ToggleFlag(d, f) PROVE TypeOK'
  <2>1. flags' \in [Device -> SUBSET Flag]
    BY <1>8 DEF ToggleFlag, TypeOK
  <2> QED BY <1>0, <1>8, <2>1 DEF ToggleFlag, Operation, TypeOK, rows, hist
<1>9. ASSUME NEW d \in Device, DeleteDevice(d) PROVE TypeOK'
  <2>1. flags' \in [Device -> SUBSET Flag]
    BY <1>9 DEF DeleteDevice, TypeOK, Flag
  <2>2. alerts' \in [Key -> AlertRow]
    BY <1>9, IdleTypes DEF DeleteDevice, TypeOK
  <2>3. purged' \in [Key -> Nat]
    BY <1>9, LogFacts DEF DeleteDevice, TypeOK
  <2>4. fault' \in [Key -> 0..MaxFaults]
    BY <1>9, BoundAssumption DEF DeleteDevice, TypeOK
  <2> QED BY <1>0, <1>9, <2>1, <2>2, <2>3, <2>4
             DEF DeleteDevice, Operation, TypeOK, hist
<1>10. ASSUME NEW d \in Device, CrashPoller(d) PROVE TypeOK'
  BY <1>0, <1>10, IdleTypes DEF CrashPoller, TypeOK, rows, hist
<1>11. CASE CrashCron
  BY <1>0, <1>11, IdleTypes DEF CrashCron, TypeOK, rows, hist
<1>12. 1 \in 1..2 /\ 2 \in 1..2
  OBVIOUS
<1> QED BY <1>1, <1>2, <1>3, <1>4, <1>5, <1>6, <1>7, <1>8, <1>9, <1>10,
           <1>11, <1>12 DEF Environment

LEMMA TimeType ==
    ASSUME TypeOK, NEW k \in Key, NEW t, Elapse(k, t)
    PROVE  TypeOK'
<1>1. ASSUME NEW row \in LogRow PROVE Over(row, t) \in LogRow
  BY DEF Over, LogRow
<1>2. log' \in [Key -> Seq(LogRow)]
  <2> DEFINE new == [i \in DOMAIN log[k] |-> Over(log[k][i], t)]
  <2>1. Len(log[k]) \in Nat /\ DOMAIN log[k] = 1..Len(log[k])
        /\ \A i \in 1..Len(log[k]) : log[k][i] \in LogRow
    BY LogFacts
  <2>2. new \in [1..Len(log[k]) -> LogRow]
    BY <1>1, <2>1
  <2>3. new \in Seq(LogRow)
    <3> HIDE DEF new
    <3> QED BY <2>1, <2>2, SeqDef
  <2>4. log' = [log EXCEPT ![k] = new]
    BY DEF Elapse
  <2> HIDE DEF new
  <2> QED BY <2>3, <2>4 DEF TypeOK
<1>3. poller' \in [Device -> PollerType]
  <2>1. k[1] \in Device
    BY KeyFacts
  <2>2. Over(poller[k[1]].row, t) \in LogRow
    BY <1>1, <2>1 DEF TypeOK, PollerType
  <2>3. poller' = poller \/ poller' = [poller EXCEPT ![k[1]] =
                                [poller[k[1]] EXCEPT !.row = Over(poller[k[1]].row, t)]]
    BY <2>1 DEF Elapse, TypeOK
  <2>4. [poller[k[1]] EXCEPT !.row = Over(poller[k[1]].row, t)] \in PollerType
    <3>1. poller[k[1]] \in PollerType
      BY <2>1 DEF TypeOK
    <3>2. ASSUME NEW p \in PollerType, NEW row \in LogRow
          PROVE  [p EXCEPT !.row = row] \in PollerType
      BY DEF PollerType
    <3> QED BY <2>2, <3>1, <3>2
  <2> QED BY <2>3, <2>4 DEF TypeOK
<1>4. cron' \in CronType
  <2>1. Over(cron.row, t) \in LogRow
    BY <1>1 DEF TypeOK, CronType
  <2> QED BY <2>1 DEF Elapse, TypeOK, CronType
<1> QED BY <1>2, <1>3, <1>4 DEF Elapse, TypeOK, env, hist

LEMMA TypeStep ==
    ASSUME TypeOK, [Next]_vars
    PROVE  TypeOK'
<1>1. CASE \E d \in Device : Poll(d)
  BY <1>1, PollType
<1>2. CASE Cron
  BY <1>2, FollowUpType, AlertType DEF Cron
<1>3. CASE Environment
  BY <1>3, EnvironmentType
<1>4. CASE Time
  BY <1>4, TimeType DEF Time
<1>5. CASE UNCHANGED vars
  BY <1>5 DEF vars, rows, env, hist, TypeOK
<1> QED BY <1>1, <1>2, <1>3, <1>4, <1>5 DEF Next

\* Every variable keeps its type, whatever poller.php, alerts.php, the web
\* interface, the API, daily.php and crashes do to the two tables.
THEOREM TypeCorrect == Spec => []TypeOK
<1>1. Init => TypeOK
  BY TypeInit
<1>2. TypeOK /\ [Next]_vars => TypeOK'
  BY TypeStep
<1> QED BY <1>1, <1>2, PTL DEF Spec

-----------------------------------------------------------------------------
(***************************************************************************)
(* A recovery that RunAlerts decides to send is described.  The argument:  *)
(* `alerted` becomes other than 0 only after a row of that kind is logged, *)
(* no step takes a row or its state away (daily.php and delete_device do,  *)
(* and are assumed away), and a recovery is decided on only where alerted  *)
(* is other than 0 while the latest row is a recovery.                     *)
(***************************************************************************)
Kept(k) == \A i \in DOMAIN log[k] :
              i \in DOMAIN log'[k] /\ log'[k][i].state = log[k][i].state

Logged(k) == \E i \in DOMAIN log[k] : log[k][i].state # 0
LoggedBefore(k, n) == \E i \in DOMAIN log[k] : i < n /\ log[k][i].state # 0

Inside == {"flog", "fset", "details", "issue", "alerted"}
RecoveryInv ==
    /\ \A k \in Key : purged[k] = 0
    /\ \A d \in Device : "gone" \notin flags[d]
    /\ \A k \in Key : alerts[k].alerted # 0 => Logged(k)
    /\ cron.pc = "flog" => cron.row.state # 0
    /\ cron.pc = "fset" => Logged(cron.key)
    /\ cron.pc \in {"details", "issue", "alerted"} =>
           (cron.row.state # 0 => Logged(cron.key))
    /\ cron.pc \in {"details", "issue"} =>
           (cron.iss /\ cron.row.state = 0 => LoggedBefore(cron.key, cron.id))

LEMMA AppendKeeps ==
    ASSUME TypeOK, NEW k \in Key, NEW row \in LogRow, NEW q \in Key,
           log' = [log EXCEPT ![k] = Append(@, row)]
    PROVE  Kept(q)
<1>1. log[k] \in Seq(LogRow)
  BY DEF TypeOK
<1>2. log'[q] = IF q = k THEN Append(log[k], row) ELSE log[q]
  BY DEF TypeOK
<1> QED BY <1>1, <1>2 DEF Kept

LEMMA WriteKeeps ==
    ASSUME TypeOK, NEW k \in Key, NEW id \in Nat, NEW row \in LogRow,
           NEW q \in Key, WriteDetails(k, id, row)
    PROVE  Kept(q)
<1> DEFINE old == log[k]
           new == [old EXCEPT ![id].n = row.n, ![id].to = row.to,
                              ![id].count = row.count, ![id].cool = row.cool]
<1>1. log' = log \/ log' = [log EXCEPT ![k] = new]
  BY ZenonT(40) DEF WriteDetails, TypeOK
<1>2. DOMAIN new = DOMAIN old
  OBVIOUS
<1>3. \A i \in DOMAIN old : new[i].state = old[i].state
  <2>1. \A i \in DOMAIN old : old[i] \in LogRow
    BY LogFacts
  <2> QED BY <2>1 DEF LogRow
<1> HIDE DEF new
<1>4. log'[q] = IF q = k /\ log' # log THEN new ELSE log[q]
  BY <1>1 DEF TypeOK
<1> QED BY <1>2, <1>3, <1>4 DEF Kept

LEMMA ElapseKeeps ==
    ASSUME TypeOK, NEW k \in Key, NEW t, NEW q \in Key, Elapse(k, t)
    PROVE  Kept(q)
<1> DEFINE new == [i \in DOMAIN log[k] |-> Over(log[k][i], t)]
<1>1. log' = [log EXCEPT ![k] = new]
  BY DEF Elapse
<1>2. \A i \in DOMAIN log[k] : new[i].state = log[k][i].state
  <2>1. \A i \in DOMAIN log[k] : log[k][i] \in LogRow
    BY LogFacts
  <2> QED BY <2>1 DEF Over, LogRow
<1>3. DOMAIN new = DOMAIN log[k]
  OBVIOUS
<1> HIDE DEF new
<1>4. log'[q] = IF q = k THEN new ELSE log[q]
  BY <1>1 DEF TypeOK
<1> QED BY <1>2, <1>3, <1>4 DEF Kept

\* What a logged row stands for stays: rows are only appended, and what is
\* rewritten in one is its details, never its state.
LEMMA LogKeeps ==
    ASSUME TypeOK, [Next]_vars, NEW q \in Key
    PROVE  Kept(q)
<1>0. ASSUME log' = log PROVE Kept(q)
  BY <1>0 DEF Kept
<1>1. ASSUME NEW d \in Device, Poll(d) PROVE Kept(q)
  <2>0. PollKey(d) \in Key /\ poller[d] \in PollerType
    BY DEF TypeOK, PollKey, PollerType, Key
  <2>1. CASE RefreshWrite(d)
    <3> DEFINE k   == PollKey(d)
               row == [poller[d].row EXCEPT !.n = poller[d].n, !.to = people[k]]
    <3>1. row \in LogRow /\ poller[d].id \in Nat
      BY <2>0 DEF LogRow, PollerType, TypeOK
    <3>2. WriteDetails(k, poller[d].id, row)
      BY <2>1 DEF RefreshWrite
    <3> HIDE DEF row, k
    <3>3. k \in Key
      BY <2>0 DEF k
    <3> QED BY <3>1, <3>2, <3>3, WriteKeeps
  <2>2. CASE RuleLog(d)
    <3> DEFINE k   == PollKey(d)
               row == IF poller[d].raise THEN NewRow(1, poller[d].n, people[k], k[2])
                                         ELSE NewRow(0, 0, 0, k[2])
    <3>1. row \in LogRow
      BY <2>0, NewRowType, KeyFacts DEF PollerType, TypeOK
    <3>2. log' = [log EXCEPT ![k] = Append(@, row)]
      BY <2>2 DEF RuleLog
    <3> HIDE DEF row, k
    <3>3. k \in Key
      BY <2>0 DEF k
    <3> QED BY <3>1, <3>2, <3>3, AppendKeeps
  <2>3. CASE ~RefreshWrite(d) /\ ~RuleLog(d)
    BY <1>0, <1>1, <2>3 DEF Poll, RunRules, CheckRule, RefreshRead, RuleSet,
                            RulesEnd, rows
  <2> QED BY <2>1, <2>2, <2>3
<1>2. CASE Cron
  <2>1. CASE FollowUpLog
    <3> DEFINE row == [cron.row EXCEPT !.early = Extra[cron.key[2]].delay]
    <3>1. cron.key \in Key /\ cron.row \in LogRow
      BY DEF TypeOK, CronType
    <3>2. row \in LogRow
      BY <3>1, KeyFacts, RuleFacts DEF LogRow
    <3>3. log' = [log EXCEPT ![cron.key] = Append(@, row)]
      BY <2>1 DEF FollowUpLog
    <3> HIDE DEF row
    <3> QED BY <3>1, <3>2, <3>3, AppendKeeps
  <2>2. CASE AlertDetails
    <3>1. cron.key \in Key /\ cron.row \in LogRow /\ cron.id \in Nat
      BY DEF TypeOK, CronType
    <3> QED BY <1>0, <2>2, <3>1, WriteKeeps DEF AlertDetails
  <2>3. CASE ~FollowUpLog /\ ~AlertDetails
    <3>1. log' = log
      BY <1>2, <2>3 DEF Cron, CronStart, StaleRule, FollowUpRead, FollowUpSet,
             FollowUpEnd, AlertWait, AlertRead, AlertIssue, AlertAlerted,
             AlertClose, AlertsEnd, AckRead, AckIssue, AckClose, AcksEnd, rows
    <3> QED BY <1>0, <3>1
  <2> QED BY <2>1, <2>2, <2>3
<1>3. CASE Environment
  BY <1>0, <1>3 DEF Environment, FaultChange, AckAlert, UnackAlert, ApiSetState,
         PurgeLog, ChangeContacts, ToggleRule, ToggleFlag, DeleteDevice,
         CrashPoller, CrashCron, rows
<1>4. CASE Time
  BY <1>4, ElapseKeeps DEF Time
<1>5. CASE UNCHANGED vars
  BY <1>0, <1>5 DEF vars, rows
<1> QED BY <1>1, <1>2, <1>3, <1>4, <1>5 DEF Next

LEMMA KeptLogged ==
    ASSUME NEW k \in Key, Kept(k), NEW n
    PROVE  /\ Logged(k) => Logged(k)'
           /\ LoggedBefore(k, n) => LoggedBefore(k, n)'
BY DEF Kept, Logged, LoggedBefore

\* A step that keeps the rows and remembers nothing new.
LEMMA RecoveryFrame ==
    ASSUME TypeOK, RecoveryInv, \A k \in Key : Kept(k),
           purged' = purged,
           \A d \in Device : "gone" \notin flags'[d],
           \A k \in Key : alerts'[k].alerted \in {0, alerts[k].alerted},
           \/ cron'.pc \notin Inside
           \/ /\ cron'.pc = cron.pc /\ cron'.key = cron.key
              /\ cron'.id = cron.id /\ cron'.iss = cron.iss
              /\ cron'.row.state = cron.row.state
    PROVE  RecoveryInv'
<1>1. PICK k \in Key, n \in Nat : k = cron.key /\ n = cron.id
  BY DEF TypeOK, CronType
<1>2. \A q \in Key : Logged(q) => Logged(q)'
  BY KeptLogged
<1>3. LoggedBefore(k, n) => LoggedBefore(k, n)'
  BY KeptLogged
<1>4. (\A q \in Key : alerts[q].alerted # 0 => Logged(q))'
  BY <1>2 DEF RecoveryInv
<1>5. CASE cron'.pc \notin Inside
  BY <1>4, <1>5 DEF RecoveryInv, Inside
<1>6. CASE /\ cron'.pc = cron.pc /\ cron'.key = cron.key
           /\ cron'.id = cron.id /\ cron'.iss = cron.iss
           /\ cron'.row.state = cron.row.state
  <2>1. /\ cron.pc = "fset" => Logged(k)
        /\ cron.pc \in {"details", "issue", "alerted"} =>
               (cron.row.state # 0 => Logged(k))
        /\ cron.pc \in {"details", "issue"} =>
               (cron.iss /\ cron.row.state = 0 => LoggedBefore(k, n))
    BY <1>1 DEF RecoveryInv
  <2>2. /\ cron'.pc = "fset" => Logged(k)'
        /\ cron'.pc \in {"details", "issue", "alerted"} =>
               (cron'.row.state # 0 => Logged(k)')
        /\ cron'.pc \in {"details", "issue"} =>
               (cron'.iss /\ cron'.row.state = 0 => LoggedBefore(k, n)')
    BY <1>2, <1>3, <1>6, <2>1
  <2>3. cron'.key = k /\ cron'.id = n
    BY <1>1, <1>6
  <2>4. /\ Logged(k)' => Logged(cron.key)'
        /\ LoggedBefore(k, n)' => LoggedBefore(cron.key, cron.id)'
    BY <2>3 DEF Logged, LoggedBefore
  <2>5. cron'.pc = "flog" => cron'.row.state # 0
    BY <1>6 DEF RecoveryInv
  <2> QED BY <1>4, <2>2, <2>4, <2>5 DEF RecoveryInv
<1> QED BY <1>5, <1>6

LEMMA AlertedFrame ==
    ASSUME TypeOK, NEW k \in Key,
           \/ alerts' = alerts
           \/ alerts' = [alerts EXCEPT ![k] = NoAlert]
           \/ alerts' = [alerts EXCEPT ![k].open = FALSE]
           \/ \E s \in -1..4 : \/ alerts' = [alerts EXCEPT ![k].state = s]
                               \/ alerts' = [alerts EXCEPT ![k] = Opened(@, s)]
    PROVE  \A q \in Key : alerts'[q].alerted \in {0, alerts[q].alerted}
<1>1. alerts \in [Key -> AlertRow]
  BY DEF TypeOK
<1>2. ASSUME NEW s \in -1..4, alerts' = [alerts EXCEPT ![k].state = s]
      PROVE  \A q \in Key : alerts'[q].alerted \in {0, alerts[q].alerted}
  BY <1>1, <1>2 DEF AlertRow
<1>3. ASSUME NEW s \in -1..4,
             alerts' = [alerts EXCEPT ![k] = Opened(@, s)]
      PROVE  \A q \in Key : alerts'[q].alerted \in {0, alerts[q].alerted}
  BY <1>1, <1>3 DEF AlertRow, Opened
<1>4. CASE alerts' = [alerts EXCEPT ![k] = NoAlert]
  BY <1>1, <1>4 DEF NoAlert
<1>5. CASE alerts' = [alerts EXCEPT ![k].open = FALSE]
  BY <1>1, <1>5 DEF AlertRow
<1> QED BY <1>2, <1>3, <1>4, <1>5

LEMMA PollRecovery ==
    ASSUME TypeOK, RecoveryInv, \A k \in Key : Kept(k), NEW d \in Device, Poll(d)
    PROVE  RecoveryInv'
<1>1. \A k \in Key : alerts'[k].alerted \in {0, alerts[k].alerted}
  <2>1. CASE alerts' = alerts
    BY <2>1
  <2>2. CASE RuleSet(d)
    <3>1. PollKey(d) \in Key
      BY DEF TypeOK, PollKey, PollerType, Key
    <3>2. PICK s \in -1..4 : alerts' = [alerts EXCEPT ![PollKey(d)] = Opened(@, s)]
      <4> DEFINE t == IF poller[d].raise THEN 1 ELSE 0
      <4>1. t \in -1..4
        OBVIOUS
      <4>2. alerts' = [alerts EXCEPT ![PollKey(d)] = Opened(@, t)]
        BY <2>2 DEF RuleSet
      <4> HIDE DEF t
      <4> QED BY <4>1, <4>2
    <3> QED BY <3>1, <3>2, AlertedFrame
  <2> QED BY <2>1, <2>2 DEF Poll, RunRules, CheckRule, RefreshRead,
             RefreshWrite, RuleLog, RulesEnd, rows
<1>2. purged' = purged /\ flags' = flags /\ cron' = cron
  BY DEF Poll, RunRules, CheckRule, RefreshRead, RefreshWrite, RuleLog, RuleSet,
         RulesEnd, env
<1>3. \A e \in Device : "gone" \notin flags'[e]
  BY <1>2 DEF RecoveryInv
<1> QED BY <1>1, <1>2, <1>3, RecoveryFrame

LEMMA EnvironmentRecovery ==
    ASSUME Ops \intersect {"gone", "purge"} = {},
           TypeOK, RecoveryInv, \A k \in Key : Kept(k), Environment
    PROVE  RecoveryInv'
<1>1. \A k \in Key : alerts'[k].alerted \in {0, alerts[k].alerted}
  <2>1. CASE alerts' = alerts
    BY <2>1
  <2>2. CASE \E k \in Key : AckAlert(k) \/ UnackAlert(k)
                            \/ ApiSetState(k, "apiack", 2)
                            \/ ApiSetState(k, "apiunmute", 1)
    <3>1. PICK k \in Key, s \in -1..4 :
              \/ alerts' = [alerts EXCEPT ![k].state = s]
              \/ alerts' = [alerts EXCEPT ![k] = Opened(@, s)]
      <4>1. \A k \in Key : alerts[k].alerted \in -1..4
        BY DEF TypeOK, AlertRow
      <4>2. \A k \in Key : UnackAlert(k) =>
                alerts' = [alerts EXCEPT ![k] = Opened(@, alerts[k].alerted)]
        BY DEF UnackAlert, TypeOK
      <4> QED BY <2>2, <4>1, <4>2 DEF AckAlert, ApiSetState
    <3> QED BY <3>1, AlertedFrame
  <2>3. CASE ~ \E k \in Key : AckAlert(k) \/ UnackAlert(k)
                              \/ ApiSetState(k, "apiack", 2)
                              \/ ApiSetState(k, "apiunmute", 1)
    BY <2>1, <2>3 DEF Environment, FaultChange, PurgeLog, ChangeContacts,
           ToggleRule, ToggleFlag, DeleteDevice, Operation, CrashPoller,
           CrashCron, rows
  <2> QED BY <2>2, <2>3
<1>2. purged' = purged
  BY DEF Environment, FaultChange, AckAlert, UnackAlert, ApiSetState, PurgeLog,
         ChangeContacts, ToggleRule, ToggleFlag, DeleteDevice, Operation,
         CrashPoller, CrashCron
<1>3. \A d \in Device : "gone" \notin flags'[d]
  <2>1. CASE flags' = flags
    BY <2>1 DEF RecoveryInv
  <2>2. ASSUME NEW e \in Device, NEW f \in Flag, ToggleFlag(e, f)
        PROVE  \A d \in Device : "gone" \notin flags'[d]
    BY <2>2 DEF ToggleFlag, RecoveryInv, TypeOK
  <2> QED BY <2>1, <2>2 DEF Environment, FaultChange, AckAlert, UnackAlert,
             ApiSetState, PurgeLog, ChangeContacts, ToggleRule, DeleteDevice,
             Operation, CrashPoller, CrashCron
<1>4. cron' = cron \/ cron' = IdleCron
  BY DEF Environment, FaultChange, AckAlert, UnackAlert, ApiSetState, PurgeLog,
         ChangeContacts, ToggleRule, ToggleFlag, DeleteDevice, Operation,
         CrashPoller, CrashCron
<1>5. IdleCron.pc \notin Inside
  BY DEF IdleCron, Inside
<1> QED BY <1>1, <1>2, <1>3, <1>4, <1>5, RecoveryFrame

LEMMA TimeRecovery ==
    ASSUME TypeOK, RecoveryInv, \A k \in Key : Kept(k), NEW q \in Key, NEW t,
           Elapse(q, t)
    PROVE  RecoveryInv'
<1>1. cron \in CronType /\ cron.row \in LogRow
  BY DEF TypeOK, CronType
<1>2. Over(cron.row, t).state = cron.row.state
  BY <1>1 DEF Over, LogRow
<1>3. /\ cron'.pc = cron.pc /\ cron'.key = cron.key /\ cron'.id = cron.id
      /\ cron'.iss = cron.iss /\ cron'.row.state = cron.row.state
  BY <1>1, <1>2 DEF Elapse, CronType
<1>4. alerts' = alerts /\ purged' = purged /\ flags' = flags
  BY DEF Elapse, env
<1>5. \A d \in Device : "gone" \notin flags'[d]
  BY <1>4 DEF RecoveryInv
<1>6. \A k \in Key : alerts'[k].alerted \in {0, alerts[k].alerted}
  BY <1>4
<1> QED BY <1>3, <1>4, <1>5, <1>6, RecoveryFrame

LEMMA CronRecovery ==
    ASSUME TypeOK, RecoveryInv, \A k \in Key : Kept(k), Cron
    PROVE  RecoveryInv'
<1>0. cron \in CronType /\ cron.key \in Key /\ cron.row \in LogRow /\ cron.id \in Nat
  BY DEF TypeOK, CronType
<1>1. purged' = purged /\ flags' = flags
  BY DEF Cron, CronStart, StaleRule, FollowUpRead, FollowUpLog, FollowUpSet,
         FollowUpEnd, AlertWait, AlertRead, AlertDetails, AlertIssue,
         AlertAlerted, AlertClose, AlertsEnd, AckRead, AckIssue, AckClose,
         AcksEnd, env
<1>2. \A d \in Device : "gone" \notin flags'[d]
  BY <1>1 DEF RecoveryInv
<1>3. ASSUME NEW pc \in {"follow", "alerts", "acks"}, NEW k \in Key, NEW c
      PROVE  /\ Loop(pc, k).pc \notin Inside
             /\ [Loop(pc, k) EXCEPT !.cache = c].pc \notin Inside
             /\ [IdleCron EXCEPT !.pc = pc, !.todo = c].pc \notin Inside
             /\ IdleCron.pc \notin Inside
  BY DEF Loop, IdleCron, Inside
<1>4. CASE CronStart
  <2>1. alerts' = alerts
    <3>1. \A k \in Key : "gone" \notin flags[k[1]]
      BY KeyFacts DEF RecoveryInv
    <3>2. alerts' = [k \in Key |-> ClearStale(k)]
      BY <1>4 DEF CronStart
    <3>3. alerts' = [k \in Key |-> alerts[k]]
      BY <3>1, <3>2 DEF ClearStale
    <3> QED BY <3>3 DEF TypeOK
  <2>2. cron'.pc \notin Inside
    BY <1>0, <1>4 DEF CronStart, CronType, Inside
  <2> QED BY <1>1, <1>2, <2>1, <2>2, RecoveryFrame
<1>5. ASSUME NEW k \in Key,
             StaleRule(k) \/ AlertWait(k) \/ AckRead(k)
      PROVE  RecoveryInv'
  <2>1. \A q \in Key : alerts'[q].alerted \in {0, alerts[q].alerted}
    BY <1>5, AlertedFrame DEF StaleRule, AlertWait, AckRead, rows
  <2>2. cron'.pc \notin Inside
    <3>1. CASE StaleRule(k)
      BY <1>3, <3>1 DEF StaleRule
    <3>2. CASE AlertWait(k)
      BY <1>3, <3>2 DEF AlertWait
    <3>3. CASE AckRead(k)
      BY <1>0, <3>3 DEF AckRead, CronType, Inside
    <3> QED BY <1>5, <3>1, <3>2, <3>3
  <2> QED BY <1>1, <1>2, <2>1, <2>2, RecoveryFrame
<1>6. CASE \/ FollowUpEnd \/ AlertsEnd \/ AcksEnd \/ AckIssue
           \/ AlertClose \/ AckClose
  <2>1. \A q \in Key : alerts'[q].alerted \in {0, alerts[q].alerted}
    BY <1>0, <1>6, AlertedFrame DEF FollowUpEnd, AlertsEnd, AcksEnd, AckIssue,
                                    AlertClose, AckClose, rows
  <2>2. cron'.pc \notin Inside
    <3>1. CASE FollowUpEnd \/ AlertsEnd \/ AcksEnd
      <4>1. CASE FollowUpEnd
        BY <4>1 DEF FollowUpEnd, IdleCron, Inside
      <4>2. CASE AlertsEnd
        BY <4>2 DEF AlertsEnd, IdleCron, Inside
      <4>3. CASE AcksEnd
        BY <4>3 DEF AcksEnd, IdleCron, Inside
      <4> QED BY <3>1, <4>1, <4>2, <4>3
    <3>2. CASE AckIssue
      BY <1>0, <3>2 DEF AckIssue, CronType, Inside
    <3>3. CASE AlertClose \/ AckClose
      BY <1>0, <1>3, <3>3 DEF AlertClose, AckClose
    <3> QED BY <1>6, <3>1, <3>2, <3>3
  <2> QED BY <1>1, <1>2, <2>1, <2>2, RecoveryFrame
<1>7. \A q \in Key : Logged(q) => Logged(q)'
  BY KeptLogged
<1>8. ASSUME alerts' = alerts
      PROVE  (\A q \in Key : alerts[q].alerted # 0 => Logged(q))'
  BY <1>7, <1>8 DEF RecoveryInv
<1>9. ASSUME NEW k \in Key, FollowUpRead(k) PROVE RecoveryInv'
  <2>1. CASE cron'.pc = "flog"
    <3>1. cron'.row.state # 0
      <4>1. HasRow(k)
        BY <1>9 DEF FollowUpRead, IsRuleValid, RowFound
      <4>2. LastRow(k) \in LogRow
        BY <4>1, LogFacts
      <4>3. [LastRow(k) EXCEPT
                !.state = IF fault[k] > LastRow(k).n THEN 3 ELSE 4,
                !.n = fault[k]].state # 0
        BY <4>2 DEF LogRow
      <4>4. cron'.pc = "flog" => cron'.row = [LastRow(k) EXCEPT
                !.state = IF fault[k] > LastRow(k).n THEN 3 ELSE 4,
                !.n = fault[k]]
        BY <1>0, <1>9 DEF FollowUpRead, Loop, IdleCron, CronType
      <4> QED BY <2>1, <4>3, <4>4
    <3> QED BY <1>1, <1>2, <1>8, <1>9, <2>1, <3>1 DEF FollowUpRead, RecoveryInv, rows
  <2>2. CASE cron'.pc # "flog"
    <3>1. cron'.pc \notin Inside
      <4>1. cron' = [Loop("follow", k) EXCEPT !.cache = NewCache(k)]
        BY <1>0, <1>9, <2>2 DEF FollowUpRead, CronType
      <4> QED BY <1>3, <4>1
    <3>2. \A q \in Key : alerts'[q].alerted \in {0, alerts[q].alerted}
      BY <1>9 DEF FollowUpRead, rows
    <3> QED BY <1>1, <1>2, <3>1, <3>2, RecoveryFrame
  <2> QED BY <2>1, <2>2
<1>10. CASE FollowUpLog
  <2> DEFINE k   == cron.key
             row == [cron.row EXCEPT !.early = Extra[cron.key[2]].delay]
  <2>1. row.state # 0 /\ log[k] \in Seq(LogRow)
    BY <1>0, <1>10 DEF FollowUpLog, RecoveryInv, LogRow, TypeOK
  <2>2. log' = [log EXCEPT ![k] = Append(@, row)] /\ cron' = [cron EXCEPT !.pc = "fset"]
    BY <1>10 DEF FollowUpLog
  <2>3. log'[k] = Append(log[k], row)
    BY <1>0, <2>2 DEF TypeOK
  <2> HIDE DEF row
  <2>4. \E i \in DOMAIN log'[k] : log'[k][i].state # 0
    <3>1. Len(log[k]) + 1 \in DOMAIN log'[k] /\ log'[k][Len(log[k]) + 1] = row
      BY <2>1, <2>3
    <3> QED BY <2>1, <3>1
  <2>5. cron'.key = k /\ cron'.pc = "fset"
    BY <1>0, <2>2 DEF CronType
  <2>6. Logged(cron.key)'
    BY <2>4, <2>5 DEF Logged
  <2> QED BY <1>1, <1>2, <1>8, <1>10, <2>5, <2>6 DEF FollowUpLog, RecoveryInv
<1>11. CASE FollowUpSet
  <2>1. cron'.pc \notin Inside
    BY <1>0, <1>3, <1>11 DEF FollowUpSet
  <2>2. Logged(cron.key)
    BY <1>11 DEF FollowUpSet, RecoveryInv
  <2>3. \A q \in Key : q # cron.key => alerts'[q] = alerts[q]
    BY <1>11 DEF FollowUpSet, TypeOK
  <2>4. (\A q \in Key : alerts[q].alerted # 0 => Logged(q))'
    BY <1>7, <2>2, <2>3 DEF RecoveryInv
  <2> QED BY <1>1, <1>2, <2>1, <2>4 DEF RecoveryInv, Inside
<1>12. ASSUME NEW k \in Key, AlertRead(k) PROVE RecoveryInv'
  <2>1. HasRow(k)
    BY <1>12 DEF AlertRead, IsRuleValid, RowFound
  <2>2. LastRow(k) \in LogRow /\ Len(log[k]) \in 1..Len(log[k])
        /\ DOMAIN log[k] = 1..Len(log[k])
    BY <2>1, LogFacts
  <2>3. /\ cron'.pc = "details" /\ cron'.key = k /\ cron'.id = Len(log[k])
        /\ cron'.row.state = LastRow(k).state
        /\ cron'.iss /\ LastRow(k).state = 0 => alerts[k].alerted # 0
    <3>1. cron'.pc = "details" /\ cron'.key = k /\ cron'.id = Len(log[k])
      BY <1>0, <1>12 DEF AlertRead, CronType
    <3>2. cron'.row.state = LastRow(k).state
      BY <1>0, <1>12, <2>2 DEF AlertRead, CronType, LogRow
    <3>3. "gone" \notin flags[k[1]]
      BY KeyFacts DEF RecoveryInv
    <3>4. cron'.iss /\ LastRow(k).state = 0 => alerts[k].alerted # 0
      <4>1. cron'.iss = Issues(k, LastRow(k))
        BY <1>0, <1>12 DEF AlertRead, CronType
      <4>2. cron'.iss => Issues(k, LastRow(k))
        BY <4>1
      <4>3. LastRow(k).state = 0 => ~Again(LastRow(k), Extra[k[2]])
        BY DEF Again
      <4>4. Issues(k, LastRow(k)) /\ LastRow(k).state = 0 => ~Same(k, LastRow(k))
        BY <4>3 DEF Issues
      <4> QED BY <3>3, <4>2, <4>4 DEF Same
    <3> QED BY <3>1, <3>2, <3>4
  <2>4. log' = log /\ alerts' = alerts
    BY <1>12 DEF AlertRead, rows
  <2>5. LastRow(k).state # 0 => Logged(k)
    BY <2>2 DEF Logged, LastRow
  <2>6. LastRow(k).state = 0 /\ alerts[k].alerted # 0 => LoggedBefore(k, Len(log[k]))
    <3> SUFFICES ASSUME LastRow(k).state = 0, alerts[k].alerted # 0
                 PROVE  LoggedBefore(k, Len(log[k]))
      OBVIOUS
    <3>1. PICK i \in DOMAIN log[k] : log[k][i].state # 0
      BY DEF RecoveryInv, Logged
    <3>2. i # Len(log[k])
      BY <3>1 DEF LastRow
    <3>3. i < Len(log[k])
      BY <2>2, <3>2
    <3> QED BY <3>1, <3>3 DEF LoggedBefore
  <2>7. Logged(k) => Logged(cron.key)'
    BY <2>3, <2>4 DEF Logged
  <2>8. LoggedBefore(k, Len(log[k])) => LoggedBefore(cron.key, cron.id)'
    BY <2>3, <2>4 DEF LoggedBefore
  <2> QED BY <1>1, <1>2, <1>8, <2>3, <2>4, <2>5, <2>6, <2>7, <2>8 DEF RecoveryInv
<1>13. CASE AlertDetails \/ AlertIssue
  <2>1. PICK k \in Key, n \in Nat : k = cron.key /\ n = cron.id
    BY <1>0
  <2>2. /\ cron'.key = k /\ cron'.id = n /\ cron'.iss = cron.iss
        /\ cron'.row = cron.row
        /\ \/ cron.pc = "details" /\ cron'.pc = "issue"
           \/ cron.pc = "issue" /\ cron'.pc = "alerted"
    BY <1>0, <1>13, <2>1 DEF AlertDetails, AlertIssue, CronType
  <2>3. LoggedBefore(k, n) => LoggedBefore(k, n)'
    BY KeptLogged
  <2>4. /\ Logged(k)' => Logged(cron.key)'
        /\ LoggedBefore(k, n)' => LoggedBefore(cron.key, cron.id)'
    BY <2>2 DEF Logged, LoggedBefore
  <2>5. cron.row.state # 0 => Logged(cron.key)'
    BY <1>7, <2>1, <2>2, <2>4 DEF RecoveryInv
  <2>6. cron'.pc = "issue" => (cron.iss /\ cron.row.state = 0
                                 => LoggedBefore(cron.key, cron.id)')
    BY <2>1, <2>2, <2>3, <2>4 DEF RecoveryInv
  <2>7. alerts' = alerts
    BY <1>13 DEF AlertDetails, AlertIssue, rows
  <2> QED BY <1>1, <1>2, <1>8, <2>2, <2>5, <2>6, <2>7 DEF RecoveryInv
<1>14. CASE AlertAlerted
  <2>1. cron'.pc = "close"
    BY <1>0, <1>14 DEF AlertAlerted, CronType
  <2>2. cron.row.state # 0 => Logged(cron.key)
    BY <1>14 DEF AlertAlerted, RecoveryInv
  <2>3. \A q \in Key : \/ alerts'[q].alerted = alerts[q].alerted
                       \/ q = cron.key /\ alerts'[q].alerted = cron.row.state
    BY <1>14 DEF AlertAlerted, TypeOK, AlertRow
  <2>4. (\A q \in Key : alerts[q].alerted # 0 => Logged(q))'
    BY <1>7, <2>2, <2>3 DEF RecoveryInv
  <2> QED BY <1>1, <1>2, <2>1, <2>4 DEF RecoveryInv
<1> QED BY <1>4, <1>5, <1>6, <1>9, <1>10, <1>11, <1>12, <1>13, <1>14 DEF Cron

LEMMA RecoveryStep ==
    ASSUME Ops \intersect {"gone", "purge"} = {},
           TypeOK, RecoveryInv, [Next]_vars
    PROVE  RecoveryInv'
<1>1. \A k \in Key : Kept(k)
  BY LogKeeps
<1>2. CASE \E d \in Device : Poll(d)
  BY <1>1, <1>2, PollRecovery
<1>3. CASE Cron
  BY <1>1, <1>3, CronRecovery
<1>4. CASE Environment
  BY <1>1, <1>4, EnvironmentRecovery
<1>5. CASE Time
  BY <1>1, <1>5, TimeRecovery DEF Time
<1>6. CASE UNCHANGED vars
  BY <1>6 DEF vars, rows, env, hist, RecoveryInv, Logged, LoggedBefore
<1> QED BY <1>2, <1>3, <1>4, <1>5, <1>6 DEF Next

\* A recovery that RunAlerts sends is always described: DescribeAlert never
\* returns FALSE for it (alerts.php:501), provided that nobody deletes rows of
\* alert_log, as daily.php and delete_device do.
THEOREM RecoveryAlwaysDescribed ==
    ASSUME Ops \intersect {"gone", "purge"} = {}
    PROVE  Spec => []RecoveryDescribed
<1>1. Init => RecoveryInv
  BY DEF Init, RecoveryInv, IdleCron, NoAlert
<1>2. TypeOK /\ RecoveryInv /\ [Next]_vars => RecoveryInv'
  BY RecoveryStep
<1>3. TypeOK /\ RecoveryInv => RecoveryDescribed
  BY LogFacts DEF RecoveryInv, RecoveryDescribed, Described, LoggedBefore,
                  TypeOK, CronType
<1> QED BY <1>1, <1>2, <1>3, TypeCorrect, PTL DEF Spec

-----------------------------------------------------------------------------
(***************************************************************************)
(* What the contacts believe is remembered.  Whoever has heard of a fault  *)
(* hears of the recovery only if `alerted` stays other than 0 until then.  *)
(* The argument: nothing but the statement that follows a notice writes a  *)
(* 0 there, and it writes a 0 only after a recovery, which DescribeAlert   *)
(* did not swallow (RecoveryInv); no row is deleted, because every row of  *)
(* `alerts` has an event in the log, and all rules stay enabled.           *)
(***************************************************************************)
Undisturbed == Ops \intersect {"silent", "gone", "crash", "purge", "rule"} = {}

HasLog(k) == 1 \in DOMAIN log[k]
Noticing == {"details", "issue", "alerted"}
FaultInv ==
    /\ enabled = Rule
    /\ \A d \in Device : flags[d] \intersect {"silent", "gone"} = {}
    /\ \A d \in Device : cron.cache[d] \in {{}, Rule}
    /\ \A d \in Device : poller[d].pc = "set" => HasLog(PollKey(d))
    /\ \A k \in Key : alerts[k].open => alerts[k].state # -1
    /\ \A k \in Key : alerts[k].state # -1 => HasLog(k)
    /\ \A k \in cron.todo : alerts[k].state # -1
    /\ cron.pc \in Noticing => alerts[cron.key].state # -1
    /\ cron.pc = "alerted" /\ cron.iss /\ cron.row.state = 0 => told[cron.key] = "ok"
    /\ \A k \in Key : told[k] = "fault" =>
          \/ alerts[k].alerted # 0
          \/ /\ cron.pc = "alerted" /\ cron.key = k
             /\ cron.iss /\ cron.row.state # 0

LEMMA HasLogKept ==
    ASSUME NEW k \in Key, Kept(k), HasLog(k)
    PROVE  HasLog(k)'
BY DEF Kept, HasLog

\* alerts.php finds the rule of every row it has selected.
LEMMA EveryRuleValid ==
    ASSUME TypeOK, RecoveryInv, FaultInv, NEW k \in Key, HasLog(k)
    PROVE  IsRuleValid(k) /\ NewCache(k) = [cron.cache EXCEPT ![k[1]] = Rule]
<1>1. k[1] \in Device /\ k[2] \in Rule
  BY KeyFacts
<1>2. RowFound(k)
  <2>1. Len(log[k]) > 0 /\ purged[k] = 0
    BY LogFacts DEF HasLog, RecoveryInv
  <2> QED BY <1>1, <2>1 DEF RowFound, HasRow, FaultInv
<1>3. Cached(k[1]) = Rule
  BY <1>1 DEF FaultInv, Cached
<1> QED BY <1>1, <1>2, <1>3 DEF IsRuleValid, NewCache

\* What the statements that rewrite a row leave as it was.
NoRowLost ==
    \A q \in Key :
        /\ alerts[q].state # -1 => alerts'[q].state # -1
        /\ alerts'[q].state # -1 => alerts[q].state # -1 \/ HasLog(q)
        /\ alerts'[q].open => alerts'[q].state # -1
        /\ alerts'[q].alerted = alerts[q].alerted

LEMMA RowKept ==
    ASSUME TypeOK, FaultInv, NEW k \in Key, NEW s \in 0..4,
           \/ alerts' = alerts
           \/ alerts' = [alerts EXCEPT ![k].open = FALSE]
           \/ alerts' = [alerts EXCEPT ![k].state = s] /\ alerts[k].state # -1
           \/ /\ alerts' = [alerts EXCEPT ![k] = Opened(@, s)]
              /\ alerts[k].state # -1 \/ HasLog(k)
    PROVE  NoRowLost
<1>1. alerts \in [Key -> AlertRow]
  BY DEF TypeOK
<1>2. CASE alerts' = alerts
  BY <1>2 DEF FaultInv, NoRowLost
<1>3. CASE alerts' = [alerts EXCEPT ![k].open = FALSE]
  BY <1>1, <1>3 DEF FaultInv, NoRowLost, AlertRow
<1>4. CASE alerts' = [alerts EXCEPT ![k].state = s] /\ alerts[k].state # -1
  BY <1>1, <1>4 DEF FaultInv, NoRowLost, AlertRow
<1>5. CASE /\ alerts' = [alerts EXCEPT ![k] = Opened(@, s)]
           /\ alerts[k].state # -1 \/ HasLog(k)
  BY <1>1, <1>5 DEF FaultInv, NoRowLost, AlertRow, Opened
<1> QED BY <1>2, <1>3, <1>4, <1>5

\* A step that tells the contacts nothing and forgets nothing.
LEMMA FaultFrame ==
    ASSUME TypeOK, FaultInv, NoRowLost, \A k \in Key : Kept(k),
           enabled' = enabled, told' = told,
           \A d \in Device : flags'[d] \intersect {"silent", "gone"} = {},
           \A d \in Device : poller'[d].pc = "set" => HasLog(PollKey(d))',
           \A d \in Device : cron'.cache[d] \in {{}, Rule},
           \A k \in cron'.todo : k \in Key /\ alerts[k].state # -1,
           \/ cron'.pc \notin Noticing /\ cron.pc # "alerted"
           \/ /\ cron'.pc = cron.pc /\ cron'.key = cron.key
              /\ cron'.iss = cron.iss /\ cron'.row.state = cron.row.state
    PROVE  FaultInv'
<1>1. \A k \in Key : alerts'[k].state # -1 => HasLog(k)'
  BY HasLogKept DEF FaultInv, NoRowLost
<1>2. cron'.pc \in Noticing => alerts'[cron'.key].state # -1
  <2>1. cron.key \in Key
    BY DEF TypeOK, CronType
  <2> QED BY <2>1 DEF FaultInv, NoRowLost
<1>3. \A k \in Key : told'[k] = "fault" =>
          \/ alerts'[k].alerted # 0
          \/ /\ cron'.pc = "alerted" /\ cron'.key = k
             /\ cron'.iss /\ cron'.row.state # 0
  BY DEF FaultInv, NoRowLost
<1>4. /\ \A k \in Key : alerts'[k].open => alerts'[k].state # -1
      /\ \A k \in cron'.todo : alerts'[k].state # -1
  BY DEF NoRowLost
<1>5. cron'.pc = "alerted" /\ cron'.iss /\ cron'.row.state = 0
          => told'[cron'.key] = "ok"
  BY DEF FaultInv, Noticing
<1> QED BY <1>1, <1>2, <1>3, <1>4, <1>5 DEF FaultInv

LEMMA PollFault ==
    ASSUME TypeOK, FaultInv, \A k \in Key : Kept(k), NEW d \in Device, Poll(d)
    PROVE  FaultInv'
<1> DEFINE k == PollKey(d)
<1>0. k \in Key /\ poller[d] \in PollerType
  BY DEF TypeOK, PollKey, PollerType, Key
<1>1. NoRowLost
  <2>1. CASE alerts' = alerts
    BY <2>1 DEF FaultInv, NoRowLost
  <2>2. CASE RuleSet(d)
    <3>1. PICK s \in 0..4 : alerts' = [alerts EXCEPT ![k] = Opened(@, s)]
      <4> DEFINE t == IF poller[d].raise THEN 1 ELSE 0
      <4>1. t \in 0..4
        OBVIOUS
      <4>2. alerts' = [alerts EXCEPT ![k] = Opened(@, t)]
        BY <2>2 DEF RuleSet
      <4> HIDE DEF t, k
      <4> QED BY <4>1, <4>2
    <3>2. HasLog(k)
      BY <2>2 DEF RuleSet, FaultInv
    <3> HIDE DEF k
    <3> QED BY <1>0, <3>1, <3>2, RowKept
  <2> QED BY <2>1, <2>2 DEF Poll, RunRules, CheckRule, RefreshRead,
             RefreshWrite, RuleLog, RulesEnd, rows
<1>2. /\ cron' = cron /\ told' = told /\ flags' = flags /\ enabled' = enabled
  BY DEF Poll, RunRules, CheckRule, RefreshRead, RefreshWrite, RuleLog, RuleSet,
         RulesEnd, env, hist
<1>3. ASSUME NEW e \in Device, poller'[e].pc = "set"
      PROVE  HasLog(PollKey(e))'
  <2>0. PollKey(e) \in Key
    BY DEF TypeOK, PollKey, PollerType, Key
  <2>1. CASE e # d
    <3>1. poller'[e] = poller[e]
      BY <2>1 DEF Poll, RunRules, CheckRule, RefreshRead, RefreshWrite, RuleLog,
             RuleSet, RulesEnd, NextRule, TypeOK
    <3>2. HasLog(PollKey(e))
      BY <1>3, <3>1 DEF FaultInv
    <3>3. PollKey(e)' = PollKey(e)
      BY <3>1 DEF PollKey
    <3> QED BY <2>0, <3>2, <3>3, HasLogKept DEF HasLog
  <2>2. CASE e = d /\ RuleLog(d)
    <3>1. log'[k] = Append(log[k], IF poller[d].raise
                      THEN NewRow(1, poller[d].n, people[k], k[2])
                      ELSE NewRow(0, 0, 0, k[2]))
      BY <1>0, <2>2 DEF RuleLog, TypeOK
    <3>2. log[k] \in Seq(LogRow)
      BY <1>0 DEF TypeOK
    <3>3. 1 \in DOMAIN log'[k]
      BY <3>1, <3>2
    <3>4. PollKey(d)' = k
      BY <2>2, <1>0 DEF RuleLog, PollKey, PollerType, TypeOK
    <3> QED BY <2>2, <3>3, <3>4 DEF HasLog
  <2>3. CASE e = d /\ ~RuleLog(d)
    <3>1. poller'[d].pc # "set"
      <4>1. ASSUME NEW r \in Rule, CheckRule(d, r) PROVE poller'[d].pc # "set"
        BY <1>0, <4>1 DEF CheckRule, IdlePoller, TypeOK
      <4>2. CASE NextRule(d)
        BY <1>0, <4>2 DEF NextRule, IdlePoller, TypeOK
      <4>3. CASE RunRules(d) \/ RulesEnd(d) \/ (RefreshRead(d) /\ ~NextRule(d))
        BY <1>0, <4>3 DEF RunRules, RulesEnd, RefreshRead, IdlePoller, TypeOK, PollerType
      <4> QED BY <2>3, <4>1, <4>2, <4>3 DEF Poll, RefreshWrite, RuleSet
    <3> QED BY <1>3, <2>3, <3>1
  <2> QED BY <2>1, <2>2, <2>3
<1>4. /\ \A e \in Device : cron'.cache[e] \in {{}, Rule}
      /\ \A e \in Device : flags'[e] \intersect {"silent", "gone"} = {}
      /\ \A q \in cron'.todo : q \in Key /\ alerts[q].state # -1
  BY <1>2 DEF FaultInv, TypeOK, CronType
<1> QED BY <1>1, <1>2, <1>3, <1>4, FaultFrame


LEMMA EnvironmentFault ==
    ASSUME Undisturbed, TypeOK, FaultInv, \A k \in Key : Kept(k), Environment
    PROVE  FaultInv'
<1>1. NoRowLost
  <2>1. CASE alerts' = alerts
    BY <2>1 DEF FaultInv, NoRowLost
  <2>2. ASSUME NEW k \in Key, AckAlert(k) \/ UnackAlert(k)
        PROVE  NoRowLost
    <3>1. PICK s \in 0..4 : alerts' = [alerts EXCEPT ![k] = Opened(@, s)]
      <4>1. alerts[k].alerted \in 0..4
        BY DEF TypeOK, AlertRow
      <4>2. UnackAlert(k) =>
                alerts' = [alerts EXCEPT ![k] = Opened(@, alerts[k].alerted)]
        BY DEF UnackAlert, TypeOK
      <4> QED BY <2>2, <4>1, <4>2 DEF AckAlert
    <3>2. alerts[k].state # -1
      BY <2>2 DEF AckAlert, UnackAlert
    <3> QED BY <3>1, <3>2, RowKept
  <2>3. ASSUME NEW k \in Key,
               ApiSetState(k, "apiack", 2) \/ ApiSetState(k, "apiunmute", 1)
        PROVE  NoRowLost
    <3>1. PICK s \in 0..4 : alerts' = [alerts EXCEPT ![k].state = s]
      BY <2>3 DEF ApiSetState
    <3>2. alerts[k].state # -1
      BY <2>3 DEF ApiSetState
    <3> QED BY <3>1, <3>2, RowKept
  <2> QED BY <2>1, <2>2, <2>3 DEF Undisturbed, Environment, FaultChange, PurgeLog,
             ChangeContacts, ToggleRule, ToggleFlag, DeleteDevice, Operation,
             CrashPoller, CrashCron, rows
<1>2. cron' = cron /\ poller' = poller /\ told' = told /\ enabled' = enabled
  BY DEF Undisturbed, Environment, FaultChange, AckAlert, UnackAlert, ApiSetState,
         PurgeLog, ChangeContacts, ToggleRule, ToggleFlag, DeleteDevice, Operation,
         CrashPoller, CrashCron, hist
<1>3. \A d \in Device : flags'[d] \intersect {"silent", "gone"} = {}
  <2>1. CASE flags' = flags
    BY <2>1 DEF FaultInv
  <2>2. ASSUME NEW e \in Device, NEW f \in Flag, ToggleFlag(e, f)
        PROVE  \A d \in Device : flags'[d] \intersect {"silent", "gone"} = {}
    <3>1. f \notin {"silent", "gone"}
      BY <2>2 DEF Undisturbed, ToggleFlag, Operation
    <3> QED BY <2>2, <3>1 DEF ToggleFlag, FaultInv, TypeOK
  <2> QED BY <2>1, <2>2 DEF Undisturbed, Environment, FaultChange, AckAlert,
             UnackAlert, ApiSetState, PurgeLog, ChangeContacts, ToggleRule,
             DeleteDevice, Operation, CrashPoller, CrashCron
<1>4. \A d \in Device : poller'[d].pc = "set" => HasLog(PollKey(d))'
  <2> SUFFICES ASSUME NEW d \in Device, poller[d].pc = "set"
               PROVE  HasLog(PollKey(d))'
    BY <1>2
  <2>1. PollKey(d) \in Key /\ PollKey(d)' = PollKey(d)
    BY <1>2 DEF TypeOK, PollKey, PollerType, Key
  <2> QED BY <2>1, HasLogKept DEF FaultInv, HasLog
<1>5. /\ \A d \in Device : cron'.cache[d] \in {{}, Rule}
      /\ \A q \in cron'.todo : q \in Key /\ alerts[q].state # -1
  BY <1>2 DEF FaultInv, TypeOK, CronType
<1> QED BY <1>1, <1>2, <1>3, <1>4, <1>5, FaultFrame

LEMMA TimeFault ==
    ASSUME TypeOK, FaultInv, \A k \in Key : Kept(k), NEW q \in Key, NEW t,
           Elapse(q, t)
    PROVE  FaultInv'
<1>1. cron \in CronType /\ cron.row \in LogRow
  BY DEF TypeOK, CronType
<1>2. Over(cron.row, t).state = cron.row.state
  BY <1>1 DEF Over, LogRow
<1>3. /\ cron'.pc = cron.pc /\ cron'.key = cron.key /\ cron'.iss = cron.iss
      /\ cron'.row.state = cron.row.state
      /\ cron'.todo = cron.todo /\ cron'.cache = cron.cache
  BY <1>1, <1>2 DEF Elapse, CronType
<1>4. /\ alerts' = alerts /\ flags' = flags /\ enabled' = enabled /\ told' = told
  BY DEF Elapse, env, hist
<1>5. NoRowLost
  BY <1>4 DEF FaultInv, NoRowLost
<1>6. \A d \in Device : poller'[d].pc = "set" => HasLog(PollKey(d))'
  <2> SUFFICES ASSUME NEW d \in Device, poller'[d].pc = "set"
               PROVE  HasLog(PollKey(d))'
    OBVIOUS
  <2>1. poller'[d].pc = poller[d].pc /\ poller'[d].rule = poller[d].rule
    <3>1. poller[d] \in PollerType
      BY DEF TypeOK
    <3>2. \/ poller'[d] = poller[d]
          \/ poller'[d] = [poller[d] EXCEPT !.row = Over(poller[d].row, t)]
      BY DEF Elapse, TypeOK
    <3> QED BY <3>1, <3>2 DEF PollerType
  <2>2. PollKey(d) \in Key /\ PollKey(d)' = PollKey(d)
    BY <2>1 DEF TypeOK, PollKey, PollerType, Key
  <2> QED BY <2>1, <2>2, HasLogKept DEF FaultInv, HasLog
<1>7. /\ \A d \in Device : cron'.cache[d] \in {{}, Rule}
      /\ \A d \in Device : flags'[d] \intersect {"silent", "gone"} = {}
      /\ \A k \in cron'.todo : k \in Key /\ alerts[k].state # -1
  BY <1>1, <1>3, <1>4 DEF FaultInv, CronType
<1> QED BY <1>3, <1>4, <1>5, <1>6, <1>7, FaultFrame

LEMMA CronFault ==
    ASSUME TypeOK, RecoveryInv, FaultInv, \A k \in Key : Kept(k), Cron
    PROVE  FaultInv'
<1>0. /\ cron \in CronType /\ cron.key \in Key /\ cron.row \in LogRow
      /\ cron.id \in Nat /\ cron.todo \subseteq Key
  BY DEF TypeOK, CronType
<1>1. /\ flags' = flags /\ enabled' = enabled /\ poller' = poller
  BY DEF Cron, CronStart, StaleRule, FollowUpRead, FollowUpLog, FollowUpSet,
         FollowUpEnd, AlertWait, AlertRead, AlertDetails, AlertIssue,
         AlertAlerted, AlertClose, AlertsEnd, AckRead, AckIssue, AckClose,
         AcksEnd, env
<1>2. \A d \in Device : flags'[d] \intersect {"silent", "gone"} = {}
  BY <1>1 DEF FaultInv
<1>3. \A d \in Device : poller'[d].pc = "set" => HasLog(PollKey(d))'
  <2> SUFFICES ASSUME NEW d \in Device, poller[d].pc = "set"
               PROVE  HasLog(PollKey(d))'
    BY <1>1
  <2>1. PollKey(d) \in Key /\ PollKey(d)' = PollKey(d)
    BY <1>1 DEF TypeOK, PollKey, PollerType, Key
  <2> QED BY <2>1, HasLogKept DEF FaultInv, HasLog
<1>4. ASSUME alerts' = alerts PROVE NoRowLost
  BY <1>4 DEF FaultInv, NoRowLost
<1>5. \A k \in cron.todo : k \in Key /\ alerts[k].state # -1
  BY <1>0 DEF FaultInv
<1>6. ASSUME NEW pc \in {"follow", "alerts", "acks"}, NEW k \in Key,
             NEW c \in [Device -> SUBSET Rule], \A d \in Device : c[d] \in {{}, Rule},
             cron' = [Loop(pc, k) EXCEPT !.cache = c]
      PROVE  /\ cron'.pc \notin Noticing
             /\ \A d \in Device : cron'.cache[d] \in {{}, Rule}
             /\ \A q \in cron'.todo : q \in Key /\ alerts[q].state # -1
  BY <1>5, <1>6 DEF Loop, IdleCron, Noticing
<1>7. \A k \in Key : HasLog(k) =>
          /\ NewCache(k) \in [Device -> SUBSET Rule]
          /\ \A d \in Device : NewCache(k)[d] \in {{}, Rule}
  <2> SUFFICES ASSUME NEW k \in Key, HasLog(k)
               PROVE  /\ NewCache(k) \in [Device -> SUBSET Rule]
                      /\ \A d \in Device : NewCache(k)[d] \in {{}, Rule}
    OBVIOUS
  <2>1. NewCache(k) = [cron.cache EXCEPT ![k[1]] = Rule]
    BY EveryRuleValid
  <2> QED BY <1>0, <2>1, ZenonT(40) DEF FaultInv, CronType
<1>8. /\ cron.cache \in [Device -> SUBSET Rule]
      /\ \A d \in Device : cron.cache[d] \in {{}, Rule}
  BY <1>0 DEF FaultInv, CronType
<1>9. CASE CronStart
  <2>1. alerts' = [k \in Key |-> ClearStale(k)]
    BY <1>9 DEF CronStart
  <2>2. \A k \in Key : "gone" \notin flags[k[1]]
    BY KeyFacts DEF RecoveryInv
  <2>3. alerts' = alerts
    BY <2>1, <2>2 DEF ClearStale, TypeOK
  <2>4. cron' = [cron EXCEPT !.pc = "follow", !.todo = ToFollowUp(alerts)]
    BY <1>9, <2>1, <2>3 DEF CronStart
  <2>5. /\ cron'.pc = "follow" /\ cron'.cache = cron.cache
        /\ \A k \in cron'.todo : k \in Key /\ alerts[k].state # -1
    BY <1>0, <2>4 DEF ToFollowUp, CronType
  <2> QED BY <1>1, <1>2, <1>3, <1>4, <1>8, <1>9, <2>3, <2>5, FaultFrame
          DEF CronStart, Noticing, hist
<1>10. ASSUME NEW k \in Key, StaleRule(k) PROVE FALSE
  BY <1>5, <1>10, EveryRuleValid DEF StaleRule, FaultInv
<1>11. ASSUME NEW k \in Key, HasLog(k),
              NEW pc \in {"follow", "alerts", "acks"},
              cron' = [Loop(pc, k) EXCEPT !.cache = NewCache(k)],
              cron.pc # "alerted", alerts' = alerts, told' = told
       PROVE  FaultInv'
  BY <1>1, <1>2, <1>3, <1>4, <1>6, <1>7, <1>11, FaultFrame
<1>12. ASSUME NEW k \in Key, k \in cron.todo PROVE HasLog(k)
  BY <1>5, <1>12 DEF FaultInv
<1>13. ASSUME NEW k \in Key, FollowUpRead(k) PROVE FaultInv'
  <2>1. HasLog(k) /\ cron.pc = "follow" /\ alerts' = alerts /\ told' = told
    BY <1>12, <1>13 DEF FollowUpRead, rows, hist
  <2>2. CASE cron' = [Loop("follow", k) EXCEPT !.cache = NewCache(k)]
    BY <1>11, <2>1, <2>2
  <2>3. CASE cron' # [Loop("follow", k) EXCEPT !.cache = NewCache(k)]
    <3>1. /\ cron'.pc = "flog" /\ cron'.todo = cron.todo
          /\ cron'.cache = NewCache(k)
      BY <1>0, <1>13, <2>3 DEF FollowUpRead, CronType
    <3> QED BY <1>1, <1>2, <1>3, <1>4, <1>5, <1>7, <2>1, <3>1, FaultFrame DEF Noticing
  <2> QED BY <2>2, <2>3
<1>14. CASE FollowUpLog \/ AckIssue
  <2>1. /\ cron'.pc \in {"fset", "ackclose"} /\ cron'.todo = cron.todo
        /\ cron'.cache = cron.cache /\ cron.pc # "alerted"
        /\ alerts' = alerts /\ told' = told
    BY <1>0, <1>14 DEF FollowUpLog, AckIssue, CronType, rows, hist
  <2> QED BY <1>1, <1>2, <1>3, <1>4, <1>5, <1>8, <2>1, FaultFrame DEF Noticing
<1>15. CASE FollowUpSet
  <2> DEFINE k == cron.key
  <2>1. /\ cron' = [Loop("follow", k) EXCEPT !.cache = cron.cache]
        /\ cron.pc = "fset" /\ told' = told
    BY <1>15 DEF FollowUpSet, hist
  <2>2. /\ cron'.pc \notin Noticing
        /\ \A d \in Device : cron'.cache[d] \in {{}, Rule}
        /\ \A q \in cron'.todo : q \in Key /\ alerts[q].state # -1
    BY <1>0, <1>6, <1>8, <2>1
  <2>3. \A q \in Key :
            /\ alerts[q].state # -1 => alerts'[q].state # -1
            /\ alerts'[q].state # -1 => alerts[q].state # -1
            /\ alerts'[q].open => alerts'[q].state # -1
            /\ alerts[q].alerted # 0 => alerts'[q].alerted # 0
    BY <1>0, <1>15, SMTT(30) DEF FollowUpSet, TypeOK, AlertRow, LogRow, FaultInv
  <2>4. /\ \A q \in Key : alerts'[q].state # -1 => HasLog(q)'
        /\ \A q \in Key : told'[q] = "fault" => alerts'[q].alerted # 0
    BY <2>1, <2>3, HasLogKept DEF FaultInv
  <2> QED BY <1>1, <1>2, <1>3, <2>2, <2>3, <2>4 DEF FaultInv, Noticing
<1>16. CASE FollowUpEnd \/ AlertsEnd
  <2>1. /\ cron'.pc \in {"alerts", "acks"} /\ cron'.cache = cron.cache
        /\ cron.pc # "alerted" /\ cron'.todo \in {ToNotify, ToAck}
        /\ alerts' = alerts /\ told' = told
    BY <1>0, <1>16 DEF FollowUpEnd, AlertsEnd, IdleCron, rows, hist
  <2>2. \A q \in cron'.todo : q \in Key /\ alerts[q].state # -1
    BY <2>1 DEF ToNotify, ToAck, FaultInv
  <2> QED BY <1>1, <1>2, <1>3, <1>4, <1>8, <2>1, <2>2, FaultFrame DEF Noticing
<1>17. CASE AcksEnd
  <2>1. /\ cron'.pc = "idle" /\ cron'.cache = [d \in Device |-> {}]
        /\ cron.pc # "alerted" /\ cron'.todo = {} /\ alerts' = alerts /\ told' = told
    BY <1>17 DEF AcksEnd, IdleCron, rows, hist
  <2> QED BY <1>1, <1>2, <1>3, <1>4, <2>1, FaultFrame DEF Noticing
<1>18. ASSUME NEW k \in Key, AlertWait(k) PROVE FaultInv'
  BY <1>11, <1>12, <1>18 DEF AlertWait, rows, hist
<1>19. ASSUME NEW k \in Key, AckRead(k) PROVE FaultInv'
  <2>1. /\ cron'.pc = "ackissue" /\ cron'.todo = cron.todo /\ cron.pc # "alerted"
        /\ cron'.cache = NewCache(k) /\ alerts' = alerts /\ told' = told
    BY <1>0, <1>19 DEF AckRead, CronType, rows, hist
  <2>2. HasLog(k)
    BY <1>12, <1>19 DEF AckRead
  <2> QED BY <1>1, <1>2, <1>3, <1>4, <1>5, <1>7, <2>1, <2>2, FaultFrame DEF Noticing
<1>20. ASSUME NEW k \in Key, AlertRead(k) PROVE FaultInv'
  <2>1. /\ cron'.pc = "details" /\ cron'.todo = cron.todo /\ cron'.key = k
        /\ cron'.cache = NewCache(k) /\ alerts' = alerts /\ told' = told
        /\ cron.pc = "alerts"
    BY <1>0, <1>20 DEF AlertRead, CronType, rows, hist
  <2>2. HasLog(k) /\ alerts[k].state # -1
    BY <1>5, <1>12, <1>20 DEF AlertRead
  <2>3. \A q \in Key : alerts'[q].state # -1 => HasLog(q)'
    BY <2>1, HasLogKept DEF FaultInv
  <2> QED BY <1>1, <1>2, <1>3, <1>5, <1>7, <2>1, <2>2, <2>3 DEF FaultInv
<1>21. CASE AlertDetails
  <2>1. /\ cron'.pc = "issue" /\ cron'.todo = cron.todo /\ cron'.key = cron.key
        /\ cron'.cache = cron.cache /\ alerts' = alerts /\ told' = told
        /\ cron.pc = "details"
    BY <1>0, <1>21 DEF AlertDetails, CronType, hist
  <2>2. \A q \in Key : alerts'[q].state # -1 => HasLog(q)'
    BY <2>1, HasLogKept DEF FaultInv
  <2> QED BY <1>1, <1>2, <1>3, <1>5, <1>8, <2>1, <2>2 DEF FaultInv, Noticing
<1>22. CASE AlertIssue
  <2> DEFINE k == cron.key
             s == cron.row.state
  <2>1. /\ cron'.pc = "alerted" /\ cron'.todo = cron.todo /\ cron'.key = k
        /\ cron'.cache = cron.cache /\ alerts' = alerts
        /\ cron.pc = "issue" /\ cron'.iss = cron.iss /\ cron'.row = cron.row
    BY <1>0, <1>22 DEF AlertIssue, CronType, rows
  <2>2. \A q \in Key : alerts'[q].state # -1 => HasLog(q)'
    BY <2>1, HasLogKept DEF FaultInv
  <2>3. \A q \in Key : told'[q] = "fault" =>
            \/ alerts[q].alerted # 0
            \/ q = k /\ cron.iss /\ s # 0
    BY <1>0, <1>22, <2>1 DEF AlertIssue, TypeOK, FaultInv
  <2>4. cron.iss /\ s = 0 => told'[k] = "ok"
    <3> SUFFICES ASSUME cron.iss, s = 0 PROVE told'[k] = "ok"
      OBVIOUS
    <3>1. Described(k, cron.id, s)
      <4>1. PICK i \in DOMAIN log[k] : i < cron.id /\ log[k][i].state # 0
        BY <2>1 DEF RecoveryInv, LoggedBefore
      <4>2. i > purged[k]
        BY <1>0, LogFacts DEF RecoveryInv
      <4> QED BY <4>1, <4>2 DEF Described
    <3>2. "silent" \notin flags[k[1]]
      BY <1>0, KeyFacts DEF FaultInv
    <3> QED BY <1>0, <1>22, <3>1, <3>2 DEF AlertIssue, TypeOK
  <2> QED BY <1>1, <1>2, <1>3, <1>5, <1>8, <2>1, <2>2, <2>3, <2>4
          DEF FaultInv, Noticing
<1>23. CASE AlertAlerted
  <2> DEFINE k == cron.key
  <2>1. /\ cron'.pc = "close" /\ cron'.todo = cron.todo
        /\ cron'.cache = cron.cache /\ told' = told /\ cron.pc = "alerted"
    BY <1>0, <1>23 DEF AlertAlerted, CronType, hist
  <2>2. \A q \in Key : /\ alerts'[q].state = alerts[q].state
                       /\ alerts'[q].open = alerts[q].open
                       /\ q # k => alerts'[q].alerted = alerts[q].alerted
    BY <1>0, <1>23, SMTT(30) DEF AlertAlerted, TypeOK, AlertRow
  <2>3. alerts'[k].alerted = IF cron.iss THEN cron.row.state ELSE alerts[k].alerted
    BY <1>0, <1>23 DEF AlertAlerted, TypeOK, AlertRow, FaultInv, Noticing
  <2>4. \A q \in Key : told'[q] = "fault" => alerts'[q].alerted # 0
    BY <1>0, <2>1, <2>2, <2>3 DEF FaultInv
  <2>5. \A q \in Key : alerts'[q].state # -1 => HasLog(q)'
    BY <2>2, HasLogKept DEF FaultInv
  <2> QED BY <1>1, <1>2, <1>3, <1>5, <1>8, <2>1, <2>2, <2>4, <2>5
          DEF FaultInv, Noticing
<1>24. CASE AlertClose \/ AckClose
  <2>1. /\ \/ alerts' = alerts
           \/ alerts' = [alerts EXCEPT ![cron.key].open = FALSE]
        /\ told' = told /\ cron.pc # "alerted"
    BY <1>24 DEF AlertClose, AckClose, hist
  <2>2. PICK pc \in {"alerts", "acks"} :
            cron' = [Loop(pc, cron.key) EXCEPT !.cache = cron.cache]
    BY <1>24 DEF AlertClose, AckClose
  <2>3. NoRowLost
    <3>1. 0 \in 0..4
      OBVIOUS
    <3> QED BY <1>0, <2>1, <3>1, RowKept
  <2> QED BY <1>0, <1>1, <1>2, <1>3, <1>6, <1>8, <2>1, <2>2, <2>3, FaultFrame
<1> QED BY <1>9, <1>10, <1>13, <1>14, <1>15, <1>16, <1>17, <1>18, <1>19, <1>20,
           <1>21, <1>22, <1>23, <1>24 DEF Cron


\* As long as the contacts believe in a fault, alerts.php knows that they do
\* (alerts.php:251, 319), however the poller, alerts.php and the web interface
\* overlap, unless a disabled rule or a deleted device takes the row away, the
\* log is purged, a device is kept silent or a process dies.
THEOREM FaultsRemembered ==
    ASSUME Undisturbed
    PROVE  Spec => []FaultRemembered
<1>1. Init => RecoveryInv /\ FaultInv
  BY DEF Init, RecoveryInv, FaultInv, IdleCron, IdlePoller, NoAlert, Noticing
<1>2. TypeOK /\ RecoveryInv /\ FaultInv /\ [Next]_vars => FaultInv'
  <2> SUFFICES ASSUME TypeOK, RecoveryInv, FaultInv, [Next]_vars PROVE FaultInv'
    OBVIOUS
  <2>1. \A k \in Key : Kept(k)
    BY LogKeeps
  <2>2. CASE \E d \in Device : Poll(d)
    BY <2>1, <2>2, PollFault
  <2>3. CASE Cron
    BY <2>1, <2>3, CronFault
  <2>4. CASE Environment
    BY <2>1, <2>4, EnvironmentFault
  <2>5. CASE Time
    BY <2>1, <2>5, TimeFault DEF Time
  <2>6. CASE UNCHANGED vars
    BY <2>6 DEF vars, rows, env, hist, FaultInv, HasLog, PollKey
  <2> QED BY <2>2, <2>3, <2>4, <2>5, <2>6 DEF Next
<1>3. TypeOK /\ RecoveryInv /\ [Next]_vars => RecoveryInv'
  BY RecoveryStep DEF Undisturbed
<1>4. FaultInv => FaultRemembered
  BY DEF FaultInv, FaultRemembered
<1> QED BY <1>1, <1>2, <1>3, <1>4, TypeCorrect, PTL DEF Spec

=============================================================================
