------------------------------- MODULE Alerts -------------------------------
(***************************************************************************)
(* The life of an alert.                                                   *)
(*                                                                         *)
(* Two programs share the tables `alerts` (one row per device and rule)    *)
(* and `alert_log` (a row per event, its `details` rewritten in place):    *)
(*                                                                         *)
(*   - poller.php calls RunRules(device) after a poll: it queries every    *)
(*     rule, logs a change of state and re-opens the alerts row;           *)
(*   - alerts.php, a cron job under the file lock 'alerts', clears stale   *)
(*     rows, follows up changed fault counts, notifies and acknowledges.   *)
(*                                                                         *)
(* The web forms and the API change the rows at any moment.  No            *)
(* transaction or lock relates these programs, so every SQL statement      *)
(* whose order matters is a step of its own.                               *)
(*                                                                         *)
(* Abstracted: a rule's result is its number of rows (`fault`); time is    *)
(* two flags of a log row, early (delay not over) and cool (interval not   *)
(* over); a contact list is a version number (`people`).                   *)
(***************************************************************************)
EXTENDS Integers, Sequences

CONSTANTS
    Device, Rule,
    Extra,          \* alert_rules.extra of each rule
    FixedContacts,  \* $config['alert']['fixed-contacts']
    Ops,            \* what users and the system do in this instance
    Overlap,        \* do the poller, alerts.php and the web run at once?
    MaxFaults,      \* bound: rows a rule's query returns
    MaxEvents,      \* bound: environment events in a behaviour
    MaxIssues       \* bound: the counter issues saturates here

Op == { "ack", "unack", "apiack", "apiunmute", "rule", "ignore",
        "maintenance", "silent", "gone", "purge", "contacts", "crash" }
Flag == { "ignore", "maintenance", "silent", "gone" }
ExtraType == [count : Int, delay : BOOLEAN, interval : BOOLEAN,
              invert : BOOLEAN, mute : BOOLEAN]

ASSUME SetsAssumption == Device # {} /\ Rule # {}
ASSUME ConfigAssumption ==
    /\ Extra \in [Rule -> ExtraType]
    /\ Ops \subseteq Op
    /\ FixedContacts \in BOOLEAN
    /\ Overlap \in BOOLEAN
ASSUME BoundAssumption ==
    MaxFaults \in Nat /\ MaxEvents \in Nat /\ MaxIssues \in Nat

VARIABLES
    alerts,   \* table alerts
    log,      \* table alert_log, the rows of a key in id order
    purged,   \* how many of the oldest of these rows have been deleted
    fault,    \* rows the rule's query returns now
    people,   \* version of the contact list GetContacts computes now
    enabled,  \* rules that exist and are enabled
    flags,    \* attributes of a device
    budget,   \* environment events left
    poller,   \* RunRules, one process per device
    cron,     \* alerts.php
    told,     \* history: the last thing the contacts heard of a key
    turn,     \* history: flips with every notice of a key
    issues,   \* history: first notices sent for the current event
    trigger   \* history: the contact list when the event was raised

rows  == <<alerts, log>>
env   == <<purged, fault, people, enabled, flags, budget>>
hist  == <<told, turn, issues, trigger>>
vars  == <<rows, env, poller, cron, hist>>

Key == Device \X Rule
AnyKey == CHOOSE k \in Key : TRUE
AnyRule == CHOOSE r \in Rule : TRUE

(***************************************************************************)
(* Rows.  State -1 stands for "no row in alerts".                          *)
(***************************************************************************)
AlertRow == [state : -1..4, open : BOOLEAN, alerted : {0, 1, 3, 4}]
NoAlert == [state |-> -1, open |-> FALSE, alerted |-> 0]

LogRow == [state : {0, 1, 3, 4}, n : Nat, count : Nat, to : Nat,
           early : BOOLEAN, cool : BOOLEAN]
\* Mutant: the event is logged in the state of an acknowledgement.
NewRowAcked(s, n, to, r) ==
    [state |-> 2 * s, n |-> n, count |-> 0, to |-> to,
     early |-> Extra[r].delay, cool |-> FALSE]
NewRow(s, n, to, r) ==
    [state |-> s, n |-> n, count |-> 0, to |-> to,
     early |-> Extra[r].delay, cool |-> FALSE]
NoLogRow == [state |-> 0, n |-> 0, count |-> 0, to |-> 0,
             early |-> FALSE, cool |-> FALSE]

\* An alerts row as RunRules and the ack form leave it: `alerted` stays.
\* Mutants: only an alert opens the row; `alerted` starts anew.
OpenedByAlert(row, s) == [row EXCEPT !.state = s, !.open = @ \/ s = 1]
OpenedAfresh(row, s) == [state |-> s, open |-> TRUE, alerted |-> 0]
Opened(row, s) == [row EXCEPT !.state = s, !.open = TRUE]

HasRow(k) == Len(log[k]) > purged[k]
LastRow(k) == log[k][Len(log[k])]

\* dbUpdate of alert_log.details by id; a purged row matches nothing.
WriteDetails(k, id, row) ==
    log' = IF id > purged[k]
           THEN [log EXCEPT ![k][id].n = row.n, ![k][id].to = row.to,
                            ![k][id].count = row.count,
                            ![k][id].cool = row.cool]
           ELSE log

IdlePoller == [pc |-> "idle", todo |-> {}, rule |-> AnyRule,
               raise |-> FALSE, n |-> 0, id |-> 0, row |-> NoLogRow]
PollerType == [pc : {"idle", "rules", "refresh", "write", "log", "set"},
               todo : SUBSET Rule, rule : Rule, raise : BOOLEAN,
               n : Nat, id : Nat, row : LogRow]

IdleCron == [pc |-> "idle", todo |-> {}, key |-> AnyKey, id |-> 0,
             row |-> NoLogRow, iss |-> FALSE, acc |-> FALSE, upd |-> FALSE,
             cache |-> [d \in Device |-> {}]]
CronType == [pc : {"idle", "follow", "flog", "fset", "alerts", "details",
                   "issue", "alerted", "close", "acks", "ackissue", "ackclose"},
             todo : SUBSET Key, key : Key, id : Nat, row : LogRow,
             iss : BOOLEAN, acc : BOOLEAN, upd : BOOLEAN,
             cache : [Device -> SUBSET Rule]]

TypeOK ==
    /\ alerts \in [Key -> AlertRow]
    /\ log \in [Key -> Seq(LogRow)]
    /\ purged \in [Key -> Nat]
    /\ fault \in [Key -> 0..MaxFaults]
    /\ people \in [Key -> Nat]
    /\ enabled \in SUBSET Rule
    /\ flags \in [Device -> SUBSET Flag]
    /\ budget \in 0..MaxEvents
    /\ poller \in [Device -> PollerType]
    /\ cron \in CronType
    /\ told \in [Key -> {"ok", "fault"}]
    /\ turn \in [Key -> BOOLEAN]
    /\ issues \in [Key -> 0..MaxIssues]
    /\ trigger \in [Key -> Nat]

Init ==
    /\ alerts = [k \in Key |-> NoAlert]
    /\ log = [k \in Key |-> << >>]
    /\ purged = [k \in Key |-> 0]
    /\ fault = [k \in Key |-> 0]
    /\ people = [k \in Key |-> 0]
    /\ enabled = Rule
    /\ flags = [d \in Device |-> {}]
    /\ budget = MaxEvents
    /\ poller = [d \in Device |-> IdlePoller]
    /\ cron = IdleCron
    /\ told = [k \in Key |-> "ok"]
    /\ turn = [k \in Key |-> FALSE]
    /\ issues = [k \in Key |-> 0]
    /\ trigger = [k \in Key |-> 0]

Idle == cron.pc = "idle" /\ \A d \in Device : poller[d].pc = "idle"
MayStart == Overlap \/ Idle
-----------------------------------------------------------------------------
(***************************************************************************)
(* poller.php: RunRules(device)                                            *)
(***************************************************************************)
PollKey(d) == <<d, poller[d].rule>>
NextRule(d) == poller' = [poller EXCEPT ![d] =
                    [IdlePoller EXCEPT !.pc = "rules", !.todo = poller[d].todo]]

RunRules(d) ==
    /\ poller[d].pc = "idle"
    /\ MayStart
    /\ flags[d] \intersect {"maintenance", "gone"} = {}
    /\ poller' = [poller EXCEPT ![d].pc = "rules", ![d].todo = enabled]
    /\ UNCHANGED <<rows, env, cron, hist>>

\* One rule: read alerts.state and query the rule, then choose the branch.
CheckRule(d, r) ==
    LET st    == alerts[<<d, r>>].state
        n     == fault[<<d, r>>]
        raise == (n > 0) # Extra[r].invert
        next  == IF raise
                 THEN IF st = 2 THEN "rules" ELSE IF st >= 1 THEN "refresh" ELSE "log"
                 ELSE IF st = 0 THEN "rules" ELSE "log"
        left  == poller[d].todo \ {r}
    IN
    /\ poller[d].pc = "rules"
    /\ r \in poller[d].todo
    /\ poller' = [poller EXCEPT ![d] =
            IF next = "rules"
            THEN [IdlePoller EXCEPT !.pc = "rules", !.todo = left]
            ELSE [IdlePoller EXCEPT !.pc = next, !.todo = left, !.rule = r,
                                    !.raise = raise, !.n = n]]
    /\ UNCHANGED <<rows, env, cron, hist>>

\* NOCHG: the details of the latest row are read here ...
RefreshRead(d) ==
    LET k == PollKey(d) IN
    /\ poller[d].pc = "refresh"
    /\ IF k[2] \in enabled /\ HasRow(k)
       THEN poller' = [poller EXCEPT ![d].pc = "write", ![d].id = Len(log[k]),
                                     ![d].row = LastRow(k)]
       ELSE NextRule(d)
    /\ UNCHANGED <<rows, env, cron, hist>>

\* ... and written back whole here, with the new faults and contacts.
RefreshWrite(d) ==
    LET k == PollKey(d) IN
    /\ poller[d].pc = "write"
    /\ WriteDetails(k, poller[d].id,
                    [poller[d].row EXCEPT !.n = poller[d].n, !.to = people[k]])
    /\ NextRule(d)
    /\ UNCHANGED <<alerts, env, cron, hist>>

\* ALERT and OK: insert the log row, then update (or insert) the alerts row.
RuleLog(d) ==
    LET k == PollKey(d) IN
    /\ poller[d].pc = "log"
    /\ log' = [log EXCEPT ![k] = Append(@,
            IF poller[d].raise THEN NewRow(1, poller[d].n, people[k], k[2])
                               ELSE NewRow(0, 0, 0, k[2]))]
    /\ poller' = [poller EXCEPT ![d].pc = "set"]
    /\ issues' = IF poller[d].raise THEN [issues EXCEPT ![k] = 0] ELSE issues
    /\ trigger' = IF poller[d].raise THEN [trigger EXCEPT ![k] = people[k]] ELSE trigger
    /\ UNCHANGED <<alerts, env, cron, told, turn>>

RuleSet(d) ==
    LET k == PollKey(d)
        s == IF poller[d].raise THEN 1 ELSE 0
    IN
    /\ poller[d].pc = "set"
    /\ alerts' = [alerts EXCEPT ![k] = Opened(@, s)]
    /\ NextRule(d)
    /\ UNCHANGED <<log, env, cron, hist>>

RulesEnd(d) ==
    /\ poller[d].pc = "rules"
    /\ poller[d].todo = {}
    /\ poller' = [poller EXCEPT ![d] = IdlePoller]
    /\ UNCHANGED <<rows, env, cron, hist>>

Poll(d) ==
    \/ RunRules(d)
    \/ \E r \in Rule : CheckRule(d, r)
    \/ RefreshRead(d)
    \/ RefreshWrite(d)
    \/ RuleLog(d)
    \/ RuleSet(d)
    \/ RulesEnd(d)
-----------------------------------------------------------------------------
(***************************************************************************)
(* alerts.php.  The query every loop starts with finds the latest row of   *)
(* an enabled rule; IsRuleValid caches the rules of a device for the run.  *)
(***************************************************************************)
RowFound(k) == k[2] \in enabled /\ HasRow(k)
Cached(d) == IF cron.cache[d] = {} THEN enabled ELSE cron.cache[d]
IsRuleValid(k) == RowFound(k) /\ k[2] \in Cached(k[1])
NewCache(k) == IF RowFound(k) THEN [cron.cache EXCEPT ![k[1]] = Cached(k[1])]
                              ELSE cron.cache
\* Back to the head of loop pc with key k done.
Loop(pc, k) == [IdleCron EXCEPT !.pc = pc, !.todo = cron.todo \ {k}]

\* What each loop selects from alerts.
ToFollowUp(rowOf) ==
    {k \in Key : rowOf[k].state \in {1, 3, 4} /\ ~rowOf[k].open}
ToNotify == {k \in Key : alerts[k].state # 2 /\ alerts[k].open}
ToAck == {k \in Key : alerts[k].state = 2 /\ alerts[k].open}

\* Mutant: ClearStaleAlerts is not called.
NotCleared(k) == alerts[k]
ClearStale(k) == IF alerts[k].state # 0 /\ "gone" \in flags[k[1]]
                 THEN NoAlert ELSE alerts[k]

\* ClearStaleAlerts, then the SELECT of RunFollowUp.
CronStart ==
    LET kept == [k \in Key |-> ClearStale(k)] IN
    /\ cron.pc = "idle"
    /\ MayStart
    /\ alerts' = kept
    /\ cron' = [cron EXCEPT !.pc = "follow", !.todo = ToFollowUp(kept)]
    /\ UNCHANGED <<log, env, poller, hist>>

\* Stale-Rule, the same in the three loops: the alerts row is deleted.
StaleRule(k) ==
    /\ cron.pc \in {"follow", "alerts", "acks"}
    /\ k \in cron.todo
    /\ ~IsRuleValid(k)
    /\ alerts' = [alerts EXCEPT ![k] = NoAlert]
    /\ cron' = [Loop(cron.pc, k) EXCEPT !.cache = NewCache(k)]
    /\ UNCHANGED <<log, env, poller, hist>>

\* RunFollowUp compares the faults now with those of the latest row.
FollowUpRead(k) ==
    LET row     == LastRow(k)
        n       == fault[k]
        changed == ~Extra[k[2]].invert /\ n # row.n /\ n > 0
        new     == [row EXCEPT !.state = IF n > row.n THEN 3 ELSE 4, !.n = n]
    IN
    /\ cron.pc = "follow"
    /\ k \in cron.todo
    /\ IsRuleValid(k)
    /\ cron' = IF changed
               THEN [cron EXCEPT !.pc = "flog", !.key = k, !.row = new,
                                 !.cache = NewCache(k)]
               ELSE [Loop("follow", k) EXCEPT !.cache = NewCache(k)]
    /\ UNCHANGED <<rows, env, poller, hist>>

FollowUpLog ==
    /\ cron.pc = "flog"
    /\ log' = [log EXCEPT ![cron.key] =
                Append(@, [cron.row EXCEPT !.early = Extra[cron.key[2]].delay])]
    /\ cron' = [cron EXCEPT !.pc = "fset"]
    /\ UNCHANGED <<alerts, env, poller, hist>>

FollowUpSet ==
    LET k == cron.key IN
    /\ cron.pc = "fset"
    /\ alerts' = IF alerts[k].state = -1 THEN alerts
                 ELSE [alerts EXCEPT ![k] = [state |-> cron.row.state,
                                             open |-> TRUE, alerted |-> 1]]
    /\ cron' = [Loop("follow", k) EXCEPT !.cache = cron.cache]
    /\ UNCHANGED <<log, env, poller, hist>>

FollowUpEnd ==
    /\ cron.pc = "follow"
    /\ cron.todo = {}
    /\ cron' = [IdleCron EXCEPT !.pc = "alerts", !.cache = cron.cache,
                    !.todo = ToNotify]
    /\ UNCHANGED <<rows, env, poller, hist>>

(***************************************************************************)
(* RunAlerts.  HasGap: an interval, or the delay in the old configuration  *)
(* without interval, spaces repeated notices.                              *)
(***************************************************************************)
HasGap(x) == x.interval \/ (x.count # 0 /\ x.delay)
Waiting(k) ==
    LET row == LastRow(k) IN row.early \/ (HasGap(Extra[k[2]]) /\ row.cool)

AlertWait(k) ==
    /\ cron.pc = "alerts"
    /\ k \in cron.todo
    /\ IsRuleValid(k)
    /\ Waiting(k)
    /\ cron' = [Loop("alerts", k) EXCEPT !.cache = NewCache(k)]
    /\ UNCHANGED <<rows, env, poller, hist>>

\* Whether a notice is due once more, and whether more will be: ++ on
\* details.count, which matters only below the limit.
\* Mutant: one notice too many.
OnceMore(row, x) ==
    row.state = 1 /\ x.count # 0 /\ (x.count = -1 \/ row.count <= x.count)
Again(row, x) ==
    row.state = 1 /\ x.count # 0 /\ (x.count = -1 \/ row.count < x.count)
More(row, x) == Again(row, x) /\ (x.count = -1 \/ row.count + 1 < x.count)
\* Mutant: the notice is not counted.
Untallied(row, x) == row.count
Tally(row, x) == IF row.state = 1 /\ row.count < x.count THEN row.count + 1
                                                         ELSE row.count

\* $noiss, $noacc and $updet, the other way round: a notice goes out, open
\* becomes 0, the details are written.
\* Mutant: the state of the row is taken for the state last notified.
SameState(k, row) == alerts[k].state = row.state /\ "gone" \notin flags[k[1]]
Same(k, row) == alerts[k].alerted = row.state /\ "gone" \notin flags[k[1]]
\* Mutant: what was notified last does not matter.
IssuesAlways(k, row) ==
    /\ flags[k[1]] \intersect {"ignore", "maintenance"} = {}
    /\ ~Extra[k[2]].mute
Issues(k, row) ==
    /\ Again(row, Extra[k[2]]) \/ ~Same(k, row)
    /\ flags[k[1]] \intersect {"ignore", "maintenance"} = {}
    /\ ~Extra[k[2]].mute
\* Mutant: maintenance closes the row.
ClosesInMaintenance(k, row) ==
    flags[k[1]] # {} \/ ~More(row, Extra[k[2]])
Closes(k, row) ==
    /\ "maintenance" \notin flags[k[1]]
    /\ "ignore" \in flags[k[1]] \/ ~More(row, Extra[k[2]])
Rewrites(k, row) ==
    /\ HasGap(Extra[k[2]]) \/ Again(row, Extra[k[2]])
    /\ "ignore" \notin flags[k[1]]

\* Everything is decided from what is read here; the statements follow.
AlertRead(k) ==
    LET row == LastRow(k)
        x   == Extra[k[2]]
    IN
    /\ cron.pc = "alerts"
    /\ k \in cron.todo
    /\ IsRuleValid(k)
    /\ ~Waiting(k)
    /\ cron' = [cron EXCEPT
            !.pc = "details", !.key = k, !.id = Len(log[k]),
            !.row = [row EXCEPT !.count = Tally(row, x), !.cool = HasGap(x) \/ @],
            !.upd = Rewrites(k, row), !.acc = Closes(k, row),
            !.iss = Issues(k, row), !.cache = NewCache(k)]
    /\ UNCHANGED <<rows, env, poller, hist>>

AlertDetails ==
    /\ cron.pc = "details"
    /\ IF cron.upd THEN WriteDetails(cron.key, cron.id, cron.row) ELSE UNCHANGED log
    /\ cron' = [cron EXCEPT !.pc = "issue"]
    /\ UNCHANGED <<alerts, env, poller, hist>>

\* DescribeAlert gives up on a recovery that follows no logged alert.
Described(k, id, s) ==
    s # 0 \/ \E i \in DOMAIN log[k] : i > purged[k] /\ i < id /\ log[k][i].state # 0

AlertIssue ==
    LET k    == cron.key
        s    == cron.row.state
        sent == cron.iss /\ "silent" \notin flags[k[1]] /\ Described(k, cron.id, s)
    IN
    /\ cron.pc = "issue"
    /\ told' = IF sent THEN [told EXCEPT ![k] = IF s = 0 THEN "ok" ELSE "fault"]
                       ELSE told
    /\ turn' = IF sent THEN [turn EXCEPT ![k] = ~@] ELSE turn
    /\ issues' = IF sent /\ s = 1 /\ issues[k] < MaxIssues
                 THEN [issues EXCEPT ![k] = @ + 1] ELSE issues
    /\ cron' = [cron EXCEPT !.pc = "alerted"]
    /\ UNCHANGED <<rows, env, poller, trigger>>

AlertAlerted ==
    LET k == cron.key IN
    /\ cron.pc = "alerted"
    /\ alerts' = IF cron.iss /\ alerts[k].state # -1
                 THEN [alerts EXCEPT ![k].alerted = cron.row.state] ELSE alerts
    /\ cron' = [cron EXCEPT !.pc = "close"]
    /\ UNCHANGED <<log, env, poller, hist>>

\* open = 0 whatever happened to the row since it was read.
AlertClose ==
    LET k == cron.key IN
    /\ cron.pc = "close"
    /\ alerts' = IF cron.acc THEN [alerts EXCEPT ![k].open = FALSE] ELSE alerts
    /\ cron' = [Loop("alerts", k) EXCEPT !.cache = cron.cache]
    /\ UNCHANGED <<log, env, poller, hist>>

AlertsEnd ==
    /\ cron.pc = "alerts"
    /\ cron.todo = {}
    /\ cron' = [IdleCron EXCEPT !.pc = "acks", !.cache = cron.cache,
                    !.todo = ToAck]
    /\ UNCHANGED <<rows, env, poller, hist>>

\* RunAcks
AckRead(k) ==
    /\ cron.pc = "acks"
    /\ k \in cron.todo
    /\ IsRuleValid(k)
    /\ cron' = [cron EXCEPT !.pc = "ackissue", !.key = k, !.cache = NewCache(k)]
    /\ UNCHANGED <<rows, env, poller, hist>>

AckIssue ==
    /\ cron.pc = "ackissue"
    /\ cron' = [cron EXCEPT !.pc = "ackclose"]
    /\ UNCHANGED <<rows, env, poller, hist>>

AckClose ==
    LET k == cron.key IN
    /\ cron.pc = "ackclose"
    /\ alerts' = [alerts EXCEPT ![k].open = FALSE]
    /\ cron' = [Loop("acks", k) EXCEPT !.cache = cron.cache]
    /\ UNCHANGED <<log, env, poller, hist>>

AcksEnd ==
    /\ cron.pc = "acks"
    /\ cron.todo = {}
    /\ cron' = IdleCron
    /\ UNCHANGED <<rows, env, poller, hist>>

Cron ==
    \/ CronStart
    \/ \E k \in Key : \/ StaleRule(k) \/ FollowUpRead(k)
                      \/ AlertWait(k) \/ AlertRead(k) \/ AckRead(k)
    \/ FollowUpLog \/ FollowUpSet \/ FollowUpEnd
    \/ AlertDetails \/ AlertIssue \/ AlertAlerted \/ AlertClose \/ AlertsEnd
    \/ AckIssue \/ AckClose \/ AcksEnd
-----------------------------------------------------------------------------
(***************************************************************************)
(* Users, devices, daily.php and time.  An event takes one from budget.    *)
(***************************************************************************)
Event == budget > 0 /\ budget' = budget - 1
Operation(op) == op \in Ops /\ MayStart /\ Event

FaultChange(k) ==
    /\ Event
    /\ "gone" \notin flags[k[1]]
    /\ \E n \in (0..MaxFaults) \ {fault[k]} : fault' = [fault EXCEPT ![k] = n]
    /\ UNCHANGED <<rows, purged, people, enabled, flags, poller, cron, hist>>

\* ack-alert.inc.php; the page that posts may show an older state of the row.
AckAlert(k) ==
    /\ Operation("ack")
    /\ alerts[k].state # -1
    /\ alerts' = [alerts EXCEPT ![k] = Opened(@, 2)]
    /\ UNCHANGED <<log, purged, fault, people, enabled, flags, poller, cron, hist>>

\* The same form reads `alerted` first; the update follows at once.
UnackAlert(k) ==
    /\ Operation("unack")
    /\ alerts[k].state # -1
    /\ alerts' = [alerts EXCEPT ![k] = Opened(@, @.alerted)]
    /\ UNCHANGED <<log, purged, fault, people, enabled, flags, poller, cron, hist>>

\* The API's ack_alert and unmute_alert leave open as it is.
ApiSetState(k, op, s) ==
    /\ Operation(op)
    /\ alerts[k].state # -1
    /\ alerts' = [alerts EXCEPT ![k].state = s]
    /\ UNCHANGED <<log, purged, fault, people, enabled, flags, poller, cron, hist>>

ToggleRule(r) ==
    /\ Operation("rule")
    /\ enabled' = IF r \in enabled THEN enabled \ {r} ELSE enabled \union {r}
    /\ UNCHANGED <<rows, purged, fault, people, flags, poller, cron, hist>>

ToggleFlag(d, f) ==
    /\ f \in {"ignore", "maintenance", "silent"}
    /\ Operation(f)
    /\ flags' = [flags EXCEPT ![d] = IF f \in @ THEN @ \ {f} ELSE @ \union {f}]
    /\ UNCHANGED <<rows, purged, fault, people, enabled, poller, cron, hist>>

\* delete_device: every table with a device_id loses the device's rows.  It
\* takes them one by one; they are one step here.
DeleteDevice(d) ==
    /\ Operation("gone")
    /\ "gone" \notin flags[d]
    /\ flags' = [flags EXCEPT ![d] = @ \union {"gone"}]
    /\ alerts' = [k \in Key |-> IF k[1] = d THEN NoAlert ELSE alerts[k]]
    /\ purged' = [k \in Key |-> IF k[1] = d THEN Len(log[k]) ELSE purged[k]]
    /\ fault' = [k \in Key |-> IF k[1] = d THEN 0 ELSE fault[k]]
    /\ UNCHANGED <<log, people, enabled, poller, cron, hist>>

\* daily.php deletes the log rows older than alert_log_purge days.
PurgeLog(k) ==
    /\ Operation("purge")
    /\ \E i \in (purged[k] + 1)..Len(log[k]) : purged' = [purged EXCEPT ![k] = i]
    /\ UNCHANGED <<rows, fault, people, enabled, flags, poller, cron, hist>>

ChangeContacts(k) ==
    /\ Operation("contacts")
    /\ people' = [people EXCEPT ![k] = @ + 1]
    /\ UNCHANGED <<rows, purged, fault, enabled, flags, poller, cron, hist>>

\* A PHP process dies between two statements.
CrashPoller(d) ==
    /\ "crash" \in Ops /\ Event
    /\ poller[d].pc # "idle"
    /\ poller' = [poller EXCEPT ![d] = IdlePoller]
    /\ UNCHANGED <<rows, purged, fault, people, enabled, flags, cron, hist>>

CrashCron ==
    /\ "crash" \in Ops /\ Event
    /\ cron.pc # "idle"
    /\ cron' = IdleCron
    /\ UNCHANGED <<rows, purged, fault, people, enabled, flags, poller, hist>>

\* The delay (t = "early") or the interval ("cool") of a key's rows is over;
\* the copies a process holds carry the same timestamps.
Over(row, t) == IF t = "early" THEN [row EXCEPT !.early = FALSE]
                               ELSE [row EXCEPT !.cool = FALSE]
Elapse(k, t) ==
    /\ \E i \in DOMAIN log[k] : log[k][i] # Over(log[k][i], t)
    /\ log' = [log EXCEPT ![k] = [i \in DOMAIN log[k] |-> Over(log[k][i], t)]]
    /\ poller' = IF PollKey(k[1]) = k
                 THEN [poller EXCEPT ![k[1]].row = Over(@, t)] ELSE poller
    /\ cron' = IF cron.key = k THEN [cron EXCEPT !.row = Over(@, t)] ELSE cron
    /\ UNCHANGED <<alerts, env, hist>>

Environment ==
    \/ \E k \in Key : \/ FaultChange(k)
                      \/ AckAlert(k)
                      \/ UnackAlert(k)
                      \/ ApiSetState(k, "apiack", 2)
                      \/ ApiSetState(k, "apiunmute", 1)
                      \/ PurgeLog(k)
                      \/ ChangeContacts(k)
    \/ \E r \in Rule : ToggleRule(r)
    \/ \E d \in Device : \/ \E f \in Flag : ToggleFlag(d, f)
                         \/ DeleteDevice(d)
                         \/ CrashPoller(d)
    \/ CrashCron

Time == \E k \in Key, t \in {"early", "cool"} : Elapse(k, t)

Next == (\E d \in Device : Poll(d)) \/ Cron \/ Environment \/ Time

Spec == Init /\ [][Next]_vars

\* Cron starts both programs again and again, and time passes.  Where they
\* do not overlap each start waits for the other program, hence SF.
Fairness ==
    /\ \A d \in Device : SF_vars(Poll(d))
    /\ SF_vars(Cron)
    /\ \A k \in Key, t \in {"early", "cool"} : WF_vars(Elapse(k, t))

FairSpec == Spec /\ Fairness
-----------------------------------------------------------------------------
(***************************************************************************)
(* Properties                                                              *)
(***************************************************************************)
\* A recovery RunAlerts decided to send is never swallowed by the
\* `return false` of DescribeAlert (alerts.php:501): the alert it ends is
\* still logged before it, but for a device that has been deleted.
RecoveryDescribed ==
    (cron.pc = "issue" /\ cron.iss) => Described(cron.key, cron.id, cron.row.state)

\* Once RunRules and alerts.php have finished, a row that is closed and not
\* acknowledged has had its latest event notified: `alerted` is that event.
\* A closed row is not looked at again, so an event that is closed
\* unnotified is lost (alerts.php:323).
ClosedMeansNotified ==
    Idle => \A k \in Key :
        (alerts[k].state \in {0, 1, 3, 4} /\ ~alerts[k].open /\ ~Extra[k[2]].mute)
            => alerts[k].alerted = LastRow(k).state

\* As long as the contacts believe in a fault, `alerted` remembers that they
\* were told: it is what RunAlerts decides from that a recovery is due
\* (alerts.php:251), and only the statement after the notice may lag behind.
FaultRemembered ==
    \A k \in Key :
        told[k] = "fault" =>
            \/ alerts[k].alerted # 0
            \/ cron.pc = "alerted" /\ cron.key = k

\* "Max alerts": no event is announced more often than the rule's count
\* (once where it is not positive), however often the row is opened again.
MaxAlerts ==
    \A k \in Key : LET c == Extra[k[2]].count IN
        c # -1 => issues[k] <= (IF c > 0 THEN c ELSE 1)

\* With fixed contacts an alert goes to the contacts of the moment it was
\* raised, whoever has been added since.
ContactsFixed ==
    (cron.pc = "issue" /\ cron.iss /\ cron.row.state = 1 /\ FixedContacts)
        => cron.row.to = trigger[cron.key]

\* What the contacts hear follows the abstract protocol: no recovery unless
\* the last thing they heard was a fault.
Protocol == INSTANCE AlertProtocol WITH Key <- Key, told <- told, turn <- turn
NoSpuriousRecovery == Protocol!Spec

\* A fault that stays is announced, unless somebody acknowledged it or the
\* device is kept silent; one that is gone for good does not stay announced.
Watched(k) == flags[k[1]] = {} /\ k[2] \in enabled
Broken(k) == (fault[k] > 0) # Extra[k[2]].invert
FaultAnnounced ==
    \A k \in Key :
        <>[](Watched(k) /\ Broken(k) /\ alerts[k].state # 2 => told[k] = "fault")
RecoveryAnnounced ==
    \A k \in Key : <>[](Watched(k) /\ ~Broken(k) => told[k] = "ok")

\* The alerts row of a deleted device does not stay active, even when its
\* poller was under way (ClearStaleAlerts).
DeletedDeviceCleared ==
    \A k \in Key :
        []("gone" \in flags[k[1]] => <>(alerts[k].state \in {-1, 0}))
=============================================================================
