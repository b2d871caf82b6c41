------------------------------- MODULE Billing -------------------------------
(***************************************************************************)
(* poll-billing.php samples the octet counters of a bill's ports every     *)
(* five minutes and bill_data keeps what each sample added; each hour      *)
(* billing-calculate.php sums the samples of a billing period into         *)
(* bill_history.  Nothing keeps two collectors apart.                      *)
(*                                                                         *)
(* Times are the database's.  The counters are read one after the other,   *)
(* and the calculation checks, sums and writes in statements of their own: *)
(* a sample may come between any two.  Of the time a row of bill_history   *)
(* was updated the model keeps whether that was after its period, and of   *)
(* the period of a row of bill_data whether it is more than 0.             *)
(*                                                                         *)
(* One bill: no statement touches the rows of two.  Time is counted in     *)
(* half days, the even ticks being the second of midnight and the odd ones *)
(* the rest of the day; a billing period is a number of whole days.        *)
(***************************************************************************)
EXTENDS Integers, FiniteSetsExt, Functions

CONSTANTS
    Port,
    Collector,   \* processes that run poll-billing.php
    Speed,       \* ifSpeed, in octets a tick, 0 where it is not known
    Blur,        \* octets by which the rounding of delta_to_bits misjudges
    Narrow,      \* 2^32, where ifInOctets starts again
    Old,         \* what the counters show at the start
    Length,      \* ticks of a billing period
    Start,       \* the first tick
    Ops,         \* what may go wrong: "crash", "reset", "fail", "again",
                 \*   "overlap", "edit", "back"
    None,
    MaxTime,     \* bound: ticks
    MaxTraffic,  \* bound: octets a side of a port carries in a tick
    MaxCarried,  \* bound: octets the bill's ports carry, and a side of any
    MaxRun,      \* bound: ticks a collector runs
    When,        \* bound: ticks at which the events of Ops happen
    MaxFaults    \* bound: events of Ops

Side == {"in", "out"}
Octets == [Side -> Nat]
Sample == [counter : Octets, delta : Octets, time : Nat]

ASSUME BillingAssumption ==
    /\ Speed \in Nat /\ Blur \in Nat /\ Old \in Nat /\ Narrow \in Nat \ {0}
    /\ IsFiniteSet(Port)
    /\ Length \in Nat \ {0} /\ Start \in 0..MaxTime
    /\ MaxTime \in Nat /\ MaxCarried \in Nat /\ MaxTraffic \in Nat
    /\ MaxRun \in Nat /\ MaxFaults \in Nat
    /\ Speed > 0 => MaxTraffic <= Speed
    /\ None \notin Sample

VARIABLES
    clock,
    counter,   \* the counters of the ports, in their devices
    carried,   \* octets carried by ports on the bill
    ports,     \* bill_ports
    last,      \* bill_port_counters: the last sample of each port
    first,     \* the counters the first sample of each port stored
    data,      \* bill_data, by timestamp
    history,   \* bill_history, by billing period
    job,       \* what each collector is doing
    calc,      \* what billing-calculate.php is doing
    started,   \* when cron last started a collector
    spoilt,    \* what has happened that upsets the samples
    faults

vars == <<clock, counter, carried, ports, last, first, data, history, job,
          calc, started, spoilt, faults>>

Idle == [at |-> "idle", todo |-> {}, now |-> 0, port |-> None,
         got |-> [s \in Side |-> 0], delta |-> [s \in Side |-> 0], sum |-> 0]

IdleCalc == [at |-> "idle", k |-> 0, total |-> 0, missed |-> FALSE]

From(k) == k * Length
Periods == 0..(MaxTime \div Length)
\* timestamp > datefrom and timestamp <= dateto, a second before the next
InPeriod(k, t) == From(k) < t /\ t < From(k + 1)
Rows(k) == {t \in DOMAIN data : InPeriod(k, t)}
Deltas == [t \in DOMAIN data |-> data[t].delta]
getSum(k) == SumFunctionOnSet(Deltas, Rows(k))
getPeriod(k) == \E t \in Rows(k) : data[t].period

\* updated is not before dateto
Ended(k) == clock >= From(k + 1)
Closed(k) == history[k] # None /\ history[k].closed

TypeOK ==
    /\ clock \in Start..MaxTime
    /\ counter \in [Port -> Octets]
    /\ carried \in Nat
    /\ ports \subseteq Port
    /\ \A p \in Port :
          \/ last[p] = None /\ first[p] = None
          \/ last[p] \in Sample /\ last[p].time <= MaxTime /\ first[p] \in Octets
    /\ \A t \in DOMAIN data :
          t \in 0..MaxTime /\ data[t] \in [delta : Nat, period : BOOLEAN]
    /\ \A k \in Periods :
          \/ history[k] = None
          \/ history[k] \in [total : Nat, closed : BOOLEAN]
    /\ job \in [Collector -> [at : {"idle", "ports", "out", "last", "store"},
                              todo : SUBSET Port, now : 0..MaxTime,
                              port : Port \cup {None}, got : Octets,
                              delta : Octets, sum : Nat]]
    /\ calc \in [at : {"idle", "sum", "write"}, k : Periods, total : Nat,
                 missed : BOOLEAN]
    /\ started \in -1..MaxTime
    /\ faults \in 0..MaxFaults

Init ==
    /\ clock = Start
    /\ counter = [p \in Port |-> [s \in Side |-> Old]]
    /\ carried = 0
    /\ ports \in SUBSET Port
    /\ last = [p \in Port |-> None]
    /\ first = [p \in Port |-> None]
    /\ data = [t \in {} |-> None]
    /\ history = [k \in Periods |-> None]
    /\ job = [c \in Collector |-> Idle]
    /\ calc = IdleCalc
    /\ started = -1
    /\ spoilt = {}
    /\ faults = 0

Fault(op) ==
    /\ op \in Ops /\ clock \in When /\ faults < MaxFaults
    /\ faults' = faults + 1
-----------------------------------------------------------------------------
(* The collector.                                                          *)

Active == {c \in Collector : job[c].at # "idle"}

\* Which of those that are idle stands for a new process is all the same.
NewProcess == CHOOSE c \in Collector : job[c].at = "idle"

\* The list of ports and NOW() of the bill.
Begin(c) ==
    /\ job[c].at = "idle" /\ c = NewProcess
    /\ job' = [job EXCEPT ![c] = [Idle EXCEPT !.at = "ports", !.todo = ports,
                                              !.now = clock]]
    /\ started' = clock
    /\ UNCHANGED <<clock, counter, carried, ports, last, first, data, history, calc>>

Cron(c) ==
    /\ Active = {} /\ started < clock
    /\ Begin(c)
    /\ UNCHANGED <<calc, spoilt, faults>>

\* The collector of five minutes ago is still at work.
CronToo(c) ==
    /\ Active # {} /\ started < clock
    /\ Begin(c)
    /\ Fault("overlap") /\ spoilt' = spoilt \cup {"overlap"}

\* poll-billing.php 3 collects all the bills, and then bill 3 again.
Again(c) ==
    /\ Active = {} /\ started = clock
    /\ Begin(c)
    /\ Fault("again") /\ UNCHANGED spoilt

\* The inbound counter of the next port, then the outbound one.
Get(c, p, s, v) ==
    /\ IF s = "in" THEN job[c].at = "ports" /\ p \in job[c].todo
                   ELSE job[c].at = "out" /\ p = job[c].port
    /\ job' = [job EXCEPT ![c].at = IF s = "in" THEN "out" ELSE "last",
                          ![c].port = p, ![c].got[s] = v]
    /\ UNCHANGED <<clock, counter, carried, ports, last, first, data, history,
                   calc, started>>

getValue(c, p, s) == Get(c, p, s, counter[p][s]) /\ UNCHANGED <<spoilt, faults>>

\* ifInOctets in place of ifHCInOctets; or no number from either, and false
\* compares, subtracts and is stored as 0.
Shown(n) == {n % Narrow, 0}
getNoValue(c, p, s) ==
    /\ \E v \in Shown(counter[p][s]) : Get(c, p, s, v)
    /\ Fault("fail")
    /\ spoilt' = spoilt \cup {"fail"}

\* A rate above ifSpeed.  The code subtracts two rates that are rounded, and
\* how the comparison ends is open where they are too close to ifSpeed.  The
\* rates of a sample of the same second are not numbers, and those of one
\* from the future negative.
TooFast(n, period) == Speed > 0 /\ period > 0 /\ n > Speed * period + Blur
NotSlow(n, period) == Speed > 0 /\ period > 0 /\ n > Speed * period - Blur
Open(n, period) == NotSlow(n, period) /\ ~TooFast(n, period)

\* Mutant: a counter that went back is not noticed.
DeltaSigned(now, was, delta, period) ==
    (IF NotSlow(now - was, period) THEN {delta} ELSE {})
        \cup (IF TooFast(now - was, period) THEN {} ELSE {now - was})

\* Mutant: ifSpeed is not looked at.
DeltaUnchecked(now, was, delta, period) ==
    {IF now < was THEN delta ELSE now - was}

\* Mutant: what several ticks carried is compared with the rate of one.
DeltaHasty(now, was, delta, period) ==
    (IF now < was \/ NotSlow(now - was, 1) THEN {delta} ELSE {})
        \cup (IF now < was \/ TooFast(now - was, 1) THEN {} ELSE {now - was})

\* A rate above ifSpeed, or a counter that went back: the last delta again.
Delta(now, was, delta, period) ==
    (IF now < was \/ NotSlow(now - was, period) THEN {delta} ELSE {})
        \cup (IF now < was \/ TooFast(now - was, period) THEN {} ELSE {now - was})

\* Mutant: the first sample bills all that the counters show.
CompareFirst(c) ==
    /\ job[c].at = "last"
    /\ LET row == last[job[c].port]
           may(s) == IF row = None THEN {job[c].got[s]}
                     ELSE Delta(job[c].got[s], row.counter[s], row.delta[s],
                                clock - row.time)
       IN  \E i \in may("in"), o \in may("out") :
              job' = [job EXCEPT ![c].at = "store",
                        ![c].delta = [s \in Side |-> IF s = "in" THEN i ELSE o]]
    /\ UNCHANGED <<clock, counter, carried, ports, last, first, data, history,
                   calc, started, spoilt, faults>>

\* getLastPortCounter and the comparisons
Compare(c) ==
    /\ job[c].at = "last"
    /\ LET got == job[c].got
           row == last[job[c].port]
           period == IF row = None THEN 0 ELSE clock - row.time
           may(s) == IF row = None THEN {0}
                     ELSE Delta(got[s], row.counter[s], row.delta[s], period)
           open == row # None /\ \E s \in Side : Open(got[s] - row.counter[s], period)
       IN  /\ \E i \in may("in"), o \in may("out") :
                 job' = [job EXCEPT ![c].at = "store",
                           ![c].delta = [s \in Side |-> IF s = "in" THEN i ELSE o]]
           /\ spoilt' = spoilt
                \cup (IF row # None /\ period <= 0 THEN {"instant"} ELSE {})
                \cup (IF open THEN {"open"} ELSE {})
    /\ UNCHANGED <<clock, counter, carried, ports, last, first, data, history,
                   calc, started, faults>>

\* The update, or the insert of the first sample.
Store(c) ==
    /\ job[c].at = "store"
    /\ LET j == job[c]
           p == j.port
       IN  /\ last' = [last EXCEPT ![p] = [counter |-> j.got,
                                           delta |-> j.delta, time |-> j.now]]
           /\ first' = [first EXCEPT ![p] = IF last[p] = None THEN j.got ELSE @]
           /\ job' = [job EXCEPT ![c].at = "ports", ![c].todo = @ \ {p},
                        ![c].sum = @ + j.delta["in"] + j.delta["out"]]
    /\ UNCHANGED <<clock, counter, carried, ports, data, history, calc, started,
                   spoilt, faults>>

\* getLastMeasurement.  A sum below 0 is replaced by the last one, a period
\* below 0 stored nowhere, and the key (bill_id, timestamp) refuses a second row.
Insert(c) ==
    /\ job[c].at = "ports" /\ job[c].todo = {}
    /\ LET t == job[c].now
           latest == Max(DOMAIN data)
           period == IF DOMAIN data = {} THEN 0 ELSE clock - latest
           delta == IF job[c].sum >= 0 THEN job[c].sum
                    ELSE IF DOMAIN data = {} THEN 0 ELSE data[latest].delta
           refused == period < 0 \/ t \in DOMAIN data
       IN  /\ data' = IF refused THEN data
                      ELSE [u \in DOMAIN data \cup {t} |->
                               IF u = t THEN [delta |-> delta, period |-> period > 0]
                                        ELSE data[u]]
           /\ calc' = [calc EXCEPT !.missed =
                          @ \/ (calc.at = "write" /\ ~refused /\ InPeriod(calc.k, t))]
           /\ spoilt' = spoilt
                \cup (IF refused THEN {"refused"} ELSE {})
                \cup (IF \E k \in Periods : InPeriod(k, t) /\ Ended(k) /\ Closed(k)
                      THEN {"late"} ELSE {})
    /\ job' = [job EXCEPT ![c] = Idle]
    /\ UNCHANGED <<clock, counter, carried, ports, last, first, history, started,
                   faults>>

Crash(c) ==
    /\ job[c].at # "idle"
    /\ job' = [job EXCEPT ![c] = Idle]
    /\ Fault("crash")
    /\ spoilt' = spoilt \cup {"crash"}
    /\ UNCHANGED <<clock, counter, carried, ports, last, first, data, history, calc,
                   started>>
-----------------------------------------------------------------------------
(* billing-calculate.php, which takes one period after the other.          *)

\* getDates: the current period is the one the day before lies in.
Begun(k) == clock \div 2 > From(k) \div 2

\* The row of bill_history, which nothing else writes, and getPeriod: dateto
\* is after date_updated.
Check(k) ==
    /\ calc.at = "idle" /\ Begun(k)
    /\ getPeriod(k) /\ ~Closed(k)
    /\ calc' = [IdleCalc EXCEPT !.at = "sum", !.k = k]
    /\ UNCHANGED <<clock, counter, carried, ports, last, first, data, history,
                   job, started, spoilt, faults>>

getRates ==
    /\ calc.at = "sum"
    /\ calc' = [calc EXCEPT !.at = "write", !.total = getSum(calc.k)]
    /\ UNCHANGED <<clock, counter, carried, ports, last, first, data, history,
                   job, started, spoilt, faults>>

\* Mutant: the time of the row is compared with datefrom.
WriteFrom ==
    /\ calc.at = "write"
    /\ history' = [history EXCEPT
           ![calc.k] = [total |-> calc.total, closed |-> clock >= From(calc.k)]]
    /\ spoilt' = spoilt \cup (IF calc.missed /\ Ended(calc.k) THEN {"late"} ELSE {})
    /\ calc' = IdleCalc
    /\ UNCHANGED <<clock, counter, carried, ports, last, first, data, job,
                   started, faults>>

\* The update, or the insert, with NOW() in updated.
Write ==
    /\ calc.at = "write"
    /\ history' = [history EXCEPT
                      ![calc.k] = [total |-> calc.total, closed |-> Ended(calc.k)]]
    /\ spoilt' = spoilt \cup (IF calc.missed /\ Ended(calc.k) THEN {"late"} ELSE {})
    /\ calc' = IdleCalc
    /\ UNCHANGED <<clock, counter, carried, ports, last, first, data, job,
                   started, faults>>

CrashCalc ==
    /\ calc.at # "idle"
    /\ calc' = IdleCalc
    /\ Fault("crash")
    /\ UNCHANGED <<clock, counter, carried, ports, last, first, data, history,
                   job, started, spoilt>>

Calculate(k) == Check(k) \/ (calc.k = k /\ (getRates \/ Write))
-----------------------------------------------------------------------------
(* The pages of a bill, the devices and time.                              *)

AddPort(p) ==
    /\ p \notin ports
    /\ ports' = ports \cup {p}
    /\ Fault("edit") /\ spoilt' = spoilt \cup {"edit"}
    /\ UNCHANGED <<clock, counter, carried, last, first, data, history, job, calc,
                   started>>

\* The row of bill_port_counters stays.
DeletePort(p) ==
    /\ p \in ports
    /\ ports' = ports \ {p}
    /\ Fault("edit") /\ spoilt' = spoilt \cup {"edit"}
    /\ UNCHANGED <<clock, counter, carried, last, first, data, history, job, calc,
                   started>>

\* bill_hist, which it empties too, is not the name of a table.
ResetBill ==
    /\ data' = [t \in {} |-> None]
    /\ Fault("edit") /\ spoilt' = spoilt \cup {"emptied"}
    /\ UNCHANGED <<clock, counter, carried, ports, last, first, history, job, calc,
                   started>>

ResetCounters(p) ==
    /\ counter' = [counter EXCEPT ![p] = [s \in Side |-> 0]]
    /\ Fault("reset") /\ spoilt' = spoilt \cup {"reset"}
    /\ UNCHANGED <<clock, carried, ports, last, first, data, history, job, calc,
                   started>>

Tick ==
    /\ clock < MaxTime
    /\ \A c \in Active : clock < job[c].now + MaxRun
    /\ clock' = clock + 1
    /\ \E traffic \in [Port -> [Side -> 0..MaxTraffic]] :
          /\ counter' = [p \in Port |->
                            [s \in Side |-> counter[p][s] + traffic[p][s]]]
          /\ carried' = carried + SumFunctionOnSet(
                [p \in Port |-> traffic[p]["in"] + traffic[p]["out"]], ports)
          /\ carried' <= MaxCarried
          /\ \A p \in Port, s \in Side : counter'[p][s] <= Old + MaxCarried
    /\ UNCHANGED <<ports, last, first, data, history, job, calc, started, spoilt,
                   faults>>

\* The clock of the database is set back.
SetBack ==
    /\ clock > Start
    /\ clock' = clock - 1
    /\ started' = -1
    /\ Fault("back") /\ spoilt' = spoilt \cup {"back"}
    /\ UNCHANGED <<counter, carried, ports, last, first, data, history, job, calc>>

Next ==
    \/ Tick \/ SetBack \/ ResetBill \/ CrashCalc
    \/ \E k \in Periods : Calculate(k)
    \/ \E p \in Port : AddPort(p) \/ DeletePort(p) \/ ResetCounters(p)
    \/ \E c \in Collector :
          \/ Cron(c) \/ CronToo(c) \/ Again(c)
          \/ Compare(c) \/ Store(c) \/ Insert(c) \/ Crash(c)
          \/ \E p \in Port, s \in Side : getValue(c, p, s) \/ getNoValue(c, p, s)

Spec == Init /\ [][Next]_vars

\* Cron starts the calculation every hour, and time passes.
FairSpec ==
    /\ Spec
    /\ WF_vars(Tick)
    /\ \A k \in Periods : SF_vars(Calculate(k))
-----------------------------------------------------------------------------
Billed == SumFunctionOnSet(Deltas, DOMAIN data)

\* What the counters gained from the first sample to the last.
Gain(p) ==
    LET side(s) == last[p].counter[s] - first[p][s]
    IN  IF last[p] = None THEN 0 ELSE side("in") + side("out")

\* Without counters that go back, answers that fail, two collectors at once,
\* ports that come and go, a clock that goes back and a rate too close to
\* ifSpeed for the comparison, a bill never shows more than its ports carried:
\* a collector that dies, a row that is refused or deleted only loses octets.
Upset == {"reset", "fail", "overlap", "edit", "back", "open"}
NeverOverbilled == spoilt \cap Upset = {} => Billed <= carried

\* While nothing of the kind has happened, what the collectors that are done
\* have billed is what the counters gained since the first sample: nothing is
\* left out and nothing counted twice (the comparisons of CollectData).  No
\* line carries more than ifSpeed (BillingAssumption), so that its octets are
\* only refused where the rounding decides.
NothingLeftOut ==
    spoilt = {} /\ Active = {} =>
        Billed = SumFunctionOnSet([p \in Port |-> Gain(p)], Port)

\* Whatever the counters do and however the collectors overlap, a sample of a
\* port whose speed is known never bills more than the line can have carried
\* since the start, and the error of the rounding: the last delta put in place
\* of one that is refused passed the check once itself.  The exceptions are a
\* clock that goes back and two samples in the same second, whose rates PHP
\* cannot compare.
LineRate ==
    Speed > 0 /\ spoilt \cap {"instant", "back"} = {} =>
        \A p \in Port : last[p] # None =>
            \A s \in Side : last[p].delta[s] <= Speed * (clock - Start) + Blur

\* In the end bill_history shows for each billing period the sum of the
\* samples in it, also of those stored while it was summed, unless one was
\* stored after the row that closes the period, or after the sum this row was
\* written from (billing-calculate.php:36-131), or the clock went back.
HistoryCatchesUp ==
    \A k \in Periods :
        <>[](Begun(k) /\ getPeriod(k) /\ spoilt \cap {"late", "back"} = {} =>
                history[k] # None /\ history[k].total = getSum(k))
=============================================================================
