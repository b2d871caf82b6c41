---------------------------- MODULE BillingProofs ----------------------------
(***************************************************************************)
(* Proofs about Billing for every number of ports and collectors, every    *)
(* speed and every bound.  First what one sample can bill (LineRate): the  *)
(* samples lie between the first tick and now, and the deltas, stored or   *)
(* about to be stored, are within what the line can have carried.  Then    *)
(* the types, and last the totals: what the samples add up to is never     *)
(* more than the ports carried, and undisturbed exactly what they gained.  *)
(***************************************************************************)
EXTENDS Billing, SumLemmas, TLAPS

Job == [at : {"idle", "ports", "out", "last", "store"}, todo : SUBSET Port, now : Int,
        port : Port \cup {None}, got : Octets, delta : Octets, sum : Int]

\* What the line can have carried since the start, and the rounding.
Within(delta) == \A s \in Side : delta[s] <= Speed * (clock - Start) + Blur
Comparable == Speed > 0 /\ spoilt \cap {"instant", "back"} = {}

\* The latest time seen: the clock, unless it was set back.
Today == IF "back" \in spoilt THEN MaxTime ELSE clock

Shapes ==
    /\ clock \in Nat /\ Start <= clock /\ clock <= MaxTime
    /\ counter \in [Port -> Octets]
    /\ ports \subseteq Port
    /\ last \in [Port -> Sample \cup {None}]
    /\ job \in [Collector -> Job]

Timely ==
    /\ \A p \in Port : last[p] # None => last[p].time \in Start..Today
    /\ \A c \in Collector : job[c].at # "idle" => job[c].now \in Start..Today
    /\ \A c \in Collector : job[c].at \in {"out", "last", "store"} => job[c].port \in Port

Bounded ==
    Comparable =>
        /\ \A p \in Port : last[p] # None => Within(last[p].delta)
        /\ \A c \in Collector : Within(job[c].delta)

IInv == Shapes /\ Timely /\ Bounded

\* Longer times carry more.
LEMMA Monotone ==
    ASSUME NEW s \in Nat, NEW a \in Int, NEW b \in Int, a <= b
    PROVE  s * a <= s * b
<1>1. b - a \in Nat OBVIOUS
<1>2. s * (b - a) >= 0 BY <1>1
<1>3. s * (b - a) = s * b - s * a OBVIOUS
<1> QED BY <1>2, <1>3

LEMMA Longer ==
    ASSUME NEW a \in Nat, NEW b \in Nat, a <= b
    PROVE  Speed * (a - Start) <= Speed * (b - Start)
<1>1. /\ Speed \in Nat /\ Start \in Nat BY BillingAssumption
<1>2. /\ a - Start \in Int /\ b - Start \in Int /\ a - Start <= b - Start
  BY <1>1
<1> QED BY <1>1, <1>2, Monotone

\* What the comparisons may give: numbers, and within the speed of the line
\* and the rounding if the last delta was and the sample is of a later second.
LEMMA DeltaBounded ==
    ASSUME NEW now \in Nat, NEW was \in Nat, NEW delta \in Nat,
           NEW period \in Int
    PROVE  /\ Delta(now, was, delta, period) \subseteq Nat
           /\ \A limit \in Int :
                 /\ Speed > 0 /\ period > 0
                 /\ delta <= limit /\ Speed * period + Blur <= limit
                 => \A d \in Delta(now, was, delta, period) : d <= limit
<1> USE BillingAssumption
<1> DEFINE sp == Speed * period
<1>1. sp \in Int OBVIOUS
<1>2. \A d \in Delta(now, was, delta, period) :
        \/ d = delta
        \/ /\ d = now - was /\ now >= was
           /\ Speed > 0 /\ period > 0 => now - was <= sp + Blur
  <2> SUFFICES ASSUME NEW d \in Delta(now, was, delta, period), d # delta
               PROVE  /\ d = now - was /\ now >= was
                      /\ Speed > 0 /\ period > 0 => now - was <= sp + Blur
    OBVIOUS
  <2>1. d = now - was /\ ~ (now < was \/ TooFast(now - was, period))
    BY DEF Delta
  <2>2. Speed > 0 /\ period > 0 => ~ (now - was > sp + Blur)
    BY <2>1 DEF TooFast
  <2> HIDE DEF sp
  <2> QED BY <1>1, <2>1, <2>2
<1> HIDE DEF sp
<1>3. Delta(now, was, delta, period) \subseteq Nat
  BY <1>1, <1>2
<1>4. ASSUME NEW limit \in Int, Speed > 0, period > 0, delta <= limit,
             sp + Blur <= limit,
             NEW d \in Delta(now, was, delta, period)
      PROVE  d <= limit
  BY <1>1, <1>2, <1>4
<1> QED BY <1>3, <1>4 DEF sp

\* A job remains one as its fields change, one after the other.
LEMMA JobBegun ==
    ASSUME NEW r \in Job, NEW todo \in SUBSET Port, NEW now \in Int
    PROVE  [r EXCEPT !.at = "ports", !.todo = todo, !.now = now] \in Job
<1> DEFINE r1 == [r EXCEPT !.at = "ports"]
           r2 == [r1 EXCEPT !.todo = todo]
           r3 == [r2 EXCEPT !.now = now]
<1>1. r1 \in Job BY DEF Job
<1>2. r2 \in Job
  <2> HIDE DEF r1
  <2> QED BY <1>1 DEF Job
<1>3. r3 \in Job
  <2> HIDE DEF r1, r2
  <2> QED BY <1>2 DEF Job
<1>4. r3 = [r EXCEPT !.at = "ports", !.todo = todo, !.now = now]
  OBVIOUS
<1> QED BY <1>3, <1>4

LEMMA JobGot ==
    ASSUME NEW r \in Job, NEW at \in {"out", "last"}, NEW p \in Port,
           NEW s \in Side, NEW v \in Nat
    PROVE  [r EXCEPT !.at = at, !.port = p, !.got[s] = v] \in Job
<1> DEFINE r1 == [r EXCEPT !.at = at]
           r2 == [r1 EXCEPT !.port = p]
           r3 == [r2 EXCEPT !.got[s] = v]
<1>1. r1 \in Job BY DEF Job
<1>2. r2 \in Job
  <2> HIDE DEF r1
  <2> QED BY <1>1 DEF Job
<1>3. r3 \in Job
  <2>1. [r2.got EXCEPT ![s] = v] \in Octets BY <1>2 DEF Job, Octets
  <2>2. r3 = [r2 EXCEPT !.got = [r2.got EXCEPT ![s] = v]] BY <1>2 DEF Job
  <2> HIDE DEF r1, r2, r3
  <2> QED BY <1>2, <2>1, <2>2 DEF Job
<1>4. r3 = [r EXCEPT !.at = at, !.port = p, !.got[s] = v]
  OBVIOUS
<1> QED BY <1>3, <1>4

LEMMA JobStored ==
    ASSUME NEW r \in Job, NEW todo \in SUBSET Port, NEW sum \in Int
    PROVE  [r EXCEPT !.at = "ports", !.todo = todo, !.sum = sum] \in Job
<1> DEFINE r1 == [r EXCEPT !.at = "ports"]
           r2 == [r1 EXCEPT !.todo = todo]
           r3 == [r2 EXCEPT !.sum = sum]
<1>1. r1 \in Job BY DEF Job
<1>2. r2 \in Job
  <2> HIDE DEF r1
  <2> QED BY <1>1 DEF Job
<1>3. r3 \in Job
  <2> HIDE DEF r1, r2
  <2> QED BY <1>2 DEF Job
<1>4. r3 = [r EXCEPT !.at = "ports", !.todo = todo, !.sum = sum]
  OBVIOUS
<1> QED BY <1>3, <1>4

LEMMA InitIInv == Init => IInv
<1> USE BillingAssumption
<1> SUFFICES ASSUME Init PROVE IInv OBVIOUS
<1>1. Idle \in Job BY DEF Idle, Job, Octets
<1>2. Shapes BY <1>1 DEF Init, Shapes, Octets
<1>3. Timely BY DEF Init, Timely, Idle
<1>4. Speed * (clock - Start) + Blur >= 0 BY DEF Init
<1>5. Bounded BY <1>4 DEF Init, Bounded, Within, Idle
<1> QED BY <1>2, <1>3, <1>5 DEF IInv

\* The bound on the deltas outlives a step of time and the other events.
LEMMA WithinGrows ==
    ASSUME NEW delta \in Octets, Within(delta), clock \in Nat, clock' \in Nat,
           clock <= clock'
    PROVE  Within(delta)'
<1> USE BillingAssumption
<1>1. Speed * (clock - Start) <= Speed * (clock' - Start)
  BY Longer
<1>2. /\ Speed * (clock - Start) \in Int
      /\ Speed * (clock' - Start) \in Int
  OBVIOUS
<1>3. ASSUME NEW s \in Side PROVE delta[s] <= Speed * (clock' - Start) + Blur
  <2> DEFINE before == Speed * (clock - Start)
             after == Speed * (clock' - Start)
  <2>1. /\ delta[s] <= before + Blur /\ delta[s] \in Nat
        /\ before \in Int /\ after \in Int /\ before <= after
    BY <1>1, <1>2 DEF Within, Octets
  <2> HIDE DEF before, after
  <2>2. delta[s] <= after + Blur BY <2>1
  <2> QED BY <2>2 DEF after
<1> QED BY <1>3 DEF Within

\* What was before now stays so.
LEMMA Later ==
    ASSUME Shapes, spoilt \subseteq spoilt',
           clock' \in Nat, clock' <= MaxTime,
           clock <= clock' \/ "back" \in spoilt'
    PROVE  Start..Today \subseteq Start..Today'
BY BillingAssumption DEF Shapes, Today

\* A step that changes jobs only to a job without a sample.
LEMMA OtherSteps ==
    ASSUME IInv, NEW c \in Collector, NEW j \in Job,
           j.at # "idle" => j.now \in Start..Today,
           j.at \notin {"out", "last", "store"},
           Comparable => Within(j.delta),
           job' = [job EXCEPT ![c] = j],
           UNCHANGED <<clock, counter, last, ports>>, spoilt \subseteq spoilt'
    PROVE  IInv'
<1>1. Shapes' BY DEF IInv, Shapes
<1>2. Timely'
  <2>1. Start..Today \subseteq Start..Today' BY Later DEF IInv, Shapes
  <2> QED BY <2>1 DEF IInv, Shapes, Timely
<1>3. Bounded' BY DEF IInv, Shapes, Bounded, Comparable, Within
<1> QED BY <1>1, <1>2, <1>3 DEF IInv

\* A step of cron, of the pages of a bill or of the calculation, and a sample
\* that is inserted or a collector that dies.
LEMMA NotNegative ==
    ASSUME IInv PROVE 0 <= Speed * (clock - Start) + Blur
<1>1. Speed \in Nat /\ Blur \in Nat /\ clock - Start \in Nat
  BY BillingAssumption DEF IInv, Shapes
<1>2. 0 <= Speed * (clock - Start) /\ Speed * (clock - Start) \in Int
  BY <1>1, Monotone
<1> DEFINE x == Speed * (clock - Start)
<1> HIDE DEF x
<1>3. 0 <= x + Blur BY <1>1, <1>2 DEF x
<1> QED BY <1>3 DEF x

LEMMA BeginStep == ASSUME IInv, NEW c \in Collector, Begin(c),
                          spoilt \subseteq spoilt'
                   PROVE  IInv'
<1> DEFINE j == [Idle EXCEPT !.at = "ports", !.todo = ports, !.now = clock]
<1>1. j \in Job
  <2>1. Idle \in Job BY DEF Idle, Job, Octets
  <2>2. clock \in Int /\ ports \in SUBSET Port BY DEF IInv, Shapes
  <2> QED BY <2>1, <2>2, JobBegun
<1>2. j.now \in Start..Today
  BY BillingAssumption DEF IInv, Shapes, Idle, Today
<1>3. Comparable => Within(j.delta)
  <2> SUFFICES ASSUME Comparable PROVE Within(j.delta) OBVIOUS
  <2> QED BY NotNegative DEF Within, Idle
<1>4. j.at = "ports" BY DEF Idle
<1>5. job' = [job EXCEPT ![c] = j] BY DEF Begin
<1>6. UNCHANGED <<clock, counter, last, ports>> BY DEF Begin
<1> HIDE DEF j
<1> QED BY <1>1, <1>2, <1>3, <1>4, <1>5, <1>6, OtherSteps

LEMMA IdleStep == ASSUME IInv, NEW c \in Collector,
                         job' = [job EXCEPT ![c] = Idle],
                         UNCHANGED <<clock, counter, last, ports>>,
                         spoilt \subseteq spoilt'
                  PROVE  IInv'
<1>1. Idle \in Job BY DEF Idle, Job, Octets
<1>2. Idle.at = "idle" BY DEF Idle
<1>3. Comparable => Within(Idle.delta)
  <2> SUFFICES ASSUME Comparable PROVE Within(Idle.delta) OBVIOUS
  <2> QED BY NotNegative DEF Within, Idle
<1> QED BY <1>1, <1>2, <1>3, OtherSteps

\* An answer of the device: a number, whatever it shows.
LEMMA GetStep == ASSUME IInv, NEW c \in Collector, NEW p \in Port,
                        NEW s \in Side, NEW v \in Nat, Get(c, p, s, v),
                        spoilt \subseteq spoilt'
                 PROVE  IInv'
<1> DEFINE at == IF s = "in" THEN "out" ELSE "last"
           j == [job[c] EXCEPT !.at = at, !.port = p, !.got[s] = v]
<1>0. /\ job \in [Collector -> Job] /\ job[c] \in Job
      /\ job[c].at # "idle"
      /\ UNCHANGED <<clock, counter, last, ports>>
  BY DEF Get, IInv, Shapes
<1>a. at \in {"out", "last"} OBVIOUS
<1>b. job' = [job EXCEPT ![c] = j] BY DEF Get
<1> HIDE DEF at
<1>1. j \in Job BY <1>0, <1>a, JobGot
<1>2. /\ j.at = at /\ j.port = p
      /\ j.now = job[c].now /\ j.delta = job[c].delta
  BY <1>0 DEF Job
<1> HIDE DEF j
<1>3. job' \in [Collector -> Job] /\ job'[c] = j BY <1>0, <1>b, <1>1
<1>4. \A d \in Collector : d # c => job'[d] = job[d] BY <1>0, <1>b
<1>5. Shapes' BY <1>0, <1>3 DEF IInv, Shapes
<1>6. Timely'
  <2>1. Start..Today \subseteq Start..Today' BY <1>0, Later DEF IInv, Shapes
  <2> QED BY <1>0, <1>a, <1>2, <1>3, <1>4, <2>1 DEF IInv, Timely
<1>7. \A d \in Collector : job'[d].delta = job[d].delta
  BY <1>2, <1>3, <1>4
<1>8. Bounded' BY <1>0, <1>7 DEF IInv, Bounded, Comparable, Within
<1> QED BY <1>5, <1>6, <1>8 DEF IInv

LEMMA ShownNat == ASSUME NEW n \in Nat PROVE Shown(n) \subseteq Nat
<1>1. n % Narrow \in Nat BY BillingAssumption
<1> QED BY <1>1 DEF Shown

\* What Compare does to the job of a collector.
LEMMA Compared ==
    ASSUME IInv, NEW c \in Collector, Compare(c)
    PROVE  \E delta \in [Side -> Int] :
              /\ job' = [job EXCEPT ![c].at = "store", ![c].delta = delta]
              /\ \A s \in Side :
                    LET row == last[job[c].port]
                    IN  delta[s] \in
                           IF row = None THEN {0}
                           ELSE Delta(job[c].got[s], row.counter[s],
                                      row.delta[s], clock - row.time)
<1> DEFINE got == job[c].got
           row == last[job[c].port]
           period == IF row = None THEN 0 ELSE clock - row.time
           may(s) == IF row = None THEN {0}
                     ELSE Delta(got[s], row.counter[s], row.delta[s], period)
<1>1. PICK i \in may("in"), o \in may("out") :
         job' = [job EXCEPT ![c].at = "store",
                   ![c].delta = [s \in Side |-> IF s = "in" THEN i ELSE o]]
  BY DEF Compare
<1>2. \A s \in Side : may(s) \subseteq Nat
  <2>1. CASE row = None BY <2>1
  <2>2. CASE row # None
    <3>1. job[c].at = "last" /\ job[c] \in Job BY DEF Compare, IInv, Shapes
    <3>2. row \in Sample BY <2>2, <3>1 DEF IInv, Shapes, Timely
    <3>3. /\ period \in Int
          /\ \A s \in Side : /\ got[s] \in Nat /\ row.counter[s] \in Nat
                              /\ row.delta[s] \in Nat
      BY <2>2, <3>1, <3>2 DEF Sample, Octets, Job, IInv, Shapes
    <3> HIDE DEF period, row, got
    <3> QED BY <2>2, <3>3, DeltaBounded
  <2> QED BY <2>1, <2>2
<1> DEFINE delta == [s \in Side |-> IF s = "in" THEN i ELSE o]
<1>3. i \in Nat /\ o \in Nat BY <1>1, <1>2 DEF Side
<1>4. \A s \in Side : delta[s] \in may(s) BY <1>1 DEF Side
<1>5. delta \in [Side -> Int] BY <1>3
<1>6. row # None => period = clock - row.time OBVIOUS
<1> HIDE DEF delta
<1> WITNESS delta \in [Side -> Int]
<1> QED BY <1>1, <1>4, <1>6 DEF delta

\* The comparisons: this is where the bound comes from.
LEMMA CompareStep == ASSUME IInv, NEW c \in Collector, Compare(c) PROVE IInv'
<1> USE BillingAssumption
<1> DEFINE row == last[job[c].port]
           period == clock - row.time
<1>0. PICK delta \in [Side -> Int] :
         /\ job' = [job EXCEPT ![c].at = "store", ![c].delta = delta]
         /\ \A s \in Side :
               delta[s] \in IF row = None THEN {0}
                            ELSE Delta(job[c].got[s], row.counter[s],
                                       row.delta[s], period)
  BY Compared
<1>1. /\ job[c].at = "last" /\ job[c].port \in Port /\ job[c] \in Job
      /\ row \in Sample \cup {None}
      /\ clock \in Nat
  BY DEF IInv, Shapes, Timely, Compare
<1>2. /\ row # None /\ period <= 0 => "instant" \in spoilt'
      /\ spoilt \subseteq spoilt'
      /\ UNCHANGED <<clock, counter, ports, last>>
  BY DEF Compare
<1>n. ASSUME row # None
      PROVE  /\ row \in Sample /\ job[c].got \in Octets /\ period \in Int
             /\ \A s \in Side : /\ job[c].got[s] \in Nat
                                 /\ row.counter[s] \in Nat
                                 /\ row.delta[s] \in Nat
  BY <1>1, <1>n DEF Job, Sample, Octets
<1>3. delta \in Octets
  <2>1. CASE row = None BY <1>0, <2>1 DEF Octets
  <2>2. CASE row # None
    <3> HIDE DEF row, period
    <3>1. \A s \in Side : Delta(job[c].got[s], row.counter[s], row.delta[s],
                                period) \subseteq Nat
      BY <1>n, <2>2, DeltaBounded
    <3>2. \A s \in Side : delta[s] \in Nat BY <1>0, <2>2, <3>1
    <3> QED BY <3>2 DEF Octets
  <2> QED BY <2>1, <2>2
<1>4. ASSUME Comparable' PROVE Within(delta)
  <2>1. Comparable BY <1>2, <1>4 DEF Comparable
  <2>2. CASE row = None BY <1>0, <2>2, NotNegative DEF Within
  <2>3. CASE row # None
    <3> DEFINE all == clock - Start
               sp == Speed * period
               most == Speed * all
               limit == most + Blur
    <3>1. /\ row.time \in Start..Today /\ Today = clock /\ period > 0
      BY <1>1, <1>2, <1>4, <1>n, <2>1, <2>3 DEF IInv, Timely, Comparable, Today
    <3>2. Within(row.delta) BY <1>1, <2>1, <2>3 DEF IInv, Bounded
    <3>4. all \in Int /\ period \in Int /\ period <= all
      BY <1>1, <1>n, <2>3, <3>1
    <3>5. sp + Blur <= limit /\ limit \in Int
      <4> HIDE DEF period, all
      <4>1. sp <= most /\ sp \in Int /\ most \in Int BY <3>4, Monotone
      <4> HIDE DEF sp, most
      <4> QED BY <4>1
    <3>6. Speed > 0 BY <1>4 DEF Comparable
    <3>8. \A s \in Side : row.delta[s] <= limit BY <3>2 DEF Within
    <3> HIDE DEF limit, period, row, most
    <3>7. ASSUME NEW s \in Side PROVE delta[s] <= limit
      <4>1. \A d \in Delta(job[c].got[s], row.counter[s], row.delta[s], period) :
               d <= limit
        BY <1>n, <2>3, <3>1, <3>5, <3>6, <3>8, DeltaBounded
      <4> QED BY <1>0, <2>3, <4>1
    <3> QED BY <3>7 DEF Within, limit, most
  <2> QED BY <2>2, <2>3
<1> HIDE DEF row, period
<1>5. Shapes'
  <2>1. job \in [Collector -> Job] BY DEF IInv, Shapes
  <2>2. job' \in [Collector -> Job] BY <1>0, <1>3, <2>1, ZenonT(40) DEF Job
  <2> QED BY <1>2, <2>2 DEF IInv, Shapes
<1>6. Timely'
  <2>1. Start..Today \subseteq Start..Today' BY <1>2, Later DEF IInv, Shapes
  <2>2. /\ job'[c].at = "store" /\ job'[c].port = job[c].port
        /\ job'[c].now = job[c].now
    BY <1>0, <1>1 DEF IInv, Shapes, Job
  <2>3. \A d \in Collector : d # c => job'[d] = job[d]
    BY <1>0 DEF IInv, Shapes
  <2> QED BY <1>1, <1>2, <2>1, <2>2, <2>3 DEF IInv, Timely
<1>7. Bounded'
  <2> SUFFICES ASSUME Comparable' PROVE Bounded' BY DEF Bounded
  <2>1. Comparable BY <1>2 DEF Comparable
  <2>2. /\ UNCHANGED <<clock, last>>
        /\ \A p \in Port : last[p] # None => Within(last[p].delta)
        /\ \A d \in Collector : Within(job[d].delta)
    BY <1>2, <2>1 DEF IInv, Bounded
  <2>3. job'[c].delta = delta BY <1>0 DEF IInv, Shapes, Job
  <2>4. \A d \in Collector : d # c => job'[d] = job[d]
    BY <1>0 DEF IInv, Shapes
  <2>5. Within(delta) BY <1>4
  <2>6. \A d \in Collector : Within(job'[d].delta)
    BY <2>2, <2>3, <2>4, <2>5
  <2> QED BY <2>2, <2>6 DEF Bounded, Within
<1> QED BY <1>5, <1>6, <1>7 DEF IInv

LEMMA StoreStep == ASSUME IInv, NEW c \in Collector, Store(c) PROVE IInv'
<1> DEFINE p == job[c].port
           stored == [counter |-> job[c].got, delta |-> job[c].delta,
                      time |-> job[c].now]
<1>1. /\ job[c].at = "store" /\ p \in Port /\ job[c] \in Job
      /\ job[c].now \in Start..Today
      /\ Today \in Nat
  BY BillingAssumption DEF IInv, Shapes, Timely, Store, Today
<1>2. stored \in Sample
  <2>1. job[c].now \in Nat BY <1>1, BillingAssumption
  <2> QED BY <1>1, <2>1 DEF Job, Sample
<1>3. /\ last' = [last EXCEPT ![p] = stored]
      /\ job' = [job EXCEPT ![c].at = "ports", ![c].todo = @ \ {p},
                   ![c].sum = @ + job[c].delta["in"] + job[c].delta["out"]]
      /\ UNCHANGED <<clock, counter, ports, spoilt>>
  BY DEF Store
<1> HIDE DEF stored, p
<1>4. Shapes'
  <2>1. job[c].delta["in"] \in Nat /\ job[c].delta["out"] \in Nat
    BY <1>1 DEF Job, Octets, Side
  <2>2. job' \in [Collector -> Job]
    <3> DEFINE more == job[c].sum + job[c].delta["in"] + job[c].delta["out"]
               rest == job[c].todo \ {p}
    <3>1. more \in Int /\ rest \in SUBSET Port
      BY <1>1, <2>1 DEF Job
    <3>2. job' = [job EXCEPT ![c].at = "ports", ![c].todo = rest,
                              ![c].sum = more]
      BY <1>3
    <3>3. job \in [Collector -> Job] BY DEF IInv, Shapes
    <3> HIDE DEF more, rest
    <3> DEFINE j == [job[c] EXCEPT !.at = "ports", !.todo = rest, !.sum = more]
    <3>4. j \in Job BY <1>1, <3>1, JobStored
    <3>5. job' = [job EXCEPT ![c] = j] BY <3>2
    <3> HIDE DEF j
    <3> QED BY <3>3, <3>4, <3>5
  <2> QED BY <1>1, <1>2, <1>3, <2>2 DEF IInv, Shapes
<1>5. Timely'
  <2>1. Today' = Today BY <1>3 DEF Today
  <2> QED BY <1>1, <1>2, <1>3, <2>1 DEF IInv, Shapes, Timely, Job, stored
<1>6. \A d \in Collector : job'[d].delta = job[d].delta
  BY <1>3 DEF IInv, Shapes, Job
<1>7. Bounded'
  BY <1>1, <1>3, <1>6 DEF IInv, Shapes, Bounded, Comparable, Within, stored
<1> QED BY <1>4, <1>5, <1>7 DEF IInv

LEMMA TickStep == ASSUME IInv, Tick PROVE IInv'
<1> USE BillingAssumption
<1>1. PICK traffic \in [Port -> [Side -> 0..MaxTraffic]] :
         counter' = [p \in Port |->
                        [s \in Side |-> counter[p][s] + traffic[p][s]]]
  BY DEF Tick
<1>2. /\ clock' = clock + 1 /\ clock < MaxTime
      /\ UNCHANGED <<ports, last, job, spoilt>>
  BY DEF Tick
<1>3. Shapes'
  <2>1. counter' \in [Port -> Octets]
    BY <1>1 DEF IInv, Shapes, Octets
  <2>2. clock' \in Nat /\ Start <= clock' /\ clock' <= MaxTime
    BY <1>2 DEF IInv, Shapes
  <2> QED BY <1>2, <2>1, <2>2 DEF IInv, Shapes
<1>4. Timely'
  <2>1. Start..Today \subseteq Start..Today' BY <1>2, Later DEF IInv, Shapes
  <2> QED BY <1>2, <2>1 DEF IInv, Timely
<1>5. Bounded'
  <2> SUFFICES ASSUME Comparable' PROVE Bounded' BY DEF Bounded
  <2>1. Comparable BY <1>2 DEF Comparable
  <2>2. clock \in Nat /\ clock' \in Nat /\ clock <= clock'
    BY <1>2 DEF IInv, Shapes
  <2>3. ASSUME NEW q \in Port, last[q] # None PROVE Within(last[q].delta)'
    <3>1. last[q].delta \in Octets BY <2>3 DEF IInv, Shapes, Sample
    <3>2. Within(last[q].delta) BY <2>1, <2>3 DEF IInv, Bounded
    <3> QED BY <1>2, <2>2, <3>1, <3>2, WithinGrows DEF Within
  <2>4. ASSUME NEW c \in Collector PROVE Within(job[c].delta)'
    <3>1. job[c].delta \in Octets BY DEF IInv, Shapes, Job
    <3>2. Within(job[c].delta) BY <2>1 DEF IInv, Bounded
    <3> QED BY <1>2, <2>2, <3>1, <3>2, WithinGrows DEF Within
  <2> QED BY <1>2, <2>3, <2>4 DEF Bounded
<1> QED BY <1>3, <1>4, <1>5 DEF IInv

LEMMA SetBackStep == ASSUME IInv, SetBack PROVE IInv'
<1> USE BillingAssumption
<1>1. /\ clock > Start /\ clock' = clock - 1
      /\ "back" \in spoilt' /\ spoilt \subseteq spoilt'
      /\ UNCHANGED <<counter, ports, last, job>>
  BY DEF SetBack
<1>2. Shapes' BY <1>1 DEF IInv, Shapes
<1>3. Timely'
  <2>1. Start..Today \subseteq Start..Today'
    BY <1>1, <1>2, Later DEF IInv, Shapes
  <2> QED BY <1>1, <2>1 DEF IInv, Timely
<1>4. Bounded' BY <1>1 DEF Bounded, Comparable
<1> QED BY <1>2, <1>3, <1>4 DEF IInv

\* The pages of a bill, counters that are reset, and the calculation.
LEMMA QuietStep ==
    ASSUME IInv, counter' \in [Port -> Octets], ports' \subseteq Port,
           UNCHANGED <<clock, last, job>>, spoilt \subseteq spoilt'
    PROVE  IInv'
<1>1. Shapes' BY DEF IInv, Shapes
<1>2. Timely'
  <2>1. Start..Today \subseteq Start..Today' BY Later DEF IInv, Shapes
  <2> QED BY <2>1 DEF IInv, Timely
<1>3. Bounded' BY DEF IInv, Bounded, Comparable, Within
<1> QED BY <1>1, <1>2, <1>3 DEF IInv

LEMMA NextIInv == IInv /\ [Next]_vars => IInv'
<1> SUFFICES ASSUME IInv, [Next]_vars PROVE IInv' OBVIOUS
<1> USE DEF IInv, Shapes
<1>1. CASE Tick BY <1>1, TickStep
<1>2. CASE ResetBill BY <1>2, QuietStep DEF ResetBill
<1>3. ASSUME NEW k \in Periods, Calculate(k) PROVE IInv'
  BY <1>3, QuietStep DEF Calculate, Check, getRates, Write
<1>4. ASSUME NEW p \in Port, AddPort(p) PROVE IInv'
  BY <1>4, QuietStep DEF AddPort
<1>5. ASSUME NEW p \in Port, DeletePort(p) PROVE IInv'
  BY <1>5, QuietStep DEF DeletePort
<1>6. ASSUME NEW p \in Port, ResetCounters(p) PROVE IInv'
  <2>1. counter' \in [Port -> Octets]
    BY <1>6 DEF ResetCounters, Octets
  <2> QED BY <1>6, <2>1, QuietStep DEF ResetCounters
<1>7. ASSUME NEW c \in Collector, Cron(c) PROVE IInv'
  BY <1>7, BeginStep DEF Cron
<1>8. ASSUME NEW c \in Collector, CronToo(c) PROVE IInv'
  BY <1>8, BeginStep DEF CronToo
<1>9. ASSUME NEW c \in Collector, Again(c) PROVE IInv'
  BY <1>9, BeginStep DEF Again
<1>10. ASSUME NEW c \in Collector, Compare(c) PROVE IInv'
  BY <1>10, CompareStep
<1>11. ASSUME NEW c \in Collector, Store(c) PROVE IInv'
  BY <1>11, StoreStep
<1>12. ASSUME NEW c \in Collector, Insert(c) PROVE IInv'
  <2>1. spoilt \subseteq spoilt' BY <1>12 DEF Insert
  <2>2. /\ job' = [job EXCEPT ![c] = Idle]
        /\ UNCHANGED <<clock, counter, last, ports>>
    BY <1>12 DEF Insert
  <2> QED BY <2>1, <2>2, IdleStep
<1>13. ASSUME NEW c \in Collector, Crash(c) PROVE IInv'
  BY <1>13, IdleStep DEF Crash
<1>14. ASSUME NEW c \in Collector, NEW p \in Port, NEW s \in Side,
              getValue(c, p, s)
       PROVE  IInv'
  <2>1. counter[p][s] \in Nat BY DEF Octets
  <2> QED BY <1>14, <2>1, GetStep DEF getValue
<1>15. ASSUME NEW c \in Collector, NEW p \in Port, NEW s \in Side,
              getNoValue(c, p, s)
       PROVE  IInv'
  <2>1. PICK v \in Shown(counter[p][s]) : Get(c, p, s, v)
    BY <1>15 DEF getNoValue
  <2>2. v \in Nat BY <2>1, ShownNat DEF Octets
  <2>3. spoilt \subseteq spoilt' BY <1>15 DEF getNoValue
  <2> QED BY <2>1, <2>2, <2>3, GetStep
<1>17. CASE SetBack BY <1>17, SetBackStep
<1>18. CASE CrashCalc BY <1>18, QuietStep DEF CrashCalc
<1>16. CASE UNCHANGED vars BY <1>16, QuietStep DEF vars
<1> QED
  BY <1>1, <1>2, <1>3, <1>4, <1>5, <1>6, <1>7, <1>8, <1>9, <1>10, <1>11,
     <1>12, <1>13, <1>14, <1>15, <1>16, <1>17, <1>18 DEF Next

\* LineRate: no sample of a port whose speed is known bills more than the line
\* can have carried and the error of the rounding, however the counters and
\* the collectors behave (the comparisons of CollectData), unless the clock
\* was set back or two samples lie in one second.
THEOREM NoImpossibleSample == Spec => []LineRate
<1>1. IInv => LineRate
  BY DEF IInv, Bounded, Comparable, Within, LineRate
<1> QED BY InitIInv, NextIInv, <1>1, PTL DEF Spec
-----------------------------------------------------------------------------
(* The types.                                                              *)

\* What IInv leaves of them: the bounds, and the rows of the two tables that
\* the samples are summed into.
Row == [delta : Nat, period : BOOLEAN]
Total == [total : Nat, closed : BOOLEAN]
Task == [at : {"idle", "sum", "write"}, k : Periods, total : Nat,
         missed : BOOLEAN]

Typed ==
    /\ carried \in Nat
    /\ first \in [Port -> Octets \cup {None}]
    /\ \A p \in Port : \/ last[p] = None /\ first[p] = None
                       \/ last[p] \in Sample /\ first[p] \in Octets
    /\ DOMAIN data \subseteq Start..Today
    /\ \A t \in DOMAIN data : data[t] \in Row
    /\ history \in [Periods -> Total \cup {None}]
    /\ calc \in Task
    /\ started \in -1..MaxTime
    /\ faults \in 0..MaxFaults
    /\ \A c \in Collector : /\ job[c].sum \in Nat
                            /\ job[c].at = "idle" => job[c] = Idle

TInv == IInv /\ Typed

LEMMA TodayBound ==
    ASSUME TInv PROVE Today \in Nat /\ Today <= MaxTime /\ clock <= Today
BY BillingAssumption DEF TInv, IInv, Shapes, Today

LEMMA TInvTypes == TInv => TypeOK
<1> USE BillingAssumption
<1> SUFFICES ASSUME TInv PROVE TypeOK OBVIOUS
<1>1. clock \in Start..MaxTime BY DEF TInv, IInv, Shapes, Typed
<1>2. ASSUME NEW p \in Port
      PROVE  \/ last[p] = None /\ first[p] = None
             \/ /\ last[p] \in Sample /\ last[p].time <= MaxTime
                /\ first[p] \in Octets
  <2>1. \/ last[p] = None /\ first[p] = None
        \/ last[p] \in Sample /\ first[p] \in Octets
    BY DEF TInv, Typed
  <2>2. last[p] \in Sample => last[p].time <= MaxTime
    <3> SUFFICES ASSUME last[p] \in Sample PROVE last[p].time <= MaxTime
      OBVIOUS
    <3>1. last[p] # None OBVIOUS
    <3>2. last[p].time \in Start..Today BY <3>1 DEF TInv, IInv, Timely
    <3> QED BY <1>1, <3>2, TodayBound
  <2> QED BY <2>1, <2>2
<1>3. ASSUME NEW t \in DOMAIN data
      PROVE  t \in 0..MaxTime /\ data[t] \in [delta : Nat, period : BOOLEAN]
  <2>1. t \in Start..Today /\ data[t] \in Row BY DEF TInv, Typed
  <2> QED BY <2>1, TodayBound DEF Row
<1>4. ASSUME NEW c \in Collector
      PROVE  job[c] \in [at : {"idle", "ports", "out", "last", "store"},
                         todo : SUBSET Port, now : 0..MaxTime,
                         port : Port \cup {None}, got : Octets,
                         delta : Octets, sum : Nat]
  <2>1. job[c] \in Job /\ job[c].sum \in Nat
    BY DEF TInv, IInv, Shapes, Typed
  <2>2. job[c].now \in 0..MaxTime
    <3>1. CASE job[c].at = "idle"
      <4>1. job[c] = Idle BY <3>1 DEF TInv, Typed
      <4> QED BY <4>1 DEF Idle
    <3>2. CASE job[c].at # "idle"
      <4>1. job[c].now \in Start..Today BY <3>2 DEF TInv, IInv, Timely
      <4> QED BY <1>1, <4>1, TodayBound
    <3> QED BY <3>1, <3>2
  <2> QED BY <2>1, <2>2 DEF Job
<1>5. job \in [Collector -> [at : {"idle", "ports", "out", "last", "store"},
                             todo : SUBSET Port, now : 0..MaxTime,
                             port : Port \cup {None}, got : Octets,
                             delta : Octets, sum : Nat]]
  BY <1>4 DEF TInv, IInv, Shapes
<1>6. \A k \in Periods : history[k] = None \/ history[k] \in Total
  BY DEF TInv, Typed
<1>7. /\ counter \in [Port -> Octets] /\ ports \subseteq Port
      /\ carried \in Nat /\ started \in -1..MaxTime /\ faults \in 0..MaxFaults
      /\ calc \in Task
  BY DEF TInv, IInv, Shapes, Typed
<1> HIDE BillingAssumption
<1> QED BY <1>1, <1>2, <1>3, <1>5, <1>6, <1>7 DEF TypeOK, Total, Task

LEMMA InitTyped == Init => Typed
<1> SUFFICES ASSUME Init PROVE Typed OBVIOUS
<1>1. clock = Start /\ Start \in 0..MaxTime /\ MaxFaults \in Nat
  BY BillingAssumption DEF Init
<1>2. DOMAIN data = {} BY DEF Init
<1>3. calc \in Task
  <2>1. 0 \in Periods
    <3>1. MaxTime \in Nat /\ Length \in Nat \ {0} BY BillingAssumption
    <3>2. MaxTime \div Length \in Nat BY <3>1
    <3> QED BY <3>2 DEF Periods
  <2> QED BY <2>1 DEF Init, IdleCalc, Task
<1> QED BY <1>1, <1>2, <1>3, BillingAssumption DEF Init, Typed, Idle

\* The samples of a period, and the sums of their terms.
LEMMA RowsFinite ==
    ASSUME TInv, NEW T \in SUBSET (DOMAIN data)
    PROVE  IsFiniteSet(T)
<1>1. T \in SUBSET (Start..Today) BY DEF TInv, Typed
<1>2. IsFiniteSet(Start..Today)
  BY FS_Interval, BillingAssumption, TodayBound
<1> QED BY <1>1, <1>2, FS_Subset

LEMMA SumsNat ==
    ASSUME TInv, NEW k \in Periods
    PROVE  getSum(k) \in Nat
<1>1. Rows(k) \in SUBSET (DOMAIN data) BY DEF Rows
<1>2. IsFiniteSet(Rows(k)) BY <1>1, RowsFinite
<1>3. \A t \in Rows(k) : Deltas[t] \in Nat
  BY <1>1 DEF Deltas, TInv, Typed, Row
<1> QED BY <1>2, <1>3, SumNat DEF getSum

\* The time since the last row of bill_data, less than nothing if the clock
\* was set back.
LEMMA LastRow ==
    ASSUME TInv, DOMAIN data # {}
    PROVE  clock - Max(DOMAIN data) \in Int
<1>1. /\ DOMAIN data \subseteq Start..Today
      /\ Start \in Nat /\ clock \in Nat
  BY BillingAssumption DEF TInv, IInv, Shapes, Typed
<1>2. IsFiniteSet(DOMAIN data) BY RowsFinite
<1>3. \A t \in DOMAIN data : t \in Int BY <1>1
<1>4. \E m \in DOMAIN data : \A t \in DOMAIN data : t <= m
  BY <1>2, <1>3, Greatest
<1>5. Max(DOMAIN data) \in DOMAIN data BY <1>4 DEF Max
<1> QED BY <1>1, <1>3, <1>5

\* A step that leaves the tables and the clock alone and a job that is idle
\* with nothing to show for it.
LEMMA TypedJob ==
    ASSUME TInv, NEW c \in Collector, NEW j, j.sum \in Nat,
           j.at = "idle" => j = Idle,
           job' = [job EXCEPT ![c] = j],
           started' \in -1..MaxTime, faults' \in 0..MaxFaults,
           UNCHANGED <<clock, carried, last, first, data, history>>,
           calc' \in Task, spoilt \subseteq spoilt'
    PROVE  Typed'
<1>2. DOMAIN data \subseteq Start..Today'
  <2>1. Start..Today \subseteq Start..Today' BY Later DEF TInv, IInv, Shapes
  <2> QED BY <2>1 DEF TInv, Typed
<1>1. \A d \in Collector : /\ job'[d].sum \in Nat
                           /\ job'[d].at = "idle" => job'[d] = Idle
  BY DEF TInv, IInv, Shapes, Typed
<1> QED BY <1>1, <1>2 DEF TInv, Typed

LEMMA FaultTyped ==
    ASSUME TInv, NEW op, Fault(op) PROVE faults' \in 0..MaxFaults
BY BillingAssumption DEF TInv, Typed, Fault

LEMMA TypedBegin ==
    ASSUME TInv, NEW c \in Collector, Begin(c), faults' \in 0..MaxFaults,
           spoilt \subseteq spoilt'
    PROVE  Typed'
<1> DEFINE j == [Idle EXCEPT !.at = "ports", !.todo = ports, !.now = clock]
<1>1. j.sum \in Nat /\ j.at = "ports" BY DEF Idle
<1>2. started' \in -1..MaxTime
  BY BillingAssumption DEF TInv, IInv, Shapes, Typed, Begin
<1>3. /\ job' = [job EXCEPT ![c] = j]
      /\ UNCHANGED <<clock, carried, last, first, data, history>>
      /\ calc' \in Task
  BY DEF Begin, TInv, Typed
<1> HIDE DEF j
<1> QED BY <1>1, <1>2, <1>3, TypedJob

LEMMA TypedGet ==
    ASSUME TInv, NEW c \in Collector, NEW p \in Port, NEW s \in Side, NEW v,
           Get(c, p, s, v), faults' \in 0..MaxFaults, spoilt \subseteq spoilt'
    PROVE  Typed'
<1> DEFINE at == IF s = "in" THEN "out" ELSE "last"
           j == [job[c] EXCEPT !.at = at, !.port = p, !.got[s] = v]
<1>1. /\ job[c] \in Job /\ job[c].sum \in Nat /\ started \in -1..MaxTime
      /\ calc \in Task
  BY DEF TInv, IInv, Shapes, Typed
<1>a. at # "idle" OBVIOUS
<1>3. /\ job' = [job EXCEPT ![c] = j]
      /\ UNCHANGED <<clock, carried, last, first, data, history, started, calc>>
  BY DEF Get
<1> HIDE DEF at
<1>2. j.sum = job[c].sum /\ j.at = at BY <1>1 DEF Job
<1> HIDE DEF j
<1> QED BY <1>1, <1>a, <1>2, <1>3, TypedJob

LEMMA TypedCompare ==
    ASSUME TInv, NEW c \in Collector, Compare(c) PROVE Typed'
<1>1. PICK delta : job' = [job EXCEPT ![c].at = "store", ![c].delta = delta]
  BY Compared DEF TInv
<1> DEFINE j == [job[c] EXCEPT !.at = "store", !.delta = delta]
<1>2. /\ job[c] \in Job /\ job[c].sum \in Nat
      /\ started \in -1..MaxTime /\ faults \in 0..MaxFaults /\ calc \in Task
  BY DEF TInv, IInv, Shapes, Typed
<1>3. j.sum = job[c].sum /\ j.at = "store" BY <1>2 DEF Job
<1>4. job' = [job EXCEPT ![c] = j] BY <1>1
<1>5. /\ UNCHANGED <<clock, carried, last, first, data, history, started,
                     faults, calc>>
      /\ spoilt \subseteq spoilt'
  BY DEF Compare
<1> HIDE DEF j
<1> QED BY <1>2, <1>3, <1>4, <1>5, TypedJob

LEMMA TypedStore ==
    ASSUME TInv, NEW c \in Collector, Store(c) PROVE Typed'
<1> DEFINE p == job[c].port
           stored == [counter |-> job[c].got, delta |-> job[c].delta,
                      time |-> job[c].now]
           more == job[c].sum + job[c].delta["in"] + job[c].delta["out"]
<1>1. /\ job[c].at = "store" /\ p \in Port /\ job[c] \in Job
      /\ job[c].now \in Start..Today /\ job[c].sum \in Nat
  BY DEF TInv, IInv, Shapes, Timely, Typed, Store
<1>2. stored \in Sample
  <2>1. job[c].now \in Nat BY <1>1, BillingAssumption, TodayBound
  <2> QED BY <1>1, <2>1 DEF Job, Sample
<1>3. job[c].got \in Octets BY <1>1 DEF Job
<1>4. more \in Nat
  <2>1. job[c].delta["in"] \in Nat /\ job[c].delta["out"] \in Nat
    BY <1>1 DEF Job, Octets, Side
  <2> QED BY <1>1, <2>1
<1>5. /\ last' = [last EXCEPT ![p] = stored]
      /\ first' = [first EXCEPT ![p] = IF last[p] = None THEN job[c].got
                                       ELSE @]
      /\ UNCHANGED <<clock, carried, data, history, started, faults, calc,
                     spoilt>>
  BY DEF Store
<1>6. \A d \in Collector : /\ job'[d].sum \in Nat
                           /\ job'[d].at = "idle" => job'[d] = Idle
  <2>1. job' = [job EXCEPT ![c].at = "ports", ![c].todo = @ \ {p},
                           ![c].sum = more]
    BY DEF Store
  <2>2. job'[c].sum = more /\ job'[c].at = "ports"
    BY <1>1, <2>1 DEF TInv, IInv, Shapes, Job
  <2>3. \A d \in Collector : d # c => job'[d] = job[d]
    BY <2>1 DEF TInv, IInv, Shapes
  <2> QED BY <1>4, <2>2, <2>3 DEF TInv, Typed
<1> HIDE DEF stored, p
<1>7. first' \in [Port -> Octets \cup {None}]
  BY <1>1, <1>3, <1>5 DEF TInv, Typed
<1>8. \A q \in Port : \/ last'[q] = None /\ first'[q] = None
                      \/ last'[q] \in Sample /\ first'[q] \in Octets
  <2> SUFFICES ASSUME NEW q \in Port
               PROVE  \/ last'[q] = None /\ first'[q] = None
                      \/ last'[q] \in Sample /\ first'[q] \in Octets
    OBVIOUS
  <2>1. CASE q # p BY <1>5, <2>1 DEF TInv, Typed
  <2>2. CASE q = p
    <3>1. last'[p] = stored BY <1>1, <1>5 DEF TInv, IInv, Shapes
    <3>2. first'[p] \in Octets BY <1>1, <1>3, <1>5 DEF TInv, Typed
    <3> QED BY <1>2, <2>2, <3>1, <3>2
  <2> QED BY <2>1, <2>2
<1>9. Today' = Today BY <1>5 DEF Today
<1> QED BY <1>5, <1>6, <1>7, <1>8, <1>9 DEF TInv, Typed

LEMMA TypedInsert ==
    ASSUME TInv, NEW c \in Collector, Insert(c) PROVE Typed'
<1> DEFINE t == job[c].now
           period == IF DOMAIN data = {} THEN 0 ELSE clock - Max(DOMAIN data)
           row == [delta |-> job[c].sum, period |-> period > 0]
<1>1. job[c].at # "idle" /\ job[c].sum \in Nat /\ t \in Start..Today
  BY DEF TInv, IInv, Timely, Typed, Insert
<1>2. row \in Row
  <2>1. period \in Int BY LastRow
  <2> HIDE DEF period
  <2>2. (period > 0) \in BOOLEAN BY <2>1
  <2> QED BY <1>1, <2>2 DEF Row
<1>3. \/ data' = data
      \/ data' = [u \in DOMAIN data \cup {t} |-> IF u = t THEN row ELSE data[u]]
  BY <1>1 DEF Insert
<1>m. /\ calc' = [calc EXCEPT !.missed = calc'.missed]
      /\ calc'.missed \in BOOLEAN
  BY DEF Insert, TInv, Typed, Task
<1>c. calc' \in Task BY <1>m DEF TInv, Typed, Task
<1>4. /\ UNCHANGED <<clock, carried, last, first, history, started, faults>>
      /\ spoilt \subseteq spoilt'
      /\ job' = [job EXCEPT ![c] = Idle]
  BY DEF Insert
<1> HIDE DEF row, t
<1>5. Start..Today \subseteq Start..Today'
  BY <1>4, Later DEF TInv, IInv, Shapes
<1>6. /\ DOMAIN data' \subseteq Start..Today
      /\ \A u \in DOMAIN data' : data'[u] \in Row
  BY <1>1, <1>2, <1>3 DEF TInv, Typed
<1>7. \A d \in Collector : /\ job'[d].sum \in Nat
                           /\ job'[d].at = "idle" => job'[d] = Idle
  <2>1. Idle.sum = 0 BY DEF Idle
  <2> QED BY <1>4, <2>1 DEF TInv, IInv, Shapes, Typed
<1> QED BY <1>c, <1>4, <1>5, <1>6, <1>7 DEF TInv, Typed

LEMMA TypedCrash ==
    ASSUME TInv, NEW c \in Collector, Crash(c) PROVE Typed'
<1>1. Idle.sum \in Nat BY DEF Idle
<1>2. faults' \in 0..MaxFaults BY FaultTyped DEF Crash
<1>3. started \in -1..MaxTime /\ calc \in Task BY DEF TInv, Typed
<1> QED BY <1>1, <1>2, <1>3, TypedJob DEF Crash

\* A step of the calculation leaves the rest alone, or writes a row.
LEMMA TypedTask ==
    ASSUME TInv, calc' \in Task, history' \in [Periods -> Total \cup {None}],
           UNCHANGED <<clock, carried, last, first, data, job, started>>,
           faults' \in 0..MaxFaults, spoilt \subseteq spoilt'
    PROVE  Typed'
<1>1. Start..Today \subseteq Start..Today' BY Later DEF TInv, IInv, Shapes
<1> QED BY <1>1 DEF TInv, Typed

LEMMA TaskTypes ==
    ASSUME TInv
    PROVE  /\ calc \in Task /\ IdleCalc \in Task
           /\ history \in [Periods -> Total \cup {None}]
           /\ faults \in 0..MaxFaults
<1>1. /\ calc \in Task /\ history \in [Periods -> Total \cup {None}]
      /\ faults \in 0..MaxFaults
  BY DEF TInv, Typed
<1>2. 0 \in Periods
  <2>1. MaxTime \in Nat /\ Length \in Nat \ {0} BY BillingAssumption
  <2>2. MaxTime \div Length \in Nat BY <2>1
  <2> QED BY <2>2 DEF Periods
<1> QED BY <1>1, <1>2 DEF IdleCalc, Task

LEMMA TypedCalculate ==
    ASSUME TInv, NEW k \in Periods, Calculate(k) PROVE Typed'
<1>1. CASE Check(k)
  <2>1. [IdleCalc EXCEPT !.at = "sum", !.k = k] \in Task
    BY TaskTypes DEF IdleCalc, Task
  <2> QED BY <1>1, <2>1, TaskTypes, TypedTask DEF Check
<1>2. CASE getRates
  <2>1. getSum(calc.k) \in Nat BY TaskTypes, SumsNat DEF Task
  <2> DEFINE total == getSum(calc.k)
  <2>2. calc' = [calc EXCEPT !.at = "write", !.total = total]
    BY <1>2 DEF getRates
  <2> HIDE DEF total
  <2>3. total \in Nat BY <2>1 DEF total
  <2>4. calc' \in Task BY <2>2, <2>3, TaskTypes DEF Task
  <2> QED BY <1>2, <2>4, TaskTypes, TypedTask DEF getRates
<1>3. CASE Write
  <2> DEFINE row == [total |-> calc.total, closed |-> Ended(calc.k)]
  <2>1. calc.k \in Periods /\ calc.total \in Nat BY TaskTypes DEF Task
  <2>2. Ended(calc.k) \in BOOLEAN
    <3>1. From(calc.k + 1) \in Int /\ clock \in Int
      <4>1. calc.k \in Int BY <2>1 DEF Periods
      <4> QED BY <4>1, BillingAssumption DEF From, TInv, IInv, Shapes
    <3> QED BY <3>1 DEF Ended
  <2>3. row \in Total BY <2>1, <2>2 DEF Total
  <2>4. history' = [history EXCEPT ![calc.k] = row] /\ calc' = IdleCalc
    BY <1>3 DEF Write
  <2> HIDE DEF row
  <2>5. history' \in [Periods -> Total \cup {None}]
    BY <2>3, <2>4, TaskTypes
  <2>6. /\ UNCHANGED <<clock, carried, last, first, data, job, started, faults>>
        /\ spoilt \subseteq spoilt'
    BY <1>3 DEF Write
  <2> QED BY <2>4, <2>5, <2>6, TaskTypes, TypedTask
<1> QED BY <1>1, <1>2, <1>3 DEF Calculate

LEMMA TypedCrashCalc == ASSUME TInv, CrashCalc PROVE Typed'
<1>1. faults' \in 0..MaxFaults BY FaultTyped DEF CrashCalc
<1> QED BY <1>1, TaskTypes, TypedTask DEF CrashCalc

LEMMA TypedTick == ASSUME TInv, Tick PROVE Typed'
<1>1. PICK traffic \in [Port -> [Side -> 0..MaxTraffic]] :
         carried' = carried + SumFunctionOnSet(
            [p \in Port |-> traffic[p]["in"] + traffic[p]["out"]], ports)
  BY DEF Tick
<1> DEFINE f == [p \in Port |-> traffic[p]["in"] + traffic[p]["out"]]
<1>2. SumFunctionOnSet(f, ports) \in Nat
  <2>1. ports \subseteq Port BY DEF TInv, IInv, Shapes
  <2>2. IsFiniteSet(ports) BY <2>1, FS_Subset, BillingAssumption
  <2>3. \A p \in Port : traffic[p]["in"] \in Nat /\ traffic[p]["out"] \in Nat
    BY BillingAssumption DEF Side
  <2>4. \A p \in ports : f[p] \in Nat BY <2>1, <2>3
  <2> HIDE DEF f
  <2> QED BY <2>2, <2>4, SumNat
<1>3. carried' \in Nat BY <1>1, <1>2 DEF TInv, Typed
<1>4. /\ clock' = clock + 1 /\ clock < MaxTime /\ clock \in Nat
      /\ UNCHANGED <<ports, last, first, data, history, job, started, faults,
                     calc, spoilt>>
  BY DEF Tick, TInv, IInv, Shapes
<1>5. clock' \in Nat /\ clock' <= MaxTime /\ clock <= clock'
  BY <1>4, BillingAssumption
<1>6. Start..Today \subseteq Start..Today'
  BY <1>4, <1>5, Later DEF TInv, IInv
<1> QED BY <1>3, <1>4, <1>6 DEF TInv, Typed

LEMMA TypedBack == ASSUME TInv, SetBack PROVE Typed'
<1>1. /\ clock' = clock - 1 /\ clock > Start /\ started' = -1
      /\ "back" \in spoilt' /\ spoilt \subseteq spoilt' /\ clock \in Nat
      /\ UNCHANGED <<carried, last, first, data, history, job, calc>>
  BY DEF SetBack, TInv, IInv, Shapes
<1>2. clock' \in Nat /\ clock' <= MaxTime
  BY <1>1, BillingAssumption DEF TInv, IInv, Shapes
<1>3. Start..Today \subseteq Start..Today'
  BY <1>1, <1>2, Later DEF TInv, IInv
<1>4. faults' \in 0..MaxFaults BY FaultTyped DEF SetBack
<1>5. started' \in -1..MaxTime BY <1>1, BillingAssumption
<1> QED BY <1>1, <1>3, <1>4, <1>5 DEF TInv, Typed

\* The pages of a bill.
LEMMA TypedPage ==
    ASSUME TInv,
           UNCHANGED <<clock, carried, last, first, history, job, started, calc>>,
           data' = data \/ DOMAIN data' = {}, faults' \in 0..MaxFaults,
           spoilt \subseteq spoilt'
    PROVE  Typed'
<1>1. Start..Today \subseteq Start..Today' BY Later DEF TInv, IInv, Shapes
<1>2. /\ DOMAIN data' \subseteq Start..Today
      /\ \A t \in DOMAIN data' : data'[t] \in Row
  BY DEF TInv, Typed
<1> QED BY <1>1, <1>2 DEF TInv, Typed

LEMMA NextTInv == TInv /\ [Next]_vars => TInv'
<1> SUFFICES ASSUME TInv, [Next]_vars PROVE TInv' OBVIOUS
<1>0. IInv' BY NextIInv DEF TInv
<1> SUFFICES Typed' BY <1>0 DEF TInv
<1>t. faults \in 0..MaxFaults BY DEF TInv, Typed
<1>f. \A op : Fault(op) => faults' \in 0..MaxFaults BY FaultTyped
<1>1. CASE Tick BY <1>1, TypedTick
<1>2. CASE ResetBill
  <2>1. DOMAIN data' = {} BY <1>2 DEF ResetBill
  <2> QED BY <1>2, <1>f, <2>1, TypedPage DEF ResetBill
<1>3. ASSUME NEW k \in Periods, Calculate(k) PROVE Typed'
  BY <1>3, TypedCalculate
<1>4. ASSUME NEW p \in Port, AddPort(p) PROVE Typed'
  BY <1>4, <1>f, TypedPage DEF AddPort
<1>5. ASSUME NEW p \in Port, DeletePort(p) PROVE Typed'
  BY <1>5, <1>f, TypedPage DEF DeletePort
<1>6. ASSUME NEW p \in Port, ResetCounters(p) PROVE Typed'
  BY <1>6, <1>f, TypedPage DEF ResetCounters
<1>7. ASSUME NEW c \in Collector, Cron(c) PROVE Typed'
  BY <1>7, <1>t, TypedBegin DEF Cron
<1>8. ASSUME NEW c \in Collector, CronToo(c) PROVE Typed'
  BY <1>8, <1>f, TypedBegin DEF CronToo
<1>9. ASSUME NEW c \in Collector, Again(c) PROVE Typed'
  BY <1>9, <1>f, TypedBegin DEF Again
<1>10. ASSUME NEW c \in Collector, Compare(c) PROVE Typed'
  BY <1>10, TypedCompare
<1>11. ASSUME NEW c \in Collector, Store(c) PROVE Typed'
  BY <1>11, TypedStore
<1>12. ASSUME NEW c \in Collector, Insert(c) PROVE Typed'
  BY <1>12, TypedInsert
<1>13. ASSUME NEW c \in Collector, Crash(c) PROVE Typed'
  BY <1>13, TypedCrash
<1>14. ASSUME NEW c \in Collector, NEW p \in Port, NEW s \in Side,
              getValue(c, p, s)
       PROVE  Typed'
  BY <1>14, <1>t, TypedGet DEF getValue
<1>15. ASSUME NEW c \in Collector, NEW p \in Port, NEW s \in Side,
              getNoValue(c, p, s)
       PROVE  Typed'
  <2>1. PICK v : Get(c, p, s, v) BY <1>15 DEF getNoValue
  <2>2. Fault("fail") /\ spoilt \subseteq spoilt' BY <1>15 DEF getNoValue
  <2> QED BY <1>f, <2>1, <2>2, TypedGet
<1>17. CASE SetBack BY <1>17, TypedBack
<1>18. CASE CrashCalc BY <1>18, TypedCrashCalc
<1>16. CASE UNCHANGED vars BY <1>16, <1>t, TypedPage DEF vars
<1> QED
  BY <1>1, <1>2, <1>3, <1>4, <1>5, <1>6, <1>7, <1>8, <1>9, <1>10, <1>11,
     <1>12, <1>13, <1>14, <1>15, <1>16, <1>17, <1>18 DEF Next

\* TypeOK: a reset, a failed answer, an overlap or a clock that is set back
\* never leaves a negative delta, sum or total.
THEOREM TypeCorrect == Spec => []TypeOK
<1>1. Init => TInv BY InitIInv, InitTyped DEF TInv
<1> QED BY <1>1, NextTInv, TInvTypes, PTL DEF Spec
-----------------------------------------------------------------------------
(* The totals.  While the counters and the clock only grow, every answer   *)
(* is one, one collector is at work, the ports of the bill stay the same   *)
(* and no rate is so close to ifSpeed that the rounding decides, a sample  *)
(* bills what its port gained since the one before; then a collector's sum *)
(* and what is billed are never more than the gains of the ports, and      *)
(* nothing less while no collector dies and no row is refused.             *)

Clean == spoilt \cap Upset = {}
Gains == [p \in Port |-> Gain(p)]
Gained == SumFunctionOnSet(Gains, Port)

\* What a port has carried, as its counters show.
Flow(p) == (counter[p]["in"] - Old) + (counter[p]["out"] - Old)
Flows == [p \in Port |-> Flow(p)]

\* n octets in d ticks are not too fast for the line.
Paced(n, d) == Speed > 0 => n <= Speed * d

Grown ==
    \A p \in Port, s \in Side :
        /\ Old <= counter[p][s]
        /\ last[p] # None =>
              /\ p \in ports
              /\ Old <= first[p][s]
              /\ first[p][s] <= last[p].counter[s]
              /\ last[p].counter[s] <= counter[p][s]
              /\ Paced(counter[p][s] - last[p].counter[s],
                    clock - last[p].time)

\* The collector at work, and the answer it has.
Single == \A c, d \in Active : c = d

Answered(c) == IF job[c].at = "out" THEN {"in"} ELSE Side

Fresh(c) ==
    LET p == job[c].port
    IN  /\ p \in ports
        /\ \A s \in Answered(c) :
              /\ Old <= job[c].got[s] /\ job[c].got[s] <= counter[p][s]
              /\ Paced(counter[p][s] - job[c].got[s], clock - job[c].now)
              /\ last[p] # None =>
                    /\ last[p].counter[s] <= job[c].got[s]
                    /\ Paced(job[c].got[s] - last[p].counter[s],
                          clock - last[p].time)

Exact(c) ==
    LET p == job[c].port
    IN  \A s \in Side :
           job[c].delta[s] = IF last[p] = None THEN 0
                             ELSE job[c].got[s] - last[p].counter[s]

AtWork ==
    \A c \in Collector :
        /\ job[c].todo \subseteq ports
        /\ job[c].at \in {"out", "last", "store"} => Fresh(c)
        /\ job[c].at = "store" => Exact(c)

Sums ==
    /\ carried = SumFunctionOnSet(Flows, ports)
    /\ Billed <= Gained
    /\ \A c \in Collector : Billed + job[c].sum <= Gained
    /\ spoilt = {} /\ Active = {} => Billed = Gained
    /\ spoilt = {} => \A c \in Active : Billed + job[c].sum = Gained

Balance == Grown /\ Single /\ AtWork /\ Sums
Totals == Clean => Balance
LEMMA PacedLess ==
    ASSUME NEW n \in Int, NEW m \in Int, NEW d \in Int, NEW e \in Int,
           n <= m, d <= e, Paced(m, d)
    PROVE  Paced(n, e)
<1> SUFFICES ASSUME Speed > 0 PROVE n <= Speed * e BY DEF Paced
<1>1. Speed \in Nat BY BillingAssumption
<1>2. Speed * d <= Speed * e BY <1>1, Monotone
<1>3. m <= Speed * d BY DEF Paced
<1>4. Speed * d \in Int /\ Speed * e \in Int BY <1>1
<1> DEFINE x == Speed * d
           y == Speed * e
<1> HIDE DEF x, y
<1>5. n <= y BY <1>2, <1>3, <1>4 DEF x, y
<1> QED BY <1>5 DEF y

\* What is carried in a tick is not too fast either.
LEMMA PacedTick ==
    ASSUME NEW n \in Int, NEW d \in Int, NEW k \in 0..MaxTraffic, Paced(n, d)
    PROVE  Paced(n + k, d + 1)
<1> SUFFICES ASSUME Speed > 0 PROVE n + k <= Speed * (d + 1) BY DEF Paced
<1>1. Speed \in Nat /\ k \in Int /\ k <= Speed BY BillingAssumption
<1>2. Speed * (d + 1) = Speed * d + Speed BY <1>1
<1>3. n <= Speed * d /\ Speed * d \in Int BY <1>1 DEF Paced
<1> DEFINE x == Speed * d
<1> HIDE DEF x
<1>4. n + k <= x + Speed BY <1>1, <1>3 DEF x
<1> QED BY <1>2, <1>4 DEF x

\* The comparisons let pass what the line can carry, but for the rounding.
LEMMA DeltaExact ==
    ASSUME NEW now \in Nat, NEW was \in Nat, NEW delta, NEW period \in Int,
           was <= now, Paced(now - was, period), ~ Open(now - was, period)
    PROVE  Delta(now, was, delta, period) = {now - was}
<1> DEFINE sp == Speed * period
<1>1. sp \in Int /\ Speed \in Nat /\ Blur \in Nat BY BillingAssumption
<1>2. Speed > 0 => now - was <= sp BY DEF Paced
<1>3. ~ TooFast(now - was, period)
  <2> SUFFICES ASSUME Speed > 0 PROVE ~ (now - was > sp + Blur) BY DEF TooFast
  <2> HIDE DEF sp
  <2> QED BY <1>1, <1>2
<1>4. ~ NotSlow(now - was, period) BY <1>3 DEF Open
<1>5. ~ (now < was) OBVIOUS
<1> QED BY <1>3, <1>4, <1>5 DEF Delta

\* While the clock only grows, its time is the latest.
LEMMA TodayNow == ASSUME Clean PROVE Today = clock
BY DEF Clean, Upset, Today

\* The gains are numbers, the flows and the rows too.
LEMMA GainsNat ==
    ASSUME TInv, Grown
    PROVE  /\ \A p \in Port : Gains[p] \in Nat
           /\ Gained \in Nat
<1>1. ASSUME NEW p \in Port PROVE Gain(p) \in Nat
  <2>1. CASE last[p] = None BY <2>1 DEF Gain
  <2>2. CASE last[p] # None
    <3>1. last[p] \in Sample /\ first[p] \in Octets
      BY <2>2 DEF TInv, Typed
    <3>2. \A s \in Side : /\ last[p].counter[s] \in Nat /\ first[p][s] \in Nat
                          /\ first[p][s] <= last[p].counter[s]
      BY <2>2, <3>1 DEF Grown, Sample, Octets
    <3>3. /\ last[p].counter["in"] - first[p]["in"] \in Nat
          /\ last[p].counter["out"] - first[p]["out"] \in Nat
      BY <3>2 DEF Side
    <3> QED BY <2>2, <3>3 DEF Gain
  <2> QED BY <2>1, <2>2
<1>2. \A p \in Port : Gains[p] \in Nat BY <1>1 DEF Gains
<1> QED BY <1>2, SumNat, BillingAssumption DEF Gained

GainsAreNat == \A p \in Port : Gains[p] \in Nat
LEMMA GainsNatNext ==
    TInv' /\ Grown' => \A p \in Port : Gains'[p] \in Nat
<1>1. TInv /\ Grown => GainsAreNat BY GainsNat DEF GainsAreNat
<1>2. TInv' /\ Grown' => GainsAreNat' BY <1>1, PTL
<1> QED BY <1>2 DEF GainsAreNat

LEMMA FlowsInt ==
    ASSUME TInv
    PROVE  \A p \in Port : Flows[p] = Flow(p) /\ Flows[p] \in Int
BY BillingAssumption DEF TInv, IInv, Shapes, Octets, Side, Flows, Flow

LEMMA PortsFinite ==
    ASSUME TInv PROVE ports \subseteq Port /\ IsFiniteSet(ports)
BY FS_Subset, BillingAssumption DEF TInv, IInv, Shapes

LEMMA BilledNat ==
    ASSUME TInv
    PROVE  /\ \A t \in DOMAIN data : Deltas[t] = data[t].delta
                                     /\ Deltas[t] \in Nat
           /\ IsFiniteSet(DOMAIN data)
           /\ Billed \in Nat
<1>1. \A t \in DOMAIN data : Deltas[t] = data[t].delta /\ Deltas[t] \in Nat
  BY DEF Deltas, TInv, Typed, Row
<1>2. IsFiniteSet(DOMAIN data) BY RowsFinite
<1> QED BY <1>1, <1>2, SumNat DEF Billed

\* The gains are within what the ports of the bill carried.
LEMMA GainedWithin ==
    ASSUME TInv, Grown, carried = SumFunctionOnSet(Flows, ports)
    PROVE  Gained <= carried
<1>1. \A p \in Port : Gains[p] \in Nat BY GainsNat
<1>2. \A p \in Port \ ports : Gains[p] = 0
  BY DEF Gains, Gain, Grown, Side
<1>3. Gained = SumFunctionOnSet(Gains, ports)
  BY <1>1, <1>2, PortsFinite, SumZeros, BillingAssumption DEF Gained
<1>4. ASSUME NEW p \in ports
      PROVE  Gains[p] \in Int /\ Flows[p] \in Int /\ Gains[p] <= Flows[p]
  <2>1. p \in Port BY PortsFinite
  <2>2. \A s \in Side : counter[p][s] \in Nat /\ Old <= counter[p][s]
    BY <2>1 DEF TInv, IInv, Shapes, Octets, Grown
  <2>3. Flows[p] = Flow(p) /\ Flows[p] \in Int /\ Gains[p] \in Int
    BY <1>1, <2>1, FlowsInt
  <2>4. CASE last[p] = None
    <3>1. Gains[p] = 0 BY <2>1, <2>4 DEF Gains, Gain
    <3> QED BY <2>2, <2>3, <3>1, BillingAssumption DEF Flow, Side
  <2>5. CASE last[p] # None
    <3>1. last[p] \in Sample /\ first[p] \in Octets
      BY <2>1, <2>5 DEF TInv, Typed
    <3>2. \A s \in Side : /\ last[p].counter[s] \in Nat /\ first[p][s] \in Nat
                          /\ Old <= first[p][s]
                          /\ last[p].counter[s] <= counter[p][s]
      BY <2>1, <2>5, <3>1 DEF Grown, Sample, Octets
    <3>3. Gains[p] = (last[p].counter["in"] - first[p]["in"])
                        + (last[p].counter["out"] - first[p]["out"])
      BY <2>1, <2>5 DEF Gains, Gain
    <3> QED BY <2>2, <2>3, <3>2, <3>3, BillingAssumption DEF Flow, Side
  <2> QED BY <2>3, <2>4, <2>5
<1>5. SumFunctionOnSet(Gains, ports) <= SumFunctionOnSet(Flows, ports)
  BY <1>4, PortsFinite, SumMonotone
<1> QED BY <1>3, <1>5
LEMMA InitTotals == Init => Totals
<1> SUFFICES ASSUME Init PROVE Totals OBVIOUS
<1>1. /\ \A p \in Port : last[p] = None
      /\ \A c \in Collector : job[c] = Idle
      /\ DOMAIN data = {}
      /\ \A p \in Port, s \in Side : counter[p][s] = Old
      /\ Old \in Nat /\ ports \subseteq Port
  BY BillingAssumption DEF Init
<1>2. Grown BY <1>1 DEF Grown
<1>3. Single BY <1>1 DEF Single, Active, Idle
<1>4. AtWork BY <1>1 DEF AtWork, Idle
<1>5. Billed = 0 BY <1>1, SumEmpty DEF Billed
<1>6. Gained = 0
  <2>1. \A p \in Port : Gains[p] \in Int /\ Gains[p] = 0
    BY <1>1 DEF Gains, Gain
  <2>2. SumFunctionOnSet(Gains, Port) = SumFunctionOnSet(Gains, {})
    BY <2>1, SumZeros, BillingAssumption
  <2> QED BY <2>2, SumEmpty DEF Gained
<1>7. SumFunctionOnSet(Flows, ports) = 0
  <2>1. \A p \in ports : Flows[p] \in Int /\ Flows[p] = 0
    BY <1>1 DEF Flows, Flow, Side
  <2>2. IsFiniteSet(ports) BY <1>1, FS_Subset, BillingAssumption
  <2>3. SumFunctionOnSet(Flows, ports) = SumFunctionOnSet(Flows, {})
    BY <2>1, <2>2, SumZeros
  <2> QED BY <2>3, SumEmpty
<1>8. carried = 0 BY DEF Init
<1>9. Sums BY <1>1, <1>5, <1>6, <1>7, <1>8 DEF Sums, Active, Idle
<1> QED BY <1>2, <1>3, <1>4, <1>9 DEF Totals, Balance

\* What a step that leaves the counters, the samples and the rows alone
\* leaves of the totals.
LEMMA TablesFrame ==
    ASSUME Grown, carried = SumFunctionOnSet(Flows, ports),
           UNCHANGED <<clock, counter, carried, ports, last, first, data>>
    PROVE  /\ Grown'
           /\ (carried = SumFunctionOnSet(Flows, ports))'
           /\ Billed' = Billed /\ Gained' = Gained
<1>1. Grown' BY DEF Grown
<1>2. Flows' = Flows BY DEF Flows, Flow
<1>3. Billed' = Billed BY DEF Billed, Deltas
<1>4. Gained' = Gained BY DEF Gained, Gains, Gain
<1> QED BY <1>1, <1>2, <1>3, <1>4

\* While one collector is at work the others are idle.
LEMMA OthersIdle ==
    ASSUME TInv, Single, NEW c \in Active, NEW d \in Collector, d # c
    PROVE  job[d] = Idle
<1>1. d \notin Active BY DEF Single
<1> QED BY <1>1 DEF Active, TInv, Typed

LEMMA IdleAtWork ==
    /\ Idle.at = "idle" /\ Idle.todo = {} /\ Idle.sum = 0
BY DEF Idle

LEMMA BeginTotals ==
    ASSUME TInv, Grown, Single, AtWork, Sums, NEW c \in Collector, Begin(c),
           Active = {}, spoilt' = spoilt
    PROVE  (Grown /\ Single /\ AtWork /\ Sums)'
<1> DEFINE j == [Idle EXCEPT !.at = "ports", !.todo = ports, !.now = clock]
<1>1. j.at = "ports" /\ j.todo = ports /\ j.sum = 0 BY DEF Idle
<1>2. \A d \in Collector : job[d] = Idle
  BY DEF Active, TInv, Typed
<1>3. /\ job' = [job EXCEPT ![c] = j]
      /\ UNCHANGED <<clock, counter, carried, ports, last, first, data>>
  BY DEF Begin
<1> HIDE DEF j
<1>4. job'[c] = j /\ \A d \in Collector : d # c => job'[d] = Idle
  BY <1>2, <1>3 DEF TInv, IInv, Shapes
<1>5. Active' = {c} BY <1>1, <1>4, IdleAtWork DEF Active
<1>6. Single' BY <1>5 DEF Single
<1>7. \A d \in Collector : /\ job'[d].todo \subseteq ports
                           /\ job'[d].at \notin {"out", "last", "store"}
                           /\ job'[d].sum = 0
  BY <1>1, <1>4, IdleAtWork
<1>8. AtWork' BY <1>3, <1>7 DEF AtWork
<1>9. /\ Grown' /\ (carried = SumFunctionOnSet(Flows, ports))'
      /\ Billed' = Billed /\ Gained' = Gained
  BY <1>3, TablesFrame DEF Sums
<1>10. Billed \in Nat /\ Gained \in Nat BY BilledNat, GainsNat
<1>11. Sums' BY <1>5, <1>7, <1>9, <1>10 DEF Sums
<1> QED BY <1>6, <1>8, <1>9, <1>11

LEMMA CrashTotals ==
    ASSUME TInv, Grown, Single, AtWork, Sums, NEW c \in Collector, Crash(c)
    PROVE  (Grown /\ Single /\ AtWork /\ Sums)'
<1>1. /\ job' = [job EXCEPT ![c] = Idle] /\ spoilt' # {} /\ c \in Active
      /\ UNCHANGED <<clock, counter, carried, ports, last, first, data>>
  BY DEF Crash, Active
<1>2. \A d \in Collector : job'[d] = Idle
  BY <1>1, OthersIdle DEF TInv, IInv, Shapes
<1>3. Single' /\ AtWork'
  BY <1>2, IdleAtWork DEF Single, Active, AtWork
<1>4. /\ Grown' /\ (carried = SumFunctionOnSet(Flows, ports))'
      /\ Billed' = Billed /\ Gained' = Gained
  BY <1>1, TablesFrame DEF Sums
<1>5. Billed \in Nat /\ Gained \in Nat BY BilledNat, GainsNat
<1>6. Sums' BY <1>1, <1>2, <1>4, <1>5, IdleAtWork DEF Sums
<1> QED BY <1>3, <1>4, <1>6

\* What a step of the one collector at work leaves of the totals, if it keeps
\* the samples, the sum and what there is to do.
LEMMA WorkTotals ==
    ASSUME TInv, Grown, Single, AtWork, Sums, NEW c \in Active,
           UNCHANGED <<clock, counter, carried, ports, last, first, data>>,
           spoilt \subseteq spoilt',
           \A d \in Collector : d # c => job'[d] = job[d],
           job'[c].at # "idle", job'[c].todo = job[c].todo,
           job'[c].sum = job[c].sum,
           job'[c].at \in {"out", "last", "store"} => Fresh(c)',
           job'[c].at = "store" => Exact(c)'
    PROVE  (Grown /\ Single /\ AtWork /\ Sums)'
<1>1. c \in Collector BY DEF Active
<1>2. Active' = Active BY DEF Active
<1>3. /\ Grown' /\ (carried = SumFunctionOnSet(Flows, ports))'
      /\ Billed' = Billed /\ Gained' = Gained
  BY TablesFrame DEF Sums
<1>4. ASSUME NEW d \in Collector
      PROVE  /\ job'[d].todo \subseteq ports
             /\ job'[d].at \in {"out", "last", "store"} => Fresh(d)'
             /\ job'[d].at = "store" => Exact(d)'
  <2>1. CASE d = c BY <2>1 DEF AtWork
  <2>2. CASE d # c
    <3>1. job'[d] = Idle BY <2>2, OthersIdle
    <3> QED BY <3>1, IdleAtWork
  <2> QED BY <2>1, <2>2
<1>5. AtWork' BY <1>4 DEF AtWork
<1>6. Single' BY <1>2 DEF Single
<1>7. \A d \in Collector : job'[d].sum = job[d].sum BY <1>1
<1>8. Active \subseteq Collector BY DEF Active
<1>9. spoilt' = {} => spoilt = {} OBVIOUS
<1>10. Sums' BY <1>2, <1>3, <1>7, <1>8, <1>9 DEF Sums
<1> QED BY <1>3, <1>5, <1>6, <1>10

\* An answer is not less than the last sample, and not too much for the time.
LEMMA GetTotals ==
    ASSUME TInv, Clean, Grown, Single, AtWork, Sums, NEW c \in Collector,
           NEW p \in Port, NEW s \in Side, getValue(c, p, s)
    PROVE  (Grown /\ Single /\ AtWork /\ Sums)'
<1> DEFINE at == IF s = "in" THEN "out" ELSE "last"
           j == [job[c] EXCEPT !.at = at, !.port = p, !.got[s] = counter[p][s]]
<1>j. job' = [job EXCEPT ![c] = j] BY DEF getValue, Get
<1>v. /\ UNCHANGED <<clock, counter, carried, ports, last, first, data,
                     spoilt>>
      /\ IF s = "in" THEN job[c].at = "ports" /\ p \in job[c].todo
                     ELSE job[c].at = "out" /\ p = job[c].port
  BY DEF getValue, Get
<1> HIDE DEF j
<1>0. /\ job' = [job EXCEPT ![c] = j]
      /\ UNCHANGED <<clock, counter, carried, ports, last, first, data,
                     spoilt>>
      /\ IF s = "in" THEN job[c].at = "ports" /\ p \in job[c].todo
                     ELSE job[c].at = "out" /\ p = job[c].port
  BY <1>j, <1>v
<1>t. job[c] \in Job /\ job \in [Collector -> Job]
  BY DEF TInv, IInv, Shapes
<1>a. at = IF s = "in" THEN "out" ELSE "last" OBVIOUS
<1> HIDE DEF at
<1>1. /\ j.at = at /\ j.port = p /\ j.now = job[c].now
      /\ j.got = [job[c].got EXCEPT ![s] = counter[p][s]]
      /\ j.todo = job[c].todo /\ j.sum = job[c].sum
  BY <1>t DEF Job, j
<1>2. job'[c] = j /\ \A d \in Collector : d # c => job'[d] = job[d]
  BY <1>0, <1>t
<1>3. c \in Active BY <1>0 DEF Active
<1>4. /\ job[c].now \in Start..clock /\ clock \in Nat
      /\ job[c].got \in Octets /\ counter[p] \in Octets
  BY <1>0, <1>t, TodayNow DEF TInv, IInv, Shapes, Timely, Job
<1>5. j.got[s] = counter[p][s]
      /\ \A z \in Side : z # s => j.got[z] = job[c].got[z]
  BY <1>1, <1>4 DEF Octets
<1>6. /\ Old <= counter[p][s] /\ counter[p][s] <= counter[p][s]
      /\ Paced(counter[p][s] - counter[p][s], clock - job[c].now)
      /\ last[p] # None =>
            /\ last[p].counter[s] <= counter[p][s]
            /\ Paced(counter[p][s] - last[p].counter[s], clock - last[p].time)
  <2>1. counter[p][s] \in Nat BY <1>4 DEF Octets
  <2>2. Paced(0, 0) BY BillingAssumption DEF Paced
  <2>3. /\ counter[p][s] - counter[p][s] = 0
        /\ clock - job[c].now \in Int /\ 0 <= clock - job[c].now
    BY <1>4, <2>1, BillingAssumption
  <2>4. Paced(counter[p][s] - counter[p][s], clock - job[c].now)
    BY <2>2, <2>3, PacedLess
  <2> QED BY <2>1, <2>4 DEF Grown
<1>7. Fresh(c)'
  <2>0. s = "out" => Fresh(c) /\ p = job[c].port BY <1>0 DEF AtWork, Side
  <2>1. p \in ports
    <3>1. CASE s = "in" BY <1>0, <3>1 DEF AtWork
    <3>2. CASE s = "out" BY <2>0, <3>2 DEF Fresh
    <3> QED BY <3>1, <3>2 DEF Side
  <2>2. ASSUME NEW z \in Side, z # s, s = "out"
        PROVE  /\ Old <= job[c].got[z] /\ job[c].got[z] <= counter[p][z]
               /\ Paced(counter[p][z] - job[c].got[z], clock - job[c].now)
               /\ last[p] # None =>
                     /\ last[p].counter[z] <= job[c].got[z]
                     /\ Paced(job[c].got[z] - last[p].counter[z],
                              clock - last[p].time)
    <3>1. z \in Answered(c) /\ p = job[c].port
      BY <1>0, <2>2 DEF Answered, Side
    <3> QED BY <2>0, <2>2, <3>1 DEF Fresh
  <2>3. ASSUME NEW z \in Answered(c)'
        PROVE  z \in Side /\ (z = s \/ (z # s /\ s = "out"))
    BY <1>1, <1>2, <1>a, <2>3 DEF Answered, Side
  <2>4. ASSUME NEW z \in Answered(c)'
        PROVE  /\ Old <= j.got[z] /\ j.got[z] <= counter[p][z]
               /\ Paced(counter[p][z] - j.got[z], clock - job[c].now)
               /\ last[p] # None =>
                     /\ last[p].counter[z] <= j.got[z]
                     /\ Paced(j.got[z] - last[p].counter[z],
                              clock - last[p].time)
    <3>1. CASE z = s BY <1>5, <1>6, <3>1
    <3>2. CASE z # s
      <4>1. z \in Side /\ s = "out" BY <2>3, <3>2
      <4>2. j.got[z] = job[c].got[z] BY <1>5, <3>2, <4>1
      <4> QED BY <2>2, <3>2, <4>1, <4>2
    <3> QED BY <3>1, <3>2
  <2>5. /\ job'[c].port = p /\ job'[c].got = j.got
        /\ job'[c].now = job[c].now
    BY <1>1, <1>2
  <2>6. Fresh(c)' = /\ p \in ports
                    /\ \A z \in Answered(c)' :
                       /\ Old <= j.got[z] /\ j.got[z] <= counter[p][z]
                       /\ Paced(counter[p][z] - j.got[z], clock - job[c].now)
                       /\ last[p] # None =>
                             /\ last[p].counter[z] <= j.got[z]
                             /\ Paced(j.got[z] - last[p].counter[z],
                                      clock - last[p].time)
    BY <1>0, <2>5 DEF Fresh
  <2> QED BY <2>1, <2>4, <2>6
<1>8. job'[c].at # "idle" /\ job'[c].at # "store" BY <1>1, <1>2, <1>a
<1> QED BY <1>0, <1>1, <1>2, <1>3, <1>7, <1>8, WorkTotals

\* The comparisons put no other delta in place.
LEMMA CompareTotals ==
    ASSUME TInv, Clean', Grown, Single, AtWork, Sums,
           NEW c \in Collector, Compare(c)
    PROVE  (Grown /\ Single /\ AtWork /\ Sums)'
<1> DEFINE p == job[c].port
           row == last[p]
<1>d. PICK delta \in [Side -> Int] :
         /\ job' = [job EXCEPT ![c].at = "store", ![c].delta = delta]
         /\ \A s \in Side :
               delta[s] \in IF row = None THEN {0}
                            ELSE Delta(job[c].got[s], row.counter[s],
                                       row.delta[s], clock - row.time)
  BY Compared DEF TInv
<1>0. /\ job[c].at = "last" /\ p \in Port
      /\ job[c] \in Job /\ job \in [Collector -> Job]
      /\ spoilt \subseteq spoilt'
      /\ UNCHANGED <<clock, counter, carried, ports, last, first, data>>
  BY DEF Compare, TInv, IInv, Shapes, Timely
<1>o. row # None =>
         \A s \in Side :
            ~ Open(job[c].got[s] - row.counter[s], clock - row.time)
  BY DEF Compare, Clean, Upset
<1>1. Fresh(c) BY <1>0 DEF AtWork
<1>2. ASSUME NEW s \in Side
      PROVE  delta[s] = IF row = None THEN 0
                        ELSE job[c].got[s] - row.counter[s]
  <2>1. CASE row = None BY <1>d, <2>1
  <2>2. CASE row # None
    <3>1. row \in Sample BY <1>0, <2>2 DEF TInv, Typed
    <3>2. /\ job[c].got[s] \in Nat /\ row.counter[s] \in Nat
          /\ clock - row.time \in Int
      BY <1>0, <3>1 DEF Job, Sample, Octets, TInv, IInv, Shapes
    <3>3. /\ row.counter[s] <= job[c].got[s]
          /\ Paced(job[c].got[s] - row.counter[s], clock - row.time)
      BY <1>0, <1>1, <2>2 DEF Fresh, Answered
    <3>4. Delta(job[c].got[s], row.counter[s], row.delta[s], clock - row.time)
             = {job[c].got[s] - row.counter[s]}
      BY <1>o, <2>2, <3>2, <3>3, DeltaExact
    <3> QED BY <1>d, <2>2, <3>4
  <2> QED BY <2>1, <2>2
<1>3. /\ job'[c].at = "store" /\ job'[c].delta = delta
      /\ job'[c].port = p /\ job'[c].got = job[c].got
      /\ job'[c].now = job[c].now
      /\ job'[c].todo = job[c].todo /\ job'[c].sum = job[c].sum
  BY <1>0, <1>d DEF Job
<1>4. \A d \in Collector : d # c => job'[d] = job[d] BY <1>0, <1>d
<1>5. c \in Active BY <1>0 DEF Active
<1>7. Fresh(c)' BY <1>0, <1>1, <1>3 DEF Fresh, Answered
<1>8. Exact(c)' BY <1>0, <1>2, <1>3 DEF Exact
<1> HIDE DEF p, row
<1> QED BY <1>0, <1>3, <1>4, <1>5, <1>7, <1>8, WorkTotals

\* What is stored is what the collector adds to its sum.
LEMMA StoreTotals ==
    ASSUME TInv, TInv', Clean, Grown, Single, AtWork, Sums,
           NEW c \in Collector, Store(c)
    PROVE  (Grown /\ Single /\ AtWork /\ Sums)'
<1> DEFINE p == job[c].port
           got == job[c].got
           delta == job[c].delta
           stored == [counter |-> got, delta |-> delta, time |-> job[c].now]
           more == job[c].sum + delta["in"] + delta["out"]
<1>0. /\ job[c].at = "store" /\ p \in Port
      /\ job[c] \in Job /\ job \in [Collector -> Job]
      /\ job[c].now \in Start..clock
      /\ job' = [job EXCEPT ![c].at = "ports", ![c].todo = @ \ {p},
                            ![c].sum = more]
      /\ last' = [last EXCEPT ![p] = stored]
      /\ first' = [first EXCEPT ![p] = IF last[p] = None THEN got ELSE @]
      /\ UNCHANGED <<clock, counter, carried, ports, data, spoilt>>
  BY TodayNow DEF Store, TInv, IInv, Shapes, Timely
<1>1. Fresh(c) /\ Exact(c) BY <1>0 DEF AtWork
<1>2. stored \in Sample /\ stored # None
      /\ stored.counter = got /\ stored.time = job[c].now
  <2>1. job[c].now \in Nat BY <1>0, BillingAssumption
  <2>2. stored \in Sample BY <1>0, <2>1 DEF Job, Sample
  <2> QED BY <2>2, BillingAssumption
<1>3. \A s \in Side : got[s] \in Nat /\ delta[s] \in Nat
  BY <1>0 DEF Job, Octets
<1> HIDE DEF stored, p, got, delta
<1>4. /\ last'[p] = stored
      /\ first'[p] = IF last[p] = None THEN got ELSE first[p]
      /\ \A q \in Port : q # p => last'[q] = last[q] /\ first'[q] = first[q]
  BY <1>0 DEF TInv, IInv, Shapes, Typed
<1>5. \A s \in Side :
         /\ last[p] # None => first[p][s] \in Nat /\ last[p].counter[s] \in Nat
         /\ delta[s] = IF last[p] = None THEN 0
                       ELSE got[s] - last[p].counter[s]
  <2>1. last[p] # None => last[p] \in Sample /\ first[p] \in Octets
    BY <1>0 DEF TInv, Typed
  <2> QED BY <1>1, <2>1 DEF Exact, Sample, Octets, p, got, delta
<1>6. Grown'
  <2> SUFFICES ASSUME NEW q \in Port, NEW s \in Side
               PROVE  /\ Old <= counter[q][s]
                      /\ last'[q] # None =>
                            /\ q \in ports
                            /\ Old <= first'[q][s]
                            /\ first'[q][s] <= last'[q].counter[s]
                            /\ last'[q].counter[s] <= counter[q][s]
                            /\ Paced(counter[q][s] - last'[q].counter[s],
                                     clock - last'[q].time)
    BY <1>0 DEF Grown
  <2>1. CASE q # p BY <1>4, <2>1 DEF Grown
  <2>2. CASE q = p
    <3>1. /\ p \in ports /\ Old <= got[s] /\ got[s] <= counter[p][s]
          /\ Paced(counter[p][s] - got[s], clock - job[c].now)
          /\ last[p] # None => last[p].counter[s] <= got[s]
      BY <1>0, <1>1 DEF Fresh, Answered, p, got
    <3>2. Old <= first'[p][s] /\ first'[p][s] <= got[s]
      <4>1. CASE last[p] = None BY <1>3, <1>4, <3>1, <4>1
      <4>2. CASE last[p] # None
        <5>1. /\ Old <= first[p][s] /\ first[p][s] <= last[p].counter[s]
              /\ last[p].counter[s] <= got[s] /\ first'[p][s] = first[p][s]
          BY <1>0, <1>4, <3>1, <4>2 DEF Grown
        <5>2. /\ first[p][s] \in Nat /\ last[p].counter[s] \in Nat
              /\ got[s] \in Nat
          BY <1>3, <1>5, <4>2
        <5> QED BY <5>1, <5>2
      <4> QED BY <4>1, <4>2
    <3>3. Old <= counter[p][s] BY <2>2 DEF Grown
    <3> QED BY <1>2, <1>4, <2>2, <3>1, <3>2, <3>3
  <2> QED BY <2>1, <2>2
<1>7. /\ job'[c].at = "ports" /\ job'[c].todo = job[c].todo \ {p}
      /\ job'[c].sum = more
  BY <1>0 DEF Job
<1>8. \A d \in Collector : d # c => job'[d] = job[d] BY <1>0
<1>9. Active' = Active /\ c \in Active BY <1>0, <1>7, <1>8 DEF Active
<1>10. \A d \in Collector : d # c => job[d] = Idle /\ job'[d] = Idle
  BY <1>8, <1>9, OthersIdle
<1>11. AtWork'
  <2>1. job'[c].todo \subseteq ports BY <1>7 DEF AtWork
  <2>2. \A d \in Collector : /\ job'[d].todo \subseteq ports
                             /\ job'[d].at \notin {"out", "last", "store"}
    BY <1>7, <1>10, <2>1, IdleAtWork
  <2> QED BY <1>0, <2>2 DEF AtWork
<1>12. Single' BY <1>9 DEF Single
<1>13. Gained' = Gained + delta["in"] + delta["out"]
  <2>1. \A q \in Port : Gains[q] \in Int /\ Gains'[q] \in Int
    <3>1. \A q \in Port : Gains[q] \in Nat BY GainsNat
    <3>2. \A q \in Port : Gains'[q] \in Nat BY <1>6, GainsNatNext
    <3> QED BY <3>1, <3>2
  <2>2. \A q \in Port \ {p} : Gains[q] = Gains'[q]
    BY <1>4 DEF Gains, Gain
  <2>4. Gained' = Gained - Gains[p] + Gains'[p]
    BY <1>0, <2>1, <2>2, SumChanged, BillingAssumption DEF Gained
  <2>5. Gains'[p] = Gains[p] + delta["in"] + delta["out"]
    <3>1. Gains'[p] = (got["in"] - first'[p]["in"])
                        + (got["out"] - first'[p]["out"])
      BY <1>0, <1>2, <1>4 DEF Gains, Gain
    <3>2. CASE last[p] = None
      <4>1. Gains[p] = 0 BY <1>0, <3>2 DEF Gains, Gain
      <4> QED BY <1>3, <1>4, <1>5, <3>1, <3>2, <4>1 DEF Side
    <3>3. CASE last[p] # None
      <4>1. Gains[p] = (last[p].counter["in"] - first[p]["in"])
                          + (last[p].counter["out"] - first[p]["out"])
        BY <1>0, <3>3 DEF Gains, Gain
      <4> QED BY <1>3, <1>4, <1>5, <3>1, <3>3, <4>1 DEF Side
    <3> QED BY <3>2, <3>3
  <2>6. Gained \in Int BY GainsNat
  <2>7. delta["in"] \in Int /\ delta["out"] \in Int BY <1>3 DEF Side
  <2>8. Gains[p] \in Int BY <1>0, <2>1
  <2> QED BY <2>4, <2>5, <2>6, <2>7, <2>8
<1>14. Billed' = Billed BY <1>0 DEF Billed, Deltas
<1>15. Billed \in Nat /\ Gained \in Nat /\ job[c].sum \in Nat
  BY BilledNat, GainsNat DEF TInv, Typed
<1>16. delta["in"] \in Nat /\ delta["out"] \in Nat BY <1>3 DEF Side
<1>17. Billed' <= Gained' /\ Billed' + job'[c].sum <= Gained'
  BY <1>7, <1>13, <1>14, <1>15, <1>16 DEF Sums
<1>18. spoilt = {} => Billed' + job'[c].sum = Gained'
  BY <1>7, <1>9, <1>13, <1>14, <1>15, <1>16 DEF Sums
<1>19. Active' = {c}
  BY <1>9 DEF Single
<1>20. Flows' = Flows BY <1>0 DEF Flows, Flow
<1>21. \A d \in Collector : Billed' + job'[d].sum <= Gained'
  BY <1>10, <1>14, <1>15, <1>17, IdleAtWork
<1> HIDE DEF more
<1>22. Sums' BY <1>0, <1>17, <1>18, <1>19, <1>20, <1>21 DEF Sums
<1> QED BY <1>6, <1>11, <1>12, <1>22

\* The row of a collector, or none where the second of its start has one.
LEMMA InsertTotals ==
    ASSUME TInv, TInv', Grown, Single, AtWork, Sums,
           NEW c \in Collector, Insert(c)
    PROVE  (Grown /\ Single /\ AtWork /\ Sums)'
<1> DEFINE t == job[c].now
           period == IF DOMAIN data = {} THEN 0 ELSE clock - Max(DOMAIN data)
           row == [delta |-> job[c].sum, period |-> period > 0]
           refused == period < 0 \/ t \in DOMAIN data
<1>0. /\ job' = [job EXCEPT ![c] = Idle] /\ c \in Active
      /\ UNCHANGED <<clock, counter, carried, ports, last, first>>
      /\ spoilt \subseteq spoilt'
      /\ refused => spoilt' # {}
      /\ job[c].sum \in Nat
  BY DEF Insert, Active, TInv, Typed
<1>d. data' = IF refused THEN data
              ELSE [u \in DOMAIN data \cup {t} |->
                       IF u = t THEN row ELSE data[u]]
  BY <1>0 DEF Insert
<1>r. ~ refused => t \notin DOMAIN data OBVIOUS
<1>1. \A d \in Collector : job'[d] = Idle
  BY <1>0, OthersIdle DEF TInv, IInv, Shapes
<1>2. Single' /\ AtWork' /\ Active' = {}
  BY <1>1, IdleAtWork DEF Single, Active, AtWork
<1>3. row.delta = job[c].sum OBVIOUS
<1> HIDE DEF row, t, refused
<1>4. Billed' = IF refused THEN Billed ELSE Billed + job[c].sum
  <2>1. /\ \A u \in DOMAIN data : Deltas[u] \in Nat
        /\ IsFiniteSet(DOMAIN data)
    BY BilledNat
  <2>4. CASE refused
    <3>1. data' = data BY <1>d, <2>4
    <3> QED BY <2>4, <3>1 DEF Billed, Deltas
  <2>5. CASE ~ refused
    <3>0. /\ DOMAIN data' = DOMAIN data \cup {t} /\ t \notin DOMAIN data
          /\ \A u \in DOMAIN data : Deltas'[u] = Deltas[u]
      BY <1>d, <1>r, <2>5 DEF Deltas
    <3>2. SumFunctionOnSet(Deltas', DOMAIN data) = Billed
      BY <2>1, <3>0, SumAlike DEF Billed
    <3>1. Deltas'[t] = job[c].sum BY <1>d, <1>3, <2>5 DEF Deltas
    <3>4. \A u \in DOMAIN data \cup {t} : Deltas'[u] \in Int
      BY <1>0, <2>1, <3>0, <3>1
    <3>3. SumFunctionOnSet(Deltas', DOMAIN data \cup {t}) =
             Deltas'[t] + SumFunctionOnSet(Deltas', DOMAIN data)
      BY <2>1, <3>0, <3>4, SumAdd
    <3>5. Billed \in Nat BY BilledNat
    <3> QED BY <1>0, <2>5, <3>0, <3>1, <3>2, <3>3, <3>5 DEF Billed
  <2> QED BY <2>4, <2>5
<1>5. Grown' /\ Flows' = Flows /\ Gained' = Gained
  BY <1>0 DEF Grown, Flows, Flow, Gained, Gains, Gain
<1>6. Billed \in Nat /\ Gained \in Nat BY BilledNat, GainsNat
<1>7. /\ Billed' <= Gained' /\ Billed' + 0 <= Gained'
      /\ spoilt' = {} => Billed' = Gained'
  BY <1>0, <1>4, <1>5, <1>6 DEF Sums, Active
<1>8. Sums' BY <1>0, <1>1, <1>2, <1>5, <1>7, IdleAtWork DEF Sums
<1> QED BY <1>2, <1>5, <1>8

LEMMA ResetTotals ==
    ASSUME TInv, Grown, Single, AtWork, Sums, ResetBill
    PROVE  (Grown /\ Single /\ AtWork /\ Sums)'
<1>1. /\ DOMAIN data' = {} /\ spoilt' # {}
      /\ UNCHANGED <<clock, counter, carried, ports, last, first, job>>
  BY DEF ResetBill
<1>2. Billed' = 0 BY <1>1, SumEmpty DEF Billed
<1>3. Grown' /\ Flows' = Flows /\ Gained' = Gained
  BY <1>1 DEF Grown, Flows, Flow, Gained, Gains, Gain
<1>4. Single' /\ AtWork' BY <1>1 DEF Single, Active, AtWork, Fresh, Answered, Exact
<1>5. Billed \in Nat /\ Gained \in Nat BY BilledNat, GainsNat
<1>6. \A d \in Collector : job[d].sum \in Nat BY DEF TInv, Typed
<1>7. Sums' BY <1>1, <1>2, <1>3, <1>5, <1>6 DEF Sums
<1> QED BY <1>3, <1>4, <1>7

LEMMA SameTotals ==
    ASSUME Grown, Single, AtWork, Sums, spoilt \subseteq spoilt',
           UNCHANGED <<clock, counter, carried, ports, last, first, data, job>>
    PROVE  (Grown /\ Single /\ AtWork /\ Sums)'
<1>1. Grown' /\ Flows' = Flows /\ Gained' = Gained /\ Billed' = Billed
  BY DEF Grown, Flows, Flow, Gained, Gains, Gain, Billed, Deltas
<1>2. Single' /\ AtWork' /\ Active' = Active
  BY DEF Single, Active, AtWork, Fresh, Answered, Exact
<1>0. spoilt' = {} => spoilt = {} OBVIOUS
<1>3. Sums' BY <1>0, <1>1, <1>2 DEF Sums
<1> QED BY <1>1, <1>2, <1>3
LEMMA Shifted ==
    ASSUME NEW a \in Int, NEW b \in Int, NEW k \in Int
    PROVE  (a + k) - b = (a - b) + k
OBVIOUS

\* Time passes, and the ports carry no more than the line can.
LEMMA TickTotals ==
    ASSUME TInv, Grown, Single, AtWork, Sums, Tick
    PROVE  (Grown /\ Single /\ AtWork /\ Sums)'
<1>1. PICK traffic \in [Port -> [Side -> 0..MaxTraffic]] :
         /\ counter' = [p \in Port |->
                           [s \in Side |-> counter[p][s] + traffic[p][s]]]
         /\ carried' = carried + SumFunctionOnSet(
               [p \in Port |-> traffic[p]["in"] + traffic[p]["out"]], ports)
  BY DEF Tick
<1> DEFINE f == [p \in Port |-> traffic[p]["in"] + traffic[p]["out"]]
<1>2. /\ clock' = clock + 1 /\ clock \in Nat
      /\ UNCHANGED <<ports, last, first, data, job, spoilt>>
  BY DEF Tick, TInv, IInv, Shapes
<1>3. \A p \in Port, s \in Side :
         /\ counter'[p][s] = counter[p][s] + traffic[p][s]
         /\ counter[p][s] \in Nat /\ traffic[p][s] \in 0..MaxTraffic
         /\ traffic[p][s] \in Nat
  BY <1>1, BillingAssumption DEF TInv, IInv, Shapes, Octets
<1>4. \A p \in Port, s \in Side : last[p] # None =>
         last[p].counter[s] \in Nat /\ last[p].time \in Nat
  BY DEF TInv, Typed, Sample, Octets
<1>5. ASSUME NEW p \in Port, NEW s \in Side
      PROVE  /\ Old <= counter'[p][s]
             /\ last[p] # None =>
                   /\ p \in ports /\ Old <= first[p][s]
                   /\ first[p][s] <= last[p].counter[s]
                   /\ last[p].counter[s] <= counter'[p][s]
                   /\ Paced(counter'[p][s] - last[p].counter[s],
                            clock' - last[p].time)
  <2>1. Old <= counter'[p][s] BY <1>3, BillingAssumption DEF Grown
  <2>2. ASSUME last[p] # None
        PROVE  /\ last[p].counter[s] <= counter'[p][s]
               /\ Paced(counter'[p][s] - last[p].counter[s],
                        clock' - last[p].time)
    <3> DEFINE n == counter[p][s] - last[p].counter[s]
               d == clock - last[p].time
    <3>1. n \in Int /\ d \in Int BY <1>2, <1>3, <1>4, <2>2
    <3>2. Paced(n, d) /\ last[p].counter[s] <= counter[p][s]
      BY <2>2 DEF Grown
    <3>3. /\ counter'[p][s] - last[p].counter[s] = n + traffic[p][s]
          /\ clock' - last[p].time = d + 1
      <4>1. /\ counter'[p][s] = counter[p][s] + traffic[p][s]
            /\ counter[p][s] \in Int /\ traffic[p][s] \in Int
            /\ last[p].counter[s] \in Int /\ last[p].time \in Int
            /\ clock' = clock + 1 /\ clock \in Int
        BY <1>2, <1>3, <1>4, <2>2
      <4>2. counter'[p][s] - last[p].counter[s] = n + traffic[p][s]
        BY <4>1, Shifted
      <4>3. clock' - last[p].time = d + 1 BY <4>1, Shifted
      <4> QED BY <4>2, <4>3
    <3>4. last[p].counter[s] <= counter'[p][s]
      BY <1>3, <1>4, <2>2, <3>2
    <3> HIDE DEF n, d
    <3>5. Paced(n + traffic[p][s], d + 1)
      BY <1>3, <3>1, <3>2, PacedTick
    <3> QED BY <3>3, <3>4, <3>5
  <2> QED BY <2>1, <2>2 DEF Grown
<1>6. Grown' BY <1>2, <1>5 DEF Grown
<1>7. ASSUME NEW c \in Collector, Fresh(c), job[c].at \in {"out", "last", "store"}
      PROVE  Fresh(c)'
  <2> DEFINE p == job[c].port
  <2>1. p \in Port /\ job[c].now \in Int /\ job[c].got \in Octets
    BY <1>7 DEF TInv, IInv, Shapes, Timely, Job
  <2>0. Answered(c)' = Answered(c) /\ Answered(c) \subseteq Side
    BY <1>2 DEF Answered, Side
  <2>2. ASSUME NEW s \in Answered(c)
        PROVE  /\ job[c].got[s] <= counter'[p][s]
               /\ Paced(counter'[p][s] - job[c].got[s], clock' - job[c].now)
               /\ last[p] # None =>
                     Paced(job[c].got[s] - last[p].counter[s],
                           clock' - last[p].time)
    <3> DEFINE n == counter[p][s] - job[c].got[s]
               d == clock - job[c].now
    <3>0. s \in Side /\ job[c].got[s] \in Nat BY <2>0, <2>1 DEF Octets
    <3>1. n \in Int /\ d \in Int BY <1>2, <1>3, <2>1, <3>0
    <3>2. Paced(n, d) /\ job[c].got[s] <= counter[p][s]
      BY <1>7 DEF Fresh
    <3>3. /\ counter'[p][s] - job[c].got[s] = n + traffic[p][s]
          /\ clock' - job[c].now = d + 1
      <4>1. /\ counter'[p][s] = counter[p][s] + traffic[p][s]
            /\ counter[p][s] \in Int /\ traffic[p][s] \in Int
            /\ job[c].got[s] \in Int /\ job[c].now \in Int
            /\ clock' = clock + 1 /\ clock \in Int
        BY <1>2, <1>3, <2>1, <3>0
      <4>2. counter'[p][s] - job[c].got[s] = n + traffic[p][s]
        BY <4>1, Shifted
      <4> DEFINE now == job[c].now
      <4>4. /\ clock' = clock + 1 /\ clock \in Int /\ now \in Int
            /\ d = clock - now
        BY <4>1
      <4> HIDE DEF now, d
      <4>5. clock' - now = d + 1 BY <4>4
      <4>3. clock' - job[c].now = d + 1 BY <4>5 DEF now
      <4> QED BY <4>2, <4>3
    <3>4. job[c].got[s] <= counter'[p][s] BY <1>3, <2>1, <3>0, <3>2
    <3>5. ASSUME last[p] # None
          PROVE  Paced(job[c].got[s] - last[p].counter[s],
                       clock' - last[p].time)
      <4> DEFINE m == job[c].got[s] - last[p].counter[s]
                 e == clock - last[p].time
                 g == clock' - last[p].time
      <4>1. m \in Int /\ e \in Int /\ g \in Int /\ e <= g
        BY <1>2, <1>4, <2>1, <3>0, <3>5
      <4>2. Paced(m, e) BY <1>7, <3>5 DEF Fresh
      <4> HIDE DEF m, e, g
      <4>3. Paced(m, g) BY <4>1, <4>2, PacedLess
      <4> QED BY <4>3 DEF m, g
    <3> HIDE DEF n, d
    <3>6. Paced(n + traffic[p][s], d + 1)
      BY <1>3, <2>1, <3>0, <3>1, <3>2, PacedTick
    <3> QED BY <3>3, <3>4, <3>5, <3>6
  <2> QED BY <1>2, <1>7, <2>0, <2>2 DEF Fresh
<1>8. \A c \in Collector : Exact(c) => Exact(c)' BY <1>2 DEF Exact
<1>9. AtWork' BY <1>2, <1>7, <1>8 DEF AtWork
<1>10. Single' /\ Active' = Active BY <1>2 DEF Single, Active
<1>11. Billed' = Billed /\ Gained' = Gained
  BY <1>2 DEF Billed, Deltas, Gained, Gains, Gain
<1>12. carried' = SumFunctionOnSet(Flows', ports)
  <2>1. \A p \in ports : /\ Flows[p] \in Int /\ f[p] \in Int
                         /\ Flows'[p] = Flows[p] + f[p]
    <3> SUFFICES ASSUME NEW p \in ports
                 PROVE  /\ Flows[p] \in Int /\ f[p] \in Int
                        /\ Flows'[p] = Flows[p] + f[p]
      OBVIOUS
    <3>1. p \in Port BY PortsFinite
    <3>2. Flows[p] = Flow(p) /\ Flows[p] \in Int BY <3>1, FlowsInt
    <3>3. Flows'[p] = (counter'[p]["in"] - Old) + (counter'[p]["out"] - Old)
      BY <3>1 DEF Flows, Flow
    <3>4. f[p] = traffic[p]["in"] + traffic[p]["out"] BY <3>1
    <3> HIDE DEF f
    <3> QED BY <1>3, <3>1, <3>2, <3>3, <3>4, BillingAssumption DEF Flow, Side
  <2> HIDE DEF f
  <2>2. SumFunctionOnSet(Flows', ports) =
           SumFunctionOnSet(Flows, ports) + SumFunctionOnSet(f, ports)
    BY <2>1, PortsFinite, SumOfSums
  <2>3. carried = SumFunctionOnSet(Flows, ports) BY DEF Sums
  <2>4. carried' = carried + SumFunctionOnSet(f, ports) BY <1>1 DEF f
  <2> QED BY <2>2, <2>3, <2>4
<1>13. Sums' BY <1>2, <1>10, <1>11, <1>12 DEF Sums
<1> QED BY <1>6, <1>9, <1>10, <1>13

LEMMA NextTotals == TInv /\ TInv' /\ Totals /\ [Next]_vars => Totals'
<1> SUFFICES ASSUME TInv, TInv', Totals, [Next]_vars, Clean'
             PROVE  Balance'
  BY DEF Totals
<1>0. spoilt \subseteq spoilt' => Balance /\ Clean BY DEF Totals, Clean
<1>1. CASE Tick
  <2>1. Balance BY <1>0, <1>1 DEF Tick
  <2> QED BY <1>1, <2>1, TickTotals DEF Balance
<1>2. CASE ResetBill
  <2>1. Balance BY <1>0, <1>2 DEF ResetBill
  <2> QED BY <1>2, <2>1, ResetTotals DEF Balance
<1>3. ASSUME NEW k \in Periods, Calculate(k) PROVE Balance'
  <2>1. /\ spoilt \subseteq spoilt'
        /\ UNCHANGED <<clock, counter, carried, ports, last, first, data, job>>
    BY <1>3 DEF Calculate, Check, getRates, Write
  <2> QED BY <1>0, <2>1, SameTotals DEF Balance
<1>4. /\ \A p \in Port : ~ AddPort(p)
      /\ \A p \in Port : ~ DeletePort(p)
      /\ \A p \in Port : ~ ResetCounters(p)
  BY DEF AddPort, DeletePort, ResetCounters, Clean, Upset
<1>5. ASSUME NEW c \in Collector, Cron(c) PROVE Balance'
  <2>1. Balance BY <1>0, <1>5 DEF Cron
  <2> QED BY <1>5, <2>1, BeginTotals DEF Balance, Cron
<1>6. ASSUME NEW c \in Collector, CronToo(c) PROVE Balance'
  BY <1>6 DEF CronToo, Clean, Upset
<1>7. ASSUME NEW c \in Collector, Again(c) PROVE Balance'
  <2>1. Balance BY <1>0, <1>7 DEF Again
  <2> QED BY <1>7, <2>1, BeginTotals DEF Balance, Again
<1>8. ASSUME NEW c \in Collector, Compare(c) PROVE Balance'
  <2>1. Balance BY <1>0, <1>8 DEF Compare
  <2> QED BY <1>8, <2>1, CompareTotals DEF Balance
<1>9. ASSUME NEW c \in Collector, Store(c) PROVE Balance'
  <2>1. Balance /\ Clean BY <1>0, <1>9 DEF Store
  <2> QED BY <1>9, <2>1, StoreTotals DEF Balance
<1>10. ASSUME NEW c \in Collector, Insert(c) PROVE Balance'
  <2>1. Balance BY <1>0, <1>10 DEF Insert
  <2> QED BY <1>10, <2>1, InsertTotals DEF Balance
<1>11. ASSUME NEW c \in Collector, Crash(c) PROVE Balance'
  <2>1. Balance BY <1>0, <1>11 DEF Crash
  <2> QED BY <1>11, <2>1, CrashTotals DEF Balance
<1>12. ASSUME NEW c \in Collector, NEW p \in Port, NEW s \in Side,
              getValue(c, p, s)
       PROVE  Balance'
  <2>1. Balance /\ Clean BY <1>0, <1>12 DEF getValue
  <2> QED BY <1>12, <2>1, GetTotals DEF Balance
<1>13. ASSUME NEW c \in Collector, NEW p \in Port, NEW s \in Side,
              getNoValue(c, p, s)
       PROVE  Balance'
  BY <1>13 DEF getNoValue, Clean, Upset
<1>16. CASE SetBack BY <1>16 DEF SetBack, Clean, Upset
<1>17. CASE CrashCalc
  <2>1. /\ spoilt \subseteq spoilt'
        /\ UNCHANGED <<clock, counter, carried, ports, last, first, data, job>>
    BY <1>17 DEF CrashCalc
  <2> QED BY <1>0, <2>1, SameTotals DEF Balance
<1>14. CASE UNCHANGED vars
  <2>1. Balance BY <1>0, <1>14 DEF vars
  <2> QED BY <1>14, <2>1, SameTotals DEF Balance, vars
<1>15. ASSUME NEW c \in Collector,
             \/ Cron(c) \/ CronToo(c) \/ Again(c)
             \/ Compare(c) \/ Store(c) \/ Insert(c) \/ Crash(c)
             \/ \E p \in Port, s \in Side : \/ getValue(c, p, s)
                                         \/ getNoValue(c, p, s)
       PROVE  Balance'
  BY <1>5, <1>6, <1>7, <1>8, <1>9, <1>10, <1>11, <1>12, <1>13, <1>15
<1> QED BY <1>1, <1>2, <1>3, <1>4, <1>14, <1>15, <1>16, <1>17 DEF Next

LEMMA TotalsAlways == Spec => [](TInv /\ Totals)
<1>1. Init => TInv /\ Totals
  BY InitIInv, InitTyped, InitTotals DEF TInv
<1>2. TInv /\ Totals /\ [Next]_vars => (TInv /\ Totals)'
  BY NextTInv, NextTotals
<1> QED BY <1>1, <1>2, PTL DEF Spec

\* NeverOverbilled: while counters and the clock only grow, are answered, one
\* collector at a time samples the same ports, and no rate is so close to
\* ifSpeed that the rounding of delta_to_bits decides, a bill never shows more
\* than its ports carried, whatever collectors die and whatever rows are
\* refused or deleted.
THEOREM BilledWithinCarried == Spec => []NeverOverbilled
<1>1. TInv /\ Totals => NeverOverbilled
  <2> SUFFICES ASSUME TInv, Totals, Clean PROVE Billed <= carried
    BY DEF NeverOverbilled, Clean
  <2>1. Grown /\ Sums BY DEF Totals, Balance
  <2>2. Billed <= Gained /\ Gained <= carried
    BY <2>1, GainedWithin DEF Sums
  <2>3. Billed \in Nat /\ Gained \in Nat /\ carried \in Nat
    BY <2>1, BilledNat, GainsNat DEF TInv, Typed
  <2> QED BY <2>2, <2>3
<1> QED BY <1>1, TotalsAlways, PTL

\* NothingLeftOut: while nothing has upset the samples, the rows of bill_data
\* add up to what the counters gained between the first sample and the last,
\* octet for octet, for any number of ports and any speed, as long as no rate
\* comes closer to ifSpeed than the rounding of delta_to_bits (Blur): nothing
\* is said of a line that the rounding misjudges.  No line carries more than
\* its speed (BillingAssumption).
THEOREM EveryOctetBilled == Spec => []NothingLeftOut
<1>1. Totals => NothingLeftOut
  BY DEF Totals, Balance, Clean, Upset, Sums, NothingLeftOut, Gained, Gains
<1> QED BY <1>1, TotalsAlways, PTL
=============================================================================
