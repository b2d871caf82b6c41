---------------------------- MODULE PollerWrapper ----------------------------
(***************************************************************************)
(* poller-wrapper.py with distributed polling (and its copies discovery-   *)
(* wrapper.py and services-wrapper.py): cron starts a wrapper on every     *)
(* host.  The first becomes the master of a round, the others join it as   *)
(* nodes.  Each goes through all devices and polls those it can claim.     *)
(* The master then waits for its nodes and clears the claims.              *)
(*                                                                         *)
(* All they share is in memcached: poller.master, poller.nodes and a key   *)
(* poller.device.N per claim.  A key that is not there, or whose server    *)
(* can not be reached, reads as None, and there is no transaction: even    *)
(* renewing a key is a get and a set.                                      *)
(*                                                                         *)
(* A wrapper has several threads for polls; they take different devices,   *)
(* so one stands for all.  Times are left out: a key that is renewed every *)
(* second may go when nobody does so, a claim, for 300 seconds and renewed *)
(* by nobody, at any time, also while its device is still polled.          *)
(***************************************************************************)
EXTENDS Integers

CONSTANTS
    Wrapper, Host, Device,
    HostOf,      \* $config['distributed_poller_name'] of a wrapper
    None,        \* memcached's answer for a missing key
    Pickled,     \* a key that holds Python's None, and reads like that
    Stale,       \* the roles whose renewals write back what others may have
                 \* changed since; those of the others only keep the key
    Ops,         \* which faults may happen
    MaxFaults,   \* bound: their number
    MaxNodes     \* bound: nodes are counted up to here

ASSUME WrapperAssumption ==
    /\ HostOf \in [Wrapper -> Host]
    /\ Device # {}
    /\ None \notin Host \union Int /\ Pickled \notin Int \union {None}
    /\ Host \intersect Int = {}
    /\ Stale \subseteq {"master", "node"}
    /\ Ops \subseteq {"crash", "lose"}
    /\ MaxFaults \in Nat /\ MaxNodes \in Nat

VARIABLES
    master,    \* poller.master
    nodes,     \* poller.nodes
    claimed,   \* the devices with a key poller.device.N
    reach,     \* whether a wrapper reaches memcached
    run,       \* the wrappers
    faults

vars == <<master, nodes, claimed, reach, run, faults>>

Pc == {"off", "check", "ask", "setmaster", "setnodes", "join", "work", "add", "alive", "poll",
       "end", "wait", "clear", "unmaster", "unnodes", "exit"}
\* What memc_touch of a role has read, -1: nothing.
TouchType(role) ==
    (IF role = "node" THEN 0..MaxNodes ELSE Host) \union {None, -1}
RunRecord ==
    [pc : Pc, role : {"alone", "master", "node"},
     dist : BOOLEAN,                        \* distpoll
     todo : SUBSET Device, dev : Device,    \* poll_queue, device_id
     lost : BOOLEAN,   \* history: its claim went before the poll was over
     touch : 0..MaxNodes \union Host \union {None, -1}]
RunType == {r \in RunRecord : r.touch \in TouchType(r.role)}

TypeOK ==
    /\ master \in Host \union {None}
    /\ nodes \in 0..MaxNodes \union {None, Pickled}
    /\ claimed \subseteq Device
    /\ reach \in [Wrapper -> BOOLEAN]
    /\ run \in [Wrapper -> RunType]
    /\ faults \in 0..MaxFaults

Off == [pc |-> "off", role |-> "alone", dist |-> FALSE, todo |-> {},
        dev |-> CHOOSE d \in Device : TRUE, lost |-> FALSE, touch |-> -1]

Init ==
    /\ master = None /\ nodes = None /\ claimed = {}
    /\ reach = [w \in Wrapper |-> TRUE]
    /\ run = [w \in Wrapper |-> Off]
    /\ faults = 0

At(w, pc) == run[w].pc = pc
Goto(w, pc) == run' = [run EXCEPT ![w].pc = pc]
Back(w) == run' = [run EXCEPT ![w].pc = "work", ![w].dev = Off.dev,
                              ![w].lost = FALSE]
\* What a get answers to w.
Get(w, key) == IF reach[w] /\ key # Pickled THEN key ELSE None
-----------------------------------------------------------------------------
(***************************************************************************)
(* Registration                                                            *)
(***************************************************************************)
Enter(w, pc, role, dist) ==
    run' = [run EXCEPT ![w] = [Off EXCEPT !.pc = pc, !.role = role,
                                          !.dist = dist, !.todo = Device]]

\* "This system is already joined as the poller master."
Start(w) ==
    /\ At(w, "off")
    /\ Get(w, master) # HostOf[w]
    /\ Goto(w, "check")
    /\ UNCHANGED <<master, nodes, claimed, reach, faults>>

\* memc_alive()
Check(w) ==
    /\ At(w, "check")
    /\ IF reach[w] THEN Goto(w, "ask") ELSE Enter(w, "work", "alone", FALSE)
    /\ UNCHANGED <<master, nodes, claimed, reach, faults>>

Register(w) ==
    /\ At(w, "ask")
    /\ IF Get(w, master) = None THEN Enter(w, "setmaster", "master", TRUE)
                                ELSE Enter(w, "join", "node", TRUE)
    /\ UNCHANGED <<master, nodes, claimed, reach, faults>>

SetMaster(w) ==
    /\ At(w, "setmaster")
    /\ master' = IF reach[w] THEN HostOf[w] ELSE master
    /\ Goto(w, "setnodes")
    /\ UNCHANGED <<nodes, claimed, reach, faults>>

SetNodes(w) ==
    /\ At(w, "setnodes")
    /\ nodes' = IF reach[w] THEN 0 ELSE nodes
    /\ Goto(w, "work")
    /\ UNCHANGED <<master, claimed, reach, faults>>

\* incr changes nothing where there is no key, and raises what nobody
\* catches where the key holds no number.
Join(w) ==
    /\ At(w, "join")
    /\ IF reach[w] /\ nodes = Pickled
       THEN run' = [run EXCEPT ![w] = Off] /\ UNCHANGED nodes
       ELSE /\ Goto(w, "work")
            /\ nodes' = IF reach[w] /\ nodes \notin {None, Pickled, MaxNodes}
                        THEN nodes + 1 ELSE nodes
    /\ UNCHANGED <<master, claimed, reach, faults>>
-----------------------------------------------------------------------------
(***************************************************************************)
(* poll_worker                                                             *)
(***************************************************************************)
Take(w, d) ==
    /\ At(w, "work") /\ d \in run[w].todo
    /\ IF run[w].dist /\ reach[w] /\ d \in claimed
       THEN run' = [run EXCEPT ![w].todo = @ \ {d}]
       ELSE run' = [run EXCEPT ![w].todo = @ \ {d}, ![w].dev = d,
                    ![w].pc = IF run[w].dist THEN "add" ELSE "poll"]
    /\ UNCHANGED <<master, nodes, claimed, reach, faults>>

\* Mutant: the answer of add is ignored.
AddAnyway(w) ==
    /\ At(w, "add")
    /\ claimed' = IF reach[w] THEN claimed \union {run[w].dev} ELSE claimed
    /\ Goto(w, "alive")
    /\ UNCHANGED <<master, nodes, reach, faults>>

\* add fails where the key exists, and where memcached does not answer.
Add(w) ==
    /\ At(w, "add")
    /\ IF ~run[w].dist THEN Goto(w, "poll") /\ UNCHANGED claimed
       ELSE IF reach[w] /\ run[w].dev \notin claimed
            THEN Goto(w, "alive") /\ claimed' = claimed \union {run[w].dev}
            ELSE Back(w) /\ UNCHANGED claimed
    /\ UNCHANGED <<master, nodes, reach, faults>>

\* Mutant: `not` is missing before memc_alive().
AliveInverted(w) ==
    /\ At(w, "alive")
    /\ IF reach[w] /\ run[w].role = "node"
       THEN Back(w)
       ELSE Goto(w, "poll")
    /\ UNCHANGED <<master, nodes, claimed, reach, faults>>

\* "Lost Memcached, Not polling Device %s as Node. Master will poll it.", but
\* the claim stays.
Alive(w) ==
    /\ At(w, "alive")
    /\ IF ~reach[w] /\ run[w].role = "node"
       THEN Back(w)
       ELSE Goto(w, "poll")
    /\ UNCHANGED <<master, nodes, claimed, reach, faults>>

Polled(w) ==
    /\ At(w, "poll")
    /\ Back(w)
    /\ UNCHANGED <<master, nodes, claimed, reach, faults>>

QueueDone(w) ==
    /\ At(w, "work") /\ run[w].todo = {}
    /\ Goto(w, "end")
    /\ UNCHANGED <<master, nodes, claimed, reach, faults>>
-----------------------------------------------------------------------------
(***************************************************************************)
(* printworker: it renews a key every second, up to the end of the program.*)
(***************************************************************************)
Registering == {"off", "check", "ask", "setmaster", "setnodes", "join"}
Prints(w, role) ==
    run[w].role = role /\ run[w].dist /\ run[w].pc \in Pc \ Registering

\* memc_touch: a master renews poller.master, whoever it names, and a node
\* poller.nodes; what is missing is there afterwards, and is None.
TouchGet(w) ==
    /\ run[w].touch = -1 /\ run[w].role \in Stale /\ Prints(w, run[w].role)
    /\ LET key == IF run[w].role = "node" THEN nodes ELSE master
       IN  run' = [run EXCEPT ![w].touch = Get(w, key)]
    /\ UNCHANGED <<master, nodes, claimed, reach, faults>>
TouchSet(w) ==
    /\ run[w].touch # -1
    /\ run' = [run EXCEPT ![w].touch = -1]
    /\ nodes' = IF ~reach[w] \/ run[w].role # "node" THEN nodes
                ELSE IF run[w].touch = None THEN Pickled ELSE run[w].touch
    /\ master' = IF ~reach[w] \/ run[w].role # "master" THEN master ELSE run[w].touch
    /\ UNCHANGED <<claimed, reach, faults>>

\* "WARNING: Lost Memcached. Taking over all devices."
TakeOver(w) ==
    /\ Prints(w, "master") /\ ~reach[w]
    /\ run' = [run EXCEPT ![w].dist = FALSE]
    /\ UNCHANGED <<master, nodes, claimed, reach, faults>>
-----------------------------------------------------------------------------
(***************************************************************************)
(* The end of a round                                                      *)
(***************************************************************************)
\* Mutant: the count is decreased without a floor.
EndUncounted(w) ==
    /\ At(w, "end")
    /\ Goto(w, "exit")
    /\ nodes' = IF reach[w] /\ nodes \notin {None, Pickled} THEN nodes - 1 ELSE nodes
    /\ UNCHANGED <<master, claimed, reach, faults>>

\* Only a wrapper that finds itself master waits; every other one counts
\* itself off, whether it was counted or not.
End(w) ==
    /\ At(w, "end")
    /\ IF run[w].role # "node" /\ Get(w, master) = HostOf[w]
       THEN Goto(w, "wait") /\ UNCHANGED nodes
       ELSE /\ Goto(w, "exit")
            /\ nodes' = IF reach[w] /\ nodes \notin {None, Pickled, 0}
                        THEN nodes - 1 ELSE nodes
    /\ UNCHANGED <<master, claimed, reach, faults>>

AfterWait(w) == IF run[w].role = "master" THEN "clear" ELSE "exit"

\* Mutant: a count that is not there is waited for.
WaitZero(w) ==
    /\ At(w, "wait")
    /\ IF Get(w, nodes) = 0 THEN Goto(w, AfterWait(w)) ELSE UNCHANGED run
    /\ UNCHANGED <<master, nodes, claimed, reach, faults>>

\* "Wait for all poller-nodes to finish", looking once a second.  A wrapper
\* that was not master when it began has no minlocks and dies then.
Wait(w) ==
    /\ At(w, "wait")
    /\ IF Get(w, nodes) \in {None, 0} THEN Goto(w, AfterWait(w)) ELSE UNCHANGED run
    /\ UNCHANGED <<master, nodes, claimed, reach, faults>>

\* The wrappers once the claims on the devices D are gone.
Claims(w, d) == run[w].dist /\ run[w].pc \in {"alive", "poll"} /\ run[w].dev = d
Without(D) == [w \in Wrapper |->
                 [run[w] EXCEPT !.lost = @ \/ \E d \in D : Claims(w, d)]]

Clear(w) ==
    /\ At(w, "clear")
    /\ LET gone == IF reach[w] THEN Device ELSE {}
       IN  /\ claimed' = claimed \ gone
           /\ run' = [Without(gone) EXCEPT ![w].pc = "unmaster"]
    /\ UNCHANGED <<master, nodes, reach, faults>>
DeleteMaster(w) ==
    /\ At(w, "unmaster")
    /\ master' = IF reach[w] THEN None ELSE master
    /\ Goto(w, "unnodes")
    /\ UNCHANGED <<nodes, claimed, reach, faults>>
DeleteNodes(w) ==
    /\ At(w, "unnodes")
    /\ nodes' = IF reach[w] THEN None ELSE nodes
    /\ Goto(w, "exit")
    /\ UNCHANGED <<master, claimed, reach, faults>>

Exit(w) ==
    /\ At(w, "exit")
    /\ run' = [run EXCEPT ![w] = Off]
    /\ UNCHANGED <<master, nodes, claimed, reach, faults>>

Work(w) ==
    \/ Start(w) \/ Check(w) \/ Register(w) \/ SetMaster(w) \/ SetNodes(w) \/ Join(w)
    \/ (\E d \in Device : Take(w, d)) \/ Add(w) \/ Alive(w) \/ Polled(w)
    \/ QueueDone(w) \/ End(w) \/ Wait(w) \/ Clear(w) \/ DeleteMaster(w)
    \/ DeleteNodes(w) \/ Exit(w)
Renew(w) == TouchGet(w) \/ TouchSet(w) \/ TakeOver(w)
-----------------------------------------------------------------------------
(***************************************************************************)
(* memcached and faults                                                    *)
(***************************************************************************)
Renewed(role) == \E w \in Wrapper : reach[w] /\ Prints(w, role)

MasterExpires ==
    /\ master # None /\ ~Renewed("master")
    /\ master' = None
    /\ UNCHANGED <<nodes, claimed, reach, run, faults>>

\* Set for 300 seconds, and from the first renewal on for ten.
NodesExpire ==
    /\ nodes # None /\ ~Renewed("node")
    /\ nodes' = None
    /\ UNCHANGED <<master, claimed, reach, run, faults>>

\* The claim of poller-wrapper.py:287 after 300 seconds.
ClaimExpires(d) ==
    /\ d \in claimed
    /\ claimed' = claimed \ {d}
    /\ run' = Without({d})
    /\ UNCHANGED <<master, nodes, reach, faults>>

Fault(op) == op \in Ops /\ faults < MaxFaults /\ faults' = faults + 1
Crash(w) ==
    /\ ~At(w, "off")
    /\ Fault("crash")
    /\ run' = [run EXCEPT ![w] = Off]
    /\ UNCHANGED <<master, nodes, claimed, reach>>
Lose(w) ==
    /\ reach[w]
    /\ Fault("lose")
    /\ reach' = [reach EXCEPT ![w] = FALSE]
    /\ UNCHANGED <<master, nodes, claimed, run>>
Regain(w) ==
    /\ ~reach[w]
    /\ reach' = [reach EXCEPT ![w] = TRUE]
    /\ UNCHANGED <<master, nodes, claimed, run, faults>>

Next ==
    \/ \E w \in Wrapper : Work(w) \/ Renew(w) \/ Crash(w) \/ Lose(w) \/ Regain(w)
    \/ MasterExpires \/ NodesExpire \/ \E d \in Device : ClaimExpires(d)

Spec == Init /\ [][Next]_vars

\* Cron starts the wrappers again and again, polls end, keys expire.
FairSpec ==
    /\ Spec
    /\ \A w \in Wrapper : SF_vars(Work(w)) /\ WF_vars(Renew(w))
    /\ SF_vars(MasterExpires) /\ SF_vars(NodesExpire)
    /\ \A d \in Device : SF_vars(ClaimExpires(d))
-----------------------------------------------------------------------------
Polls(w, d) == At(w, "poll") /\ run[w].dev = d

\* "This device appears to be being polled by another poller" (poller-
\* wrapper.py:289): no device is polled by two wrappers at once, unless one
\* of them works without memcached, or its claim went before its poll was
\* over: after 300 seconds, or by a master that did not wait for it.
OneAtATime ==
    \A d \in Device, v, w \in Wrapper :
        /\ Polls(v, d) /\ run[v].dist /\ ~run[v].lost
        /\ Polls(w, d) /\ run[w].dist /\ ~run[w].lost
        => v = w

\* The master does not wait for ever, not even for nodes that died or whose
\* signing off was overwritten (poller-wrapper.py:343), provided that again
\* and again no node is at work: nodes that overlap renew each other's count.
NoNodes == \A w \in Wrapper : run[w].role # "node"
MasterEnds == []<>NoNodes => \A w \in Wrapper : []<>~At(w, "wait")

\* Every device is polled again and again, though wrappers die with claims
\* that nobody takes back, nodes that lose memcached leave theirs to a
\* master that finds the device claimed (poller-wrapper.py:285-307), and
\* masters wait for ever.
PolledAgain == \A d \in Device : []<>(\E w \in Wrapper : Polls(w, d))
=============================================================================
