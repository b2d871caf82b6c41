---------------------------- MODULE AlertProtocol ----------------------------
(***************************************************************************)
(* What the alerting system promises its contacts: of each key they hear   *)
(* of faults and of recoveries, and of a recovery only when the last thing *)
(* they heard was a fault.  A fault may be repeated.                       *)
(***************************************************************************)
CONSTANT Key
VARIABLES
    told,   \* the last thing the contacts heard of a key
    turn    \* flips with every notice, so that none is a stuttering step

Init ==
    /\ told = [k \in Key |-> "ok"]
    /\ turn = [k \in Key |-> FALSE]

Notice(k, what) ==
    /\ told' = [told EXCEPT ![k] = what]
    /\ turn' = [turn EXCEPT ![k] = ~@]

Fault(k) == Notice(k, "fault")
Recovery(k) == told[k] = "fault" /\ Notice(k, "ok")

Next == \E k \in Key : Fault(k) \/ Recovery(k)

Spec == Init /\ [][Next]_<<told, turn>>
=============================================================================
