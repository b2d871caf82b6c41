------------------------------ MODULE MCAlerts ------------------------------
(* Values of the constants of Alerts for TLC: rule configurations as the   *)
(* form create-alert-item.inc.php stores them.                             *)
EXTENDS Alerts

Row(count, delay, interval, invert, mute) ==
    [count |-> count, delay |-> delay, interval |-> interval,
     invert |-> invert, mute |-> mute]
Config(count, delay, interval) ==
    [r \in Rule |-> Row(count, delay, interval, FALSE, FALSE)]

Once        == Config(0, FALSE, FALSE)
TwiceSpaced == Config(2, TRUE, TRUE)
Delayed     == Config(0, TRUE, FALSE)
\* A rule as usual, and one that is inverted or muted.
AndInverted ==
    [r \in Rule |-> Row(2, FALSE, FALSE, r # CHOOSE x \in Rule : TRUE, FALSE)]
AndMuted ==
    [r \in Rule |-> Row(2, FALSE, FALSE, FALSE, r # CHOOSE x \in Rule : TRUE)]
=============================================================================
