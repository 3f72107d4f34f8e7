------------------------------ MODULE MCBroker ------------------------------
(***************************************************************************)
(* Finite instances of Broker for TLC.                                     *)
(***************************************************************************)
EXTENDS Broker

CONSTANTS s1, s2, c1, c2, c3, g1, g2, op1, sub1, op2

\* Budgets: a team of two calls in one system (operator and sub-agent), one
\* call of another system; the operator pays for its sub-agent's call too.
TeamSystemOf == [c \in Calls |-> IF c = c3 THEN s2 ELSE s1]
TeamCharged == [c \in Calls |->
  CASE c = c1 -> {s1, op1} [] c = c2 -> {s1, op1, sub1} [] OTHER -> {s2, op2}]
SystemOnly == [c \in Calls |-> {TeamSystemOf[c]}]
OneGroup == [c \in Calls |-> {g1}]
\* Models that share one quota group and have one of their own.
SharedGroups == [c \in Calls |-> IF c = c2 THEN {g1, g2} ELSE IF c = c3 THEN {g2} ELSE {g1}]

Each(n) == [g \in Groups |-> n]
One == Each(1)
Two == Each(2)
Three == Each(3)
Four == Each(4)
Uneven == [g \in Groups |-> IF g = g2 THEN 3 ELSE 4]
TeamLimit == [a \in Accounts |-> IF a = sub1 THEN 2 ELSE 3]
Rich == [a \in Accounts |-> 20]
=============================================================================
