------------------------------- MODULE MCService -------------------------------
(* Instance of Service for TLC: a client with two connections and two more     *)
(* with one each, so that either limit on the slots binds without the other.   *)
(* Connections whose names could be exchanged arrive in a fixed order.         *)
EXTENDS Service

CONSTANTS c1, c2, c3, d1, k1, k2, k3, k4

MCClientOf ==
    [x \in {d1, k1, k2, k3, k4} |-> CASE x \in {k1, k2} -> c1 [] x = k3 -> c2 [] OTHER -> c3]

Arrived(k) == conn'[k] # "none"

InOrder == (Arrived(k2) => Arrived(k1)) /\ (Arrived(k4) => Arrived(k3))

MCSpec == Init /\ [][Next /\ InOrder]_vars /\ Fairness
===============================================================================
