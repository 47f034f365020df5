------------------------------- MODULE Admission -------------------------------
(***************************************************************************)
(* What the TCP listener of symbivpn/server.py promises about connections, *)
(* without its counters: a connection is admitted exactly when fewer than  *)
(* MaxConnections are being served and its client has fewer than           *)
(* MaxPerClient of them, and is turned away exactly when not.  Module      *)
(* Service implements it.                                                  *)
(***************************************************************************)
EXTENDS Integers, FiniteSets

CONSTANTS
    Connections,     \* identities of TCP connections
    ClientOf,        \* the client at the other end of each
    MaxConnections,  \* tcp_max_connections
    MaxPerClient     \* tcp_max_per_client

VARIABLES
    admitted,  \* connections that hold a slot
    turned,    \* connections just refused one
    open       \* the server is accepting

SharedBy(k) == {h \in admitted : ClientOf[h] = ClientOf[k]}

HasRoom(k) ==
    /\ Cardinality(admitted) < MaxConnections
    /\ Cardinality(SharedBy(k)) < MaxPerClient

Init == admitted = {} /\ turned = {} /\ open = TRUE

Admit(k) ==
    /\ open => HasRoom(k)
    /\ admitted' = admitted \cup {k}
    /\ UNCHANGED <<turned, open>>

Refuse(k) ==
    /\ open => ~HasRoom(k)
    /\ turned' = turned \cup {k}
    /\ UNCHANGED <<admitted, open>>

Depart(k) ==
    /\ admitted' = admitted \ {k}
    /\ turned' = turned \ {k}
    /\ UNCHANGED open

\* The server stops: connections nobody has begun to serve are dropped.
Shut ==
    /\ open' = FALSE
    /\ admitted' \in SUBSET admitted
    /\ UNCHANGED turned

Next ==
    \/ \E k \in Connections : Admit(k) \/ Refuse(k) \/ Depart(k)
    \/ Shut

Spec == Init /\ [][Next]_<<admitted, turned, open>>
===============================================================================
