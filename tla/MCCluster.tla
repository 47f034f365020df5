------------------------------- MODULE MCCluster -------------------------------
(* An instance of Cluster for TLC: a phone (1) and a laptop (2). *)
EXTENDS Cluster

PriorityOf == <<2, 2>>
================================================================================
