------------------------------- MODULE MCGateway -------------------------------
(* Instance of Gateway for TLC, and of two services it runs that share no      *)
(* state with it: in a behaviour the gateway itself, the reflector or the time *)
(* server takes steps.  The tunnel is used exactly if the uplink is not        *)
(* pinned, so that each setting takes both values in half the states.          *)
EXTENDS Gateway, Reflector, TimeServer

VARIABLE part  \* which of the three runs

MCRequests ==
    {[size |-> 47, version |-> 4, mode |-> 3], [size |-> 48, version |-> 4, mode |-> 3],
     [size |-> 48, version |-> 0, mode |-> 3], [size |-> 68, version |-> 3, mode |-> 4]}

MCInit ==
    /\ Init /\ viaVpn = (pinned = NoDevice)
    /\ ReflectorInit
    /\ TimeInit
    /\ part \in {"gateway", "reflector", "time"}
    /\ part # "gateway" => pinned = NoDevice /\ \A u \in Uplinks : net[u] = 1
    /\ part # "time" => clockGood

MCNext ==
    \/ part = "gateway" /\ Next /\ UNCHANGED <<reflectVars, timeVars, part>>
    \/ part = "reflector" /\ ReflectorNext /\ UNCHANGED <<vars, timeVars, part>>
    \/ part = "time" /\ TimeNext /\ UNCHANGED <<vars, reflectVars, part>>

\* Gateway's FairSpec, and every packet is received or lost in the end.
MCSpec ==
    /\ MCInit /\ [][MCNext]_<<vars, reflectVars, timeVars, part>>
    /\ WF_vars(part = "gateway" /\ Watch) /\ WF_vars(part = "gateway" /\ Start)
    /\ WF_reflectVars(Received)
===============================================================================
