----------------------------- MODULE PlainUpstream -----------------------------
(***************************************************************************)
(* symbivpn/resolver.py, class PlainUpstream: a named resolver on the      *)
(* local network, asked over UDP.  The name has several addresses, some of *)
(* which never answer; the one that answered last is tried first and the   *)
(* time that is left is shared between those still to try.                 *)
(*                                                                         *)
(* Threads share the list and the address that works without a lock, so    *)
(* every read of self._working in endpoints() is a step.  The refreshed    *)
(* list and its expiry are written together: a thread in between would     *)
(* look the name up again, as if it had come before.  A clock ticks for    *)
(* each call by itself, since calls share no deadline.                     *)
(***************************************************************************)
EXTENDS Integers, Sequences, SequencesExt

CONSTANTS
    Callers,    \* threads in resolve()
    Lists,      \* the lists of addresses the name may resolve to
    Answering,  \* the addresses with a resolver behind them
    NoAddress,  \* None
    Timeout,    \* self.timeout in ticks
    MinShare,   \* the 0.5 seconds an exchange gets at least
    Delays      \* how long an answer takes

\* An equal share is enough for an answer, and an exchange gets no more: also
\* when threads that change self._working have put one address too many into
\* the list.
ASSUME PlainAssumption ==
    /\ Timeout \in Nat /\ MinShare \in Nat \ {0} /\ Delays \subseteq Nat
    /\ NoAddress \notin Answering
    /\ \A found \in Lists :
          /\ found # <<>> /\ IsInjective(found) /\ found \in Seq(ToSet(found))
          /\ NoAddress \notin ToSet(found)
          /\ \A d \in Delays \cup {MinShare} : d * (Len(found) + 1) <= Timeout

VARIABLES
    endpoints,  \* self._endpoints, <<>> before the first lookup
    expired,    \* now >= self._endpoints_expire
    working,    \* self._working
    caller      \* caller[c]: where c is, and its locals

plainVars == <<endpoints, expired, working, caller>>

\* given is the list the call has seen, candidates what it tries.
NoCall == [at |-> "idle", given |-> <<>>, candidates |-> <<>>, index |-> 0, remaining |-> 0]

PlainInit ==
    /\ endpoints = <<>>
    /\ expired = TRUE
    /\ working = NoAddress
    /\ caller = [c \in Callers |-> NoCall]

In(c, place) == caller[c].at = place

Move(c, place) == caller' = [caller EXCEPT ![c].at = place]

\* The loop of resolve() begins.
Trial(given, candidates) ==
    [at |-> "try", given |-> given, candidates |-> candidates, index |-> 1, remaining |-> Timeout]

\* endpoints() begins: the list may be used as it is, or is looked up anew.
BeginCall(c) ==
    /\ In(c, "idle")
    /\ \/ /\ endpoints # <<>> /\ ~expired
          /\ Move(c, "check")
          /\ UNCHANGED <<endpoints, expired>>
       \/ /\ endpoints = <<>> \/ expired
          /\ \E found \in Lists : endpoints' = found
          /\ expired' = FALSE
          /\ Move(c, "check")
    /\ UNCHANGED working

\* getaddrinfo() fails: the call does too, also with an old list at hand.
LookupFails(c) ==
    /\ In(c, "idle")
    /\ endpoints = <<>> \/ expired
    /\ Move(c, "unlocated")
    /\ UNCHANGED <<endpoints, expired, working>>

\* `if self._working in self._endpoints`, and the list that is then used.
CheckWorking(c) ==
    /\ In(c, "check")
    /\ Move(c, IF working \in ToSet(endpoints) THEN "others" ELSE "all")
    /\ UNCHANGED <<endpoints, expired, working>>

TakeAll(c) ==
    /\ In(c, "all")
    /\ caller' = [caller EXCEPT ![c] = Trial(endpoints, endpoints)]
    /\ UNCHANGED <<endpoints, expired, working>>

\* The comprehension: the list object is fixed by the first step, while
\* self._working is read again for every element.
TakeOthers(c) ==
    LET given == IF caller[c].index = 0 THEN endpoints ELSE caller[c].given
        i     == caller[c].index + 1
    IN  /\ In(c, "others")
        /\ i <= Len(given)
        /\ caller' = [caller EXCEPT ![c].given = given, ![c].index = i, ![c].candidates =
                          IF given[i] # working THEN Append(caller[c].candidates, given[i])
                          ELSE caller[c].candidates]
        /\ UNCHANGED <<endpoints, expired, working>>

PutFirst(c) ==
    /\ In(c, "others")
    /\ caller[c].index > 0
    /\ caller[c].index = Len(caller[c].given)
    /\ caller' = [caller EXCEPT ![c] = Trial(@.given, <<working>> \o @.candidates)]
    /\ UNCHANGED <<endpoints, expired, working>>

\* Mutant: every address gets all the time there is.
BudgetAll(c) == caller[c].remaining

Budget(c) ==
    LET remaining == caller[c].remaining
        left == Len(caller[c].candidates) - caller[c].index + 1
    IN  IF left = 1 THEN remaining ELSE Min({remaining, Max({remaining \div left, MinShare})})

Candidate(c) == caller[c].candidates[caller[c].index]

Trying(c) ==
    /\ In(c, "try")
    /\ caller[c].index <= Len(caller[c].candidates)
    /\ caller[c].remaining > 0

\* _ask() raises: nothing came in time, or the socket failed at once.
AskInVain(c) ==
    /\ Trying(c)
    /\ Candidate(c) \in Answering => \E d \in Delays : d > Budget(c)
    /\ \E spent \in {0, Budget(c)} :
        caller' = [caller EXCEPT ![c].index = @ + 1, ![c].remaining = @ - spent]
    /\ UNCHANGED <<endpoints, expired, working>>

\* _ask() returns a datagram from the address it asked.  The header is
\* looked at, and a truncated answer is fetched again over TCP.
AskAnswered(c) ==
    /\ Trying(c)
    /\ Candidate(c) \in Answering
    /\ \E d \in Delays : d <= Budget(c)
    /\ working' = Candidate(c)
    /\ \E end \in {"answered", "malformed", "tcp failed"} : Move(c, end)
    /\ UNCHANGED <<endpoints, expired>>

\* Out of addresses, or out of time before the next.
AllInVain(c) ==
    /\ In(c, "try")
    /\ ~Trying(c)
    /\ Move(c, "timed out")
    /\ UNCHANGED <<endpoints, expired, working>>

EndCall(c) ==
    /\ caller[c].at \in {"unlocated", "timed out", "answered", "malformed", "tcp failed"}
    /\ caller' = [caller EXCEPT ![c] = NoCall]
    /\ UNCHANGED <<endpoints, expired, working>>

\* ENDPOINT_TTL runs out.
ListExpires ==
    /\ ~expired
    /\ expired' = TRUE
    /\ UNCHANGED <<endpoints, working, caller>>

PlainNext ==
    \/ ListExpires
    \/ \E c \in Callers :
        \/ BeginCall(c) \/ LookupFails(c) \/ CheckWorking(c) \/ TakeAll(c) \/ TakeOthers(c)
        \/ PutFirst(c) \/ AskInVain(c) \/ AskAnswered(c) \/ AllInVain(c) \/ EndCall(c)

PlainSpec == PlainInit /\ [][PlainNext]_plainVars

\* A resolver one of whose addresses answers does not look dead: the time the
\* silent addresses take leaves enough for the one that answers, wherever it
\* is in the list and whatever other threads do to the order (resolver.py:383).
AnsweringAddressFound ==
    \A c \in Callers : In(c, "timed out") => ToSet(caller[c].given) \cap Answering = {}
===============================================================================
