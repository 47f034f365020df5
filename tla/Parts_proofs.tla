------------------------------ MODULE Parts_proofs -----------------------------
(***************************************************************************)
(* Theorems about the sealed VPN state (Vault), the encrypted upstream's   *)
(* pooled connections (Transports) and the plain upstream (PlainUpstream). *)
(*                                                                         *)
(* Vault: its promises hold until a program crosses another one.  Until    *)
(* then the state is Sound: the key goes through two phases (KeyPhase), of *)
(* which the second keeps it in its file or with the connector; whoever    *)
(* saves is alone and replaces what it has read (SavingInv); and the names *)
(* on their way to the store are known nowhere else (NamesInv).            *)
(*                                                                         *)
(* Transports: a connection is in the pool once or with one thread         *)
(* (OwnedOnce), pooled connections are quiet, and one in use carries its   *)
(* user's query or the answer to it, nothing else (LinesInv).              *)
(*                                                                         *)
(* PlainUpstream: a call either tries the list it was given, or one that   *)
(* begins with an address that answers; the time left is enough for each   *)
(* address left (CallInv).                                                 *)
(***************************************************************************)
EXTENDS Vault, Transports, PlainUpstream, SequenceTheorems, FiniteSetTheorems,
        WellFoundedInduction, TLAPS

-------------------------------------------------------------------------------
(* The sealed VPN state *)

Points == {"down", "idle", "key", "make", "fill", "fill anew", "load", "up", "change", "save", "write",
    "replace", "apply", "export", "exported", "mark", "shred", "unlink", "truncate", "refill", "unmark"}
Managing == {"export", "exported", "mark", "shred", "unlink", "truncate", "refill", "unmark"}
Early == {"key", "make", "fill", "load"}
Late == {"save", "write", "replace"}
Kinds == {"none", "add", "remove", "init", "force", "export", "pair", "restore"}

Memories == [key : Keys \cup {Nothing}, locked : BOOLEAN, peers : Peers, read : Stores]
Tasks == [kind : Kinds, name : Names \cup {Nothing}]
Files == Keys \cup {Nothing, Torn}
Leads == {Nothing, "tmp", "file", "gone"}

\* What every variable can hold.
VaultType ==
    /\ keyfile \in Files /\ bundle \in Files
    /\ marker \in BOOLEAN /\ crossed \in BOOLEAN
    /\ file \in Stores /\ tmp \in Stores \cup {Nothing}
    /\ fd \in [Programs -> Leads] /\ mem \in [Programs -> Memories]
    /\ pc \in [Programs -> Points] /\ task \in [Programs -> Tasks]
    /\ live \in Peers /\ given \subseteq Names /\ promised \subseteq Names /\ revoked \subseteq Names

\* What add_peer(), remove_peer() and initialise_server() are called for, and
\* where the change is under way.
Changes == {"add", "remove", "init", "force"}
Working == Late \cup {"change", "apply"}

\* Which task goes with which point, for each program.
TaskInv ==
    /\ \/ pc["service"] \in {"down", "up"} \cup Early /\ task["service"].kind = "none"
       \/ pc["service"] \in Working /\ task["service"].kind \in {"add", "remove"}
    /\ \/ pc["cli"] = "idle" /\ task["cli"].kind = "none"
       \/ pc["cli"] \in {"key", "make", "fill"} /\ task["cli"].kind \in Changes \cup {"export"}
       \/ pc["cli"] \in {"load"} \cup Working /\ task["cli"].kind \in Changes
       \/ pc["cli"] \in {"export", "exported"} /\ task["cli"].kind = "export"
       \/ pc["cli"] \in {"mark", "shred", "unlink"} /\ task["cli"].kind = "pair"
       \/ pc["cli"] \in {"truncate", "refill", "unmark"} /\ task["cli"].kind = "restore"
    /\ \A p \in Programs : task[p].kind \in {"add", "remove"} => task[p].name \in Names

\* What a program has of the store: nothing before it has loaded it; the store
\* as read, or nothing but its seal, while it changes nothing; and a locked
\* store is never on its way to the disk.
MemInv ==
    \A p \in Programs :
      /\ pc[p] \notin Working \cup {"up"} => ~mem[p].locked /\ mem[p].peers = Empty /\ mem[p].read = NoStore
      /\ pc[p] \in {"up", "change", "apply"} => mem[p].locked \/ mem[p].peers = mem[p].read.peers
      /\ mem[p].locked =>
            /\ mem[p].key = Nothing /\ mem[p].read.form = "sealed" /\ mem[p].peers = Empty
            /\ pc[p] \in {"up", "change"} \/ (pc[p] = "save" /\ task[p].kind \in {"init", "force"})

\* No key was ever made: nothing is sealed, nothing exported, and at most one
\* program is about to make one.
NoKeyYet ==
    /\ keyfile \in {Nothing, Torn} /\ bundle = Nothing /\ ~marker
    /\ file.form = "plain"
    /\ pc["cli"] \notin Managing
    /\ \A p \in Programs : mem[p].key = Nothing
    /\ \A p \in Programs : pc[p] = "fill" => keyfile = Torn /\ pc[Other(p)] # "fill"

\* There is a key.  It is in its file or with the connector, and with the latter
\* before the former is overwritten; random bytes in its place go with a marker
\* and a sealed store.
KeyMade ==
    /\ keyfile # "second" /\ bundle \in {Nothing, Torn, "key"}
    /\ keyfile = "key" \/ bundle = "key"
    /\ marker => bundle = "key" /\ file.form = "sealed"
    /\ keyfile \in {"junk", Nothing} => marker
    /\ pc["cli"] \in Managing => bundle = "key" \/ pc["cli"] \in {"export", "exported"}
    /\ pc["cli"] \in {"export", "exported"} => keyfile = "key" /\ mem["cli"].key = "key"
    /\ pc["cli"] \in {"mark", "shred", "unlink"} => file.form = "sealed"
    /\ pc["cli"] \in {"shred", "unlink"} => marker
    /\ pc["cli"] = "unmark" => keyfile = "key"
    /\ task["cli"].kind = "export" => ~marker
    /\ \A p \in Programs :
        /\ pc[p] # "fill"
        /\ mem[p].key \in {Nothing, "key", "junk"}
        /\ mem[p].key = "junk" => pc[p] = "load" /\ file.form = "sealed"

KeyPhase == NoKeyYet \/ KeyMade

\* The store is whole and sealed with the key, if it is sealed; whoever has read
\* it sealed has the key or keeps it locked, and it has not become a plain one
\* since.
FormInv ==
    /\ file.form # Torn /\ (file.form = "sealed" => file.key = "key")
    /\ \A p \in Programs :
         pc[p] \in Working \cup {"up"} =>
            /\ mem[p].read.form # Torn
            /\ mem[p].read.form = "sealed" => file.form = "sealed" /\ (mem[p].locked \/ mem[p].key = "key")

\* Only one program saves at a time, and what it saves replaces what it read.
SavingInv ==
    \A p \in Programs :
        /\ Saving(p) => ~Saving(Other(p)) /\ mem[p].read = file
        /\ pc[p] = "write" => fd[p] = "tmp" /\ tmp = NoStore
        /\ pc[p] # "write" => fd[p] = Nothing
        /\ pc[p] = "replace" => tmp = Body(p)

\* The name a program is adding; the name it is removing; the names that mean a
\* peer to somebody; the names a program knows.
Fresh(p) == IF pc[p] \in Late /\ task[p].kind = "add" THEN {task[p].name} ELSE {}
Removing(p) == IF pc[p] \in Late \cup {"apply"} /\ task[p].kind = "remove" THEN {task[p].name} ELSE {}
Seen == Known(file.peers) \cup Known(live) \cup promised \cup revoked
HeldNames(p) == Known(mem[p].peers) \cup Known(mem[p].read.peers)

\* Names on their way: what is saved keeps every promised peer, adds the fresh
\* one only, and drops the one to remove; a fresh name is known nowhere else.
NamesInv ==
    /\ Seen \subseteq given
    /\ \A p \in Programs :
        /\ HeldNames(p) \cup Removing(p) \subseteq given
        /\ Removing(p) \cap Known(mem[p].peers) = {}
        /\ pc[p] \in Late /\ ~mem[p].locked =>
            /\ Known(mem[p].peers) \subseteq Known(mem[p].read.peers) \cup Fresh(p)
            /\ Fresh(p) \subseteq Known(mem[p].peers)
            /\ promised \cap Known(mem[p].read.peers) \subseteq Known(mem[p].peers)
        /\ Fresh(p) \cap (Seen \cup Known(mem[p].read.peers) \cup HeldNames(Other(p)) \cup Removing(Other(p))) = {}

\* What StoreSurvives and RevokedStaysOut say of peers.
PeersInv ==
    /\ promised \subseteq Known(file.peers)
    /\ revoked \cap (Known(file.peers) \cup Known(live)) = {}

\* The inductive invariant, until a program crosses another.
Sound == VaultType /\ TaskInv /\ MemInv /\ SavingInv /\ FormInv /\ KeyPhase /\ NamesInv /\ PeersInv
VaultInv == crossed \in BOOLEAN /\ (~crossed => Sound)

\* There are two programs.
LEMMA Others == Other("cli") = "service" /\ Other("service") = "cli"
BY DEF Other, Programs

\* The placeholders have the types of what they stand for.
LEMMA Dummies ==
    /\ Empty \in Peers /\ NoStore \in Stores /\ Blank \in Memories /\ Idle \in Tasks
    /\ Nothing \in Files /\ Torn \in Files /\ Keys \subseteq Files /\ {"key", "second", "junk"} \subseteq Keys
<1>1. Empty \in Peers
  BY HostsAssumption DEF Empty, Peers
<1>2. NoStore \in Stores
  BY <1>1 DEF NoStore, Store, Stores, Torn
<1>3. Blank \in Memories
  BY <1>1, <1>2 DEF Blank, Memories
<1>4. Idle \in Tasks
  BY DEF Idle, Tasks, Kinds
<1> QED
  BY <1>1, <1>2, <1>3, <1>4 DEF Files, Keys

\* Where a program that does not run is.
LEMMA RestingAt == Resting["service"] = "down" /\ Resting["cli"] = "idle"
BY DEF Resting

\* Records built from typed fields are typed, and the other way round.
LEMMA TaskTyped ==
    ASSUME NEW kind \in Kinds, NEW n \in Names \cup {Nothing}
    PROVE  [kind |-> kind, name |-> n] \in Tasks
BY DEF Tasks

LEMMA MemoryTyped ==
    ASSUME NEW m \in Memories
    PROVE  /\ m.key \in Keys \cup {Nothing} /\ m.locked \in BOOLEAN /\ m.peers \in Peers /\ m.read \in Stores
           /\ m = [key |-> m.key, locked |-> m.locked, peers |-> m.peers, read |-> m.read]
           /\ \A k \in Keys \cup {Nothing} : [m EXCEPT !.key = k] \in Memories
           /\ \A ps \in Peers : [m EXCEPT !.peers = ps] \in Memories
           /\ \A st \in Stores : [m EXCEPT !.read = st] \in Memories
           /\ \A st \in Stores : [m EXCEPT !.locked = TRUE, !.read = st] \in Memories
BY DEF Memories

LEMMA StoreTyped ==
    ASSUME NEW st \in Stores
    PROVE  st.form \in {"plain", "sealed", Torn} /\ st.key \in Keys \cup {Nothing} /\ st.peers \in Peers
BY DEF Stores

\* Typed results of loading, saving, ending and moving on.
LEMMA LoadedTyped ==
    ASSUME VaultType, NEW k \in Keys \cup {Nothing}
    PROVE  Loaded(k) \in Memories
<1>1. file.peers \in Peers
  BY StoreTyped DEF VaultType
<1> QED
  BY <1>1 DEF Loaded, Memories, VaultType

LEMMA BodyTyped ==
    ASSUME VaultType, NEW p \in Programs
    PROVE  Body(p) \in Stores
<1>1. mem[p].key \in Keys \cup {Nothing} /\ mem[p].peers \in Peers
  BY MemoryTyped DEF VaultType
<1> QED
  BY <1>1 DEF Body, Store, Stores

LEMMA OverTyped ==
    ASSUME VaultType, NEW p \in Programs, Over(p)
    PROVE  /\ pc' \in [Programs -> Points] /\ task' \in [Programs -> Tasks]
           /\ mem' \in [Programs -> Memories]
BY Dummies DEF VaultType, Over, Points

LEMMA GotoTyped ==
    ASSUME VaultType, NEW p \in Programs, NEW from, NEW to \in Points, Goto(p, from, to)
    PROVE  pc' \in [Programs -> Points]
BY DEF VaultType, Goto

LEMMA SetTyped ==
    ASSUME VaultType, NEW p \in Programs, NEW f, NEW v, Set(p, f, v),
           [mem[p] EXCEPT ![f] = v] \in Memories
    PROVE  mem' \in [Programs -> Memories]
BY DEF VaultType, Set

\* Every step keeps the types.
LEMMA TypeStep == ASSUME VaultType, TaskInv, Next, ~crossed' PROVE VaultType'
<1> USE Dummies
<1> "service" \in Programs /\ "cli" \in Programs
  BY DEF Programs
<1>1. CASE CommandVpn
  <2>1. PICK kind \in Kinds, n \in Names \cup {Nothing} : Command(kind, n, "key")
    BY <1>1 DEF CommandVpn, Kinds
  <2> QED
    BY <2>1, TaskTyped, GotoTyped DEF VaultType, Command, key, disk, history, Points
<1>2. CASE CommandKey
  <2>1. PICK kind \in Kinds, to \in {"key", "mark", "truncate"} : Command(kind, Nothing, to)
    BY <1>2 DEF CommandKey, Kinds
  <2> QED
    BY <2>1, TaskTyped, GotoTyped DEF VaultType, Command, key, disk, history, Points
<1>3. CASE Request
  <2>1. PICK kind \in Kinds, n \in Names : task' = [task EXCEPT !["service"] = [kind |-> kind, name |-> n]]
    BY <1>3 DEF Request, Kinds
  <2> QED
    BY <1>3, <2>1, TaskTyped, GotoTyped DEF VaultType, Request, key, disk, history, Points
<1>4. CASE ServiceStart
  BY <1>4, GotoTyped DEF VaultType, ServiceStart, key, disk, history, Points
<1>5. CASE Unlock
  BY <1>5, LoadedTyped DEF VaultType, Unlock, key, disk, history
<1>6. CASE ExportKey
  <2>1. bundle' \in Files
    BY <1>6, MemoryTyped DEF VaultType, ExportKey
  <2> QED
    BY <1>6, <2>1, OverTyped, GotoTyped DEF VaultType, ExportKey, key, disk, history, Points
<1>7. CASE Pair
  <2>1. keyfile' \in Files /\ marker' \in BOOLEAN
    BY <1>7 DEF VaultType, Pair
  <2> QED
    BY <1>7, <2>1, OverTyped, GotoTyped DEF VaultType, Pair, key, disk, history, Points
<1>8. CASE Unpair
  <2>1. keyfile' \in Files /\ marker' \in BOOLEAN
    BY <1>8 DEF VaultType, Unpair
  <2> QED
    BY <1>8, <2>1, OverTyped, GotoTyped DEF VaultType, Unpair, key, disk, history, Points
<1>9. ASSUME NEW p \in Programs, LocalKey(p) PROVE VaultType'
  <2>1. ASSUME NEW k \in Keys \cup {Nothing}, KeyRead(p, k)
        PROVE  /\ pc' \in [Programs -> Points] /\ task' \in [Programs -> Tasks]
               /\ mem' \in [Programs -> Memories]
    <3>1. [mem[p] EXCEPT !.key = k] \in Memories
      BY MemoryTyped DEF VaultType
    <3> QED
      BY <2>1, <3>1, OverTyped, GotoTyped, SetTyped DEF VaultType, KeyRead, Points
  <2>2. keyfile' \in Files
    BY <1>9 DEF VaultType, LocalKey
  <2>3. crossed' \in BOOLEAN
    BY <1>9 DEF VaultType, LocalKey
  <2>4. /\ pc' \in [Programs -> Points] /\ task' \in [Programs -> Tasks]
        /\ mem' \in [Programs -> Memories]
    BY <1>9, <2>1, GotoTyped DEF VaultType, LocalKey, Points
  <2> QED
    BY <1>9, <2>2, <2>3, <2>4 DEF VaultType, LocalKey, disk
<1>10. ASSUME NEW p \in Programs, Load(p) PROVE VaultType'
  <2>1. mem[p].key \in Keys \cup {Nothing} /\ [mem[p] EXCEPT !.locked = TRUE, !.read = file] \in Memories
    BY MemoryTyped DEF VaultType
  <2>2. mem' \in [Programs -> Memories]
    BY <1>10, <2>1, LoadedTyped DEF VaultType, Load
  <2>3. pc' \in [Programs -> Points]
    BY <1>10, GotoTyped, RestingAt DEF VaultType, Load, Points, Programs
  <2> QED
    BY <1>10, <2>2, <2>3 DEF VaultType, Load, key, disk, history
<1>11. ASSUME NEW p \in Programs, Change(p) PROVE VaultType'
  <2>1. CASE \E peers \in Peers :
             /\ Changed(p, peers) /\ Set(p, "peers", peers)
             /\ Goto(p, "change", "save")
             /\ promised' = promised \ Ended(p) /\ given' = given \cup Known(peers)
             /\ UNCHANGED task
    <3>1. PICK peers \in Peers : Set(p, "peers", peers) /\ given' = given \cup Known(peers)
      BY <2>1
    <3>2. [mem[p] EXCEPT !.peers = peers] \in Memories
      BY MemoryTyped DEF VaultType
    <3>3. mem' \in [Programs -> Memories]
      BY <3>1, <3>2, SetTyped
    <3> QED
      BY <1>11, <2>1, <3>1, <3>3, GotoTyped DEF VaultType, Change, key, disk, Points, Known
  <2> QED
    BY <1>11, <2>1, OverTyped DEF VaultType, Change, key, disk
<1>12. ASSUME NEW p \in Programs, SaveOpen(p) PROVE VaultType'
  <2>1. crossed' \in BOOLEAN
    BY <1>12 DEF VaultType, SaveOpen
  <2> QED
    BY <1>12, <2>1, OverTyped, GotoTyped DEF VaultType, SaveOpen, key, Points, Leads
<1>13. ASSUME NEW p \in Programs, SaveWrite(p) PROVE VaultType'
  BY <1>13, BodyTyped, GotoTyped DEF VaultType, SaveWrite, Overlay, key, history, Points, Leads
<1>14. ASSUME NEW p \in Programs, SaveReplace(p) PROVE VaultType'
  <2>1. [mem[p] EXCEPT !.read = Body(p)] \in Memories
    BY BodyTyped, MemoryTyped DEF VaultType
  <2>2. mem' \in [Programs -> Memories]
    BY <1>14, <2>1, SetTyped, OverTyped DEF SaveReplace
  <2>3. fd' \in [Programs -> Leads] /\ file' \in Stores /\ tmp' \in Stores \cup {Nothing}
    BY <1>14 DEF VaultType, SaveReplace, disk, Leads
  <2>4. promised' \subseteq Names
    <3>1. task[p].kind = "add" => task[p].name \in Names
      BY DEF TaskInv
    <3> QED
      BY <1>14, <3>1 DEF VaultType, SaveReplace
  <2> QED
    BY <1>14, <2>2, <2>3, <2>4, OverTyped, GotoTyped DEF VaultType, SaveReplace, key, Points
<1>15. ASSUME NEW p \in Programs, Apply(p) PROVE VaultType'
  <2>1. task[p].kind = "remove" => task[p].name \in Names
    BY DEF TaskInv
  <2>2. PICK reloaded \in BOOLEAN :
          /\ live' = IF reloaded THEN mem[p].peers ELSE live
          /\ revoked' = revoked \cup (IF reloaded /\ task[p].kind = "remove" THEN {task[p].name} ELSE {})
    BY <1>15 DEF Apply
  <2>3. live' \in Peers
    BY <2>2, MemoryTyped DEF VaultType
  <2>4. revoked' \subseteq Names
    BY <2>1, <2>2 DEF VaultType
  <2>5. crossed' \in BOOLEAN
    BY <1>15 DEF VaultType, Apply
  <2> QED
    BY <1>15, <2>3, <2>4, <2>5, OverTyped DEF VaultType, Apply, key, disk
<1>16. ASSUME NEW p \in Programs, Kill(p) PROVE VaultType'
  <2>1. Resting[p] \in Points
    BY RestingAt DEF Programs, Points
  <2> QED
    BY <1>16, <2>1 DEF VaultType, Kill, key, disk, history, Leads
<1> QED
  BY <1>1, <1>2, <1>3, <1>4, <1>5, <1>6, <1>7, <1>8, <1>9, <1>10, <1>11, <1>12, <1>13, <1>14, <1>15, <1>16
  DEF Next, Step

\* The effect of assigning one field of a program's PeerStore.
LEMMA SetKey ==
    ASSUME VaultType, NEW p \in Programs, NEW v, Set(p, "key", v)
    PROVE  /\ mem'[p].key = v /\ mem'[p].locked = mem[p].locked
           /\ mem'[p].peers = mem[p].peers /\ mem'[p].read = mem[p].read
           /\ \A q \in Programs \ {p} : mem'[q] = mem[q]
<1> DEFINE m == mem[p]
<1>1. m \in Memories
  BY DEF VaultType
<1>2. mem'[p] = [m EXCEPT !.key = v] /\ \A q \in Programs \ {p} : mem'[q] = mem[q]
  BY DEF Set, VaultType
<1> SUFFICES /\ mem'[p].key = v /\ mem'[p].locked = m.locked
             /\ mem'[p].peers = m.peers /\ mem'[p].read = m.read
  BY <1>2
<1> HIDE DEF m
<1>3. mem'[p].key = v
  BY <1>1, <1>2 DEF Memories
<1>4. mem'[p].locked = m.locked
  BY <1>1, <1>2 DEF Memories
<1>5. mem'[p].peers = m.peers /\ mem'[p].read = m.read
  BY <1>1, <1>2 DEF Memories
<1> QED
  BY <1>3, <1>4, <1>5

LEMMA SetPeers ==
    ASSUME VaultType, NEW p \in Programs, NEW v, Set(p, "peers", v)
    PROVE  /\ mem'[p].key = mem[p].key /\ mem'[p].locked = mem[p].locked
           /\ mem'[p].peers = v /\ mem'[p].read = mem[p].read
           /\ \A q \in Programs \ {p} : mem'[q] = mem[q]
<1> DEFINE m == mem[p]
<1>1. m \in Memories
  BY DEF VaultType
<1>2. mem'[p] = [m EXCEPT !.peers = v] /\ \A q \in Programs \ {p} : mem'[q] = mem[q]
  BY DEF Set, VaultType
<1> SUFFICES /\ mem'[p].key = m.key /\ mem'[p].locked = m.locked
             /\ mem'[p].peers = v /\ mem'[p].read = m.read
  BY <1>2
<1> HIDE DEF m
<1>3. mem'[p].key = m.key
  BY <1>1, <1>2 DEF Memories
<1>4. mem'[p].locked = m.locked
  BY <1>1, <1>2 DEF Memories
<1>5. mem'[p].peers = v /\ mem'[p].read = m.read
  BY <1>1, <1>2 DEF Memories
<1> QED
  BY <1>3, <1>4, <1>5

LEMMA SetRead ==
    ASSUME VaultType, NEW p \in Programs, NEW v, Set(p, "read", v)
    PROVE  /\ mem'[p].key = mem[p].key /\ mem'[p].locked = mem[p].locked
           /\ mem'[p].peers = mem[p].peers /\ mem'[p].read = v
           /\ \A q \in Programs \ {p} : mem'[q] = mem[q]
<1> DEFINE m == mem[p]
<1>1. m \in Memories
  BY DEF VaultType
<1>2. mem'[p] = [m EXCEPT !.read = v] /\ \A q \in Programs \ {p} : mem'[q] = mem[q]
  BY DEF Set, VaultType
<1> SUFFICES /\ mem'[p].key = m.key /\ mem'[p].locked = m.locked
             /\ mem'[p].peers = m.peers /\ mem'[p].read = v
  BY <1>2
<1> HIDE DEF m
<1>3. mem'[p].key = m.key
  BY <1>1, <1>2 DEF Memories
<1>4. mem'[p].locked = m.locked
  BY <1>1, <1>2 DEF Memories
<1>5. mem'[p].peers = m.peers /\ mem'[p].read = v
  BY <1>1, <1>2 DEF Memories
<1> QED
  BY <1>3, <1>4, <1>5

\* What loading leaves in memory.
LEMMA LoadedFields ==
    ASSUME NEW k
    PROVE  Loaded(k).key = k /\ ~Loaded(k).locked /\ Loaded(k).peers = file.peers /\ Loaded(k).read = file
BY DEF Loaded

\* A store that stays locked: the seal is known, the contents are not.
LEMMA LockedFields ==
    ASSUME VaultType, NEW p \in Programs, NEW v, 
           mem' = [mem EXCEPT ![p].locked = TRUE, ![p].read = v]
    PROVE  /\ mem'[p].key = mem[p].key /\ mem'[p].locked = TRUE
           /\ mem'[p].peers = mem[p].peers /\ mem'[p].read = v
           /\ \A q \in Programs \ {p} : mem'[q] = mem[q]
<1> DEFINE m == mem[p]
<1>1. m \in Memories
  BY DEF VaultType
<1>2. mem'[p] = [m EXCEPT !.locked = TRUE, !.read = v] /\ \A q \in Programs \ {p} : mem'[q] = mem[q]
  BY DEF Set, VaultType
<1> SUFFICES /\ mem'[p].key = m.key /\ mem'[p].locked = TRUE
             /\ mem'[p].peers = m.peers /\ mem'[p].read = v
  BY <1>2
<1> HIDE DEF m
<1>3. mem'[p].key = m.key
  BY <1>1, <1>2 DEF Memories
<1>4. mem'[p].locked = TRUE
  BY <1>1, <1>2 DEF Memories
<1>5. mem'[p].peers = m.peers /\ mem'[p].read = v
  BY <1>1, <1>2 DEF Memories
<1> QED
  BY <1>3, <1>4, <1>5

\* What save() writes.
LEMMA BodyFields ==
    ASSUME VaultType, NEW p \in Programs
    PROVE  /\ Body(p) # Nothing /\ Body(p).peers = mem[p].peers
           /\ mem[p].key = Nothing => Body(p).form = "plain"
           /\ mem[p].key # Nothing => Body(p).form = "sealed" /\ Body(p).key = mem[p].key
<1>1. Body(p) # Nothing
  BY BodyTyped, NothingAssumption
<1> QED
  BY <1>1 DEF Body, Store

\* LocalKey where nobody crosses anybody: the key that is made is the first.
LEMMA KeyCases ==
    ASSUME VaultType, TaskInv, NEW p \in Programs, LocalKey(p), ~crossed'
    PROVE  /\ \/ pc[p] = "key" /\ keyfile \in Keys /\ KeyRead(p, keyfile) /\ keyfile' = keyfile
              \/ /\ pc[p] = "key" /\ keyfile \notin Keys /\ (keyfile = Nothing => marker)
                 /\ KeyRead(p, Nothing) /\ keyfile' = keyfile
              \/ /\ pc[p] = "key" /\ keyfile = Nothing /\ ~marker /\ keyfile' = keyfile
                 /\ Goto(p, "key", "make") /\ UNCHANGED <<mem, task>>
              \/ /\ pc[p] = "make" /\ keyfile = Nothing /\ ~marker /\ keyfile' = Torn
                 /\ Goto(p, "make", "fill") /\ UNCHANGED <<mem, task>>
              \/ pc[p] = "make" /\ keyfile # Nothing /\ KeyRead(p, Nothing) /\ keyfile' = keyfile
              \/ pc[p] = "fill" /\ keyfile' = "key" /\ KeyRead(p, "key")
           /\ UNCHANGED <<marker, bundle, file, tmp, fd, live, given, promised, revoked>>
<1>1. pc[p] # "fill anew"
  BY DEF TaskInv, Programs, Early, Working, Late
<1>2. pc[p] = "make" /\ keyfile = Nothing /\ ~(keyfile # Nothing) /\ pc[p] \notin {"key", "fill"} => ~marker
  BY <1>1 DEF LocalKey, VaultType
<1>3. Torn \notin Keys /\ Nothing \notin Keys /\ Torn # Nothing
  BY NothingAssumption DEF Keys, Torn
<1> QED
  BY <1>1, <1>2, <1>3 DEF LocalKey, disk

\* Every step keeps TaskInv.
LEMMA TaskStep ==
    ASSUME VaultType, TaskInv, Next, ~crossed'
    PROVE  TaskInv'
<1> "service" \in Programs /\ "cli" \in Programs
  BY DEF Programs
<1>1. CASE CommandVpn
  BY <1>1 DEF CommandVpn, Command, Goto, VaultType, TaskInv, Programs, Early, Late, Working, Changes, Idle, key, disk, history
<1>2. CASE CommandKey
  BY <1>2 DEF CommandKey, Command, Goto, VaultType, TaskInv, Programs, Early, Late, Working, Changes, Idle, key, disk, history
<1>3. CASE Request
  BY <1>3 DEF Request, Goto, VaultType, TaskInv, Programs, Early, Late, Working, Changes, Idle, key, disk, history
<1>4. CASE ServiceStart
  BY <1>4 DEF ServiceStart, Goto, VaultType, TaskInv, Programs, Early, Late, Working, Changes, Idle, key, disk, history
<1>5. CASE Unlock
  BY <1>5 DEF Unlock, VaultType, TaskInv, Programs, Early, Late, Working, Changes, Idle, key, disk, history
<1>6. CASE ExportKey
  BY <1>6 DEF ExportKey, Goto, Over, VaultType, TaskInv, Programs, Early, Late, Working, Changes, Idle, key, disk, history
<1>7. CASE Pair
  BY <1>7 DEF Pair, Goto, Over, VaultType, TaskInv, Programs, Early, Late, Working, Changes, Idle, key, disk, history
<1>8. CASE Unpair
  BY <1>8 DEF Unpair, Goto, Over, VaultType, TaskInv, Programs, Early, Late, Working, Changes, Idle, key, disk, history
<1>9. ASSUME NEW p \in Programs, LocalKey(p) PROVE TaskInv'
  BY <1>9, KeyCases DEF KeyRead, Goto, Set, Over, VaultType, TaskInv, Programs, Early, Late, Working, Changes, Idle
<1>10. ASSUME NEW p \in Programs, Load(p) PROVE TaskInv'
  BY <1>10, RestingAt DEF Load, Loaded, Goto, VaultType, TaskInv, Programs, Early, Late, Working, Changes, Idle, key, disk, history
<1>11. ASSUME NEW p \in Programs, Change(p) PROVE TaskInv'
  BY <1>11, RestingAt DEF Change, Goto, Set, Over, VaultType, TaskInv, Programs, Early, Late, Working, Changes, Idle, key, disk, history
<1>12. ASSUME NEW p \in Programs, SaveOpen(p) PROVE TaskInv'
  BY <1>12, RestingAt DEF SaveOpen, Goto, Over, VaultType, TaskInv, Programs, Early, Late, Working, Changes, Idle, key, disk, history
<1>13. ASSUME NEW p \in Programs, SaveWrite(p) PROVE TaskInv'
  BY <1>13, RestingAt DEF SaveWrite, Goto, VaultType, TaskInv, Programs, Early, Late, Working, Changes, Idle, key, disk, history
<1>14. ASSUME NEW p \in Programs, SaveReplace(p) PROVE TaskInv'
  BY <1>14, RestingAt DEF SaveReplace, Goto, Set, Over, VaultType, TaskInv, Programs, Early, Late, Working, Changes, Idle, key, disk, history
<1>15. ASSUME NEW p \in Programs, Apply(p) PROVE TaskInv'
  BY <1>15, RestingAt DEF Apply, Over, VaultType, TaskInv, Programs, Early, Late, Working, Changes, Idle, key, disk, history
<1>16. ASSUME NEW p \in Programs, Kill(p) PROVE TaskInv'
  BY <1>16, RestingAt DEF Kill, VaultType, TaskInv, Programs, Early, Late, Working, Changes, Idle, key, disk, history
<1> QED
  BY <1>1, <1>2, <1>3, <1>4, <1>5, <1>6, <1>7, <1>8, <1>9, <1>10, <1>11, <1>12, <1>13, <1>14, <1>15, <1>16 DEF Next, Step

\* Every step keeps MemInv.
LEMMA MemStep ==
    ASSUME VaultType, TaskInv, MemInv, SavingInv, Next, ~crossed'
    PROVE  MemInv'
<1> "service" \in Programs /\ "cli" \in Programs
  BY DEF Programs
<1>1. CASE CommandVpn
  BY <1>1 DEF CommandVpn, Command, Goto, VaultType, TaskInv, MemInv, Programs, Early, Late, Working, Changes, Blank, key, disk, history
<1>2. CASE CommandKey
  BY <1>2 DEF CommandKey, Command, Goto, VaultType, TaskInv, MemInv, Programs, Early, Late, Working, Changes, Blank, key, disk, history
<1>3. CASE Request
  BY <1>3 DEF Request, Goto, VaultType, TaskInv, MemInv, Programs, Early, Late, Working, Changes, Blank, key, disk, history
<1>4. CASE ServiceStart
  BY <1>4 DEF ServiceStart, Goto, VaultType, TaskInv, MemInv, Programs, Early, Late, Working, Changes, Blank, key, disk, history
<1>5. CASE Unlock
  BY <1>5, LoadedFields DEF Unlock, VaultType, MemInv, Programs
<1>6. CASE ExportKey
  BY <1>6 DEF ExportKey, Goto, Over, VaultType, TaskInv, MemInv, Programs, Early, Late, Working, Changes, Blank, key, disk, history
<1>7. CASE Pair
  BY <1>7 DEF Pair, Goto, Over, VaultType, TaskInv, MemInv, Programs, Early, Late, Working, Changes, Blank, key, disk, history
<1>8. CASE Unpair
  BY <1>8 DEF Unpair, Goto, Over, VaultType, TaskInv, MemInv, Programs, Early, Late, Working, Changes, Blank, key, disk, history
<1>9. ASSUME NEW p \in Programs, LocalKey(p) PROVE MemInv'
  BY <1>9, KeyCases, SetKey DEF KeyRead, Goto, Over, VaultType, TaskInv, MemInv, Programs, Early, Late, Working, Changes, Blank
<1>10. ASSUME NEW p \in Programs, Load(p) PROVE MemInv'
  <2>1. \A q \in Programs \ {p} : mem'[q] = mem[q] /\ pc'[q] = pc[q] /\ task'[q] = task[q]
    BY <1>10 DEF Load, Goto, VaultType
  <2> SUFFICES (pc'[p] \in {"up", "change"} /\ (mem'[p].locked \/ mem'[p].peers = mem'[p].read.peers)
                /\ (mem'[p].locked => /\ mem'[p].key = Nothing /\ mem'[p].read.form = "sealed" /\ mem'[p].peers = Empty))
               \/ (pc'[p] \in {"down", "idle"} /\ mem'[p] = Blank)
    BY <2>1 DEF MemInv, Blank, Working, Late
  <2>2. ~mem[p].locked /\ mem[p].peers = Empty
    BY <1>10 DEF Load, MemInv, Working, Late
  <2>3. CASE mem' = [mem EXCEPT ![p] = Loaded(mem[p].key)] /\ Goto(p, "load", IF p = "cli" THEN "change" ELSE "up")
    BY <2>3, LoadedFields DEF Goto, VaultType
  <2>4. CASE /\ file.form = "sealed" /\ mem[p].key = Nothing
             /\ mem' = [mem EXCEPT ![p].locked = TRUE, ![p].read = file]
             /\ Goto(p, "load", IF p = "cli" THEN "change" ELSE "up")
    BY <2>2, <2>4, LockedFields DEF Goto, VaultType
  <2>5. CASE pc' = [pc EXCEPT ![p] = Resting[p]] /\ mem' = [mem EXCEPT ![p] = Blank]
    BY <2>5, RestingAt DEF VaultType, Programs
  <2> QED
    BY <1>10, <2>3, <2>4, <2>5 DEF Load
<1>11. ASSUME NEW p \in Programs, Change(p) PROVE MemInv'
  <2>1. CASE pc[p] = "change" /\ Over(p)
    BY <2>1 DEF Over, VaultType, MemInv, Programs, Late, Working, Blank
  <2>2. ASSUME NEW peers \in Peers, Changed(p, peers), Set(p, "peers", peers), Goto(p, "change", "save"), UNCHANGED task
        PROVE  MemInv'
    <3>1. mem[p].locked => peers = Empty /\ task[p].kind \in {"init", "force"}
      <4>1. mem[p].locked => mem[p].peers = Empty
        BY DEF MemInv
      <4>2. task[p].kind = "remove" /\ mem[p].locked => mem[p].peers[task[p].name] = 0
        BY <4>1 DEF TaskInv, Empty
      <4> QED
        BY <2>2, <4>1, <4>2 DEF Changed
    <3> QED
      BY <2>2, <3>1, SetPeers DEF Goto, VaultType, MemInv, Working, Late
  <2> QED
    BY <1>11, <2>1, <2>2 DEF Change
<1>12. ASSUME NEW p \in Programs, SaveOpen(p) PROVE MemInv'
  BY <1>12, RestingAt DEF SaveOpen, Goto, Over, VaultType, TaskInv, MemInv, Programs, Early, Late, Working, Changes, Blank, key, disk, history
<1>13. ASSUME NEW p \in Programs, SaveWrite(p) PROVE MemInv'
  BY <1>13, RestingAt DEF SaveWrite, Goto, VaultType, TaskInv, MemInv, Programs, Early, Late, Working, Changes, Blank, key, disk, history
<1>14. ASSUME NEW p \in Programs, SaveReplace(p) PROVE MemInv'
  <2>1. pc[p] = "replace" /\ tmp # Nothing
    BY <1>14, BodyFields DEF SaveReplace, SavingInv, Goto
  <2>2. ~mem[p].locked
    BY <2>1 DEF MemInv
  <2> QED
    BY <1>14, <2>1, <2>2, SetRead, BodyFields DEF SaveReplace, Goto, VaultType, MemInv, Working, Late
<1>15. ASSUME NEW p \in Programs, Apply(p) PROVE MemInv'
  BY <1>15, RestingAt DEF Apply, Over, VaultType, TaskInv, MemInv, Programs, Early, Late, Working, Changes, Blank, key, disk, history
<1>16. ASSUME NEW p \in Programs, Kill(p) PROVE MemInv'
  BY <1>16, RestingAt DEF Kill, VaultType, TaskInv, MemInv, Programs, Early, Late, Working, Changes, Blank, key, disk, history
<1> QED
  BY <1>1, <1>2, <1>3, <1>4, <1>5, <1>6, <1>7, <1>8, <1>9, <1>10, <1>11, <1>12, <1>13, <1>14, <1>15, <1>16 DEF Next, Step

\* Every step keeps SavingInv.
LEMMA SavingStep ==
    ASSUME VaultType, TaskInv, MemInv, SavingInv, Next, ~crossed'
    PROVE  SavingInv'
<1> "service" \in Programs /\ "cli" \in Programs
  BY DEF Programs
<1>1. CASE CommandVpn
  BY <1>1, Others DEF CommandVpn, Command, Goto, VaultType, SavingInv, Saving, Body, Store, NoStore, Programs, key, disk, history
<1>2. CASE CommandKey
  BY <1>2, Others DEF CommandKey, Command, Goto, VaultType, SavingInv, Saving, Body, Store, NoStore, Programs, key, disk, history
<1>3. CASE Request
  BY <1>3, Others DEF Request, Goto, VaultType, SavingInv, Saving, Body, Store, NoStore, Programs, key, disk, history
<1>4. CASE ServiceStart
  BY <1>4, Others DEF ServiceStart, Goto, VaultType, SavingInv, Saving, Body, Store, NoStore, Programs, key, disk, history
<1>5. CASE Unlock
  BY <1>5, Others DEF Unlock, VaultType, SavingInv, Saving, Body, Store, NoStore, Programs, key, disk, history
<1>6. CASE ExportKey
  BY <1>6, Others DEF ExportKey, Goto, Over, VaultType, SavingInv, Saving, Body, Store, NoStore, Programs, key, disk, history
<1>7. CASE Pair
  BY <1>7, Others DEF Pair, Goto, Over, VaultType, SavingInv, Saving, Body, Store, NoStore, Programs, key, disk, history
<1>8. CASE Unpair
  BY <1>8, Others DEF Unpair, Goto, Over, VaultType, SavingInv, Saving, Body, Store, NoStore, Programs, key, disk, history
<1>9. ASSUME NEW p \in Programs, LocalKey(p) PROVE SavingInv'
  BY <1>9, Others, KeyCases DEF KeyRead, Goto, Set, Over, VaultType, SavingInv, Saving, Body, Store, NoStore, Programs, key, disk, history
<1>10. ASSUME NEW p \in Programs, Load(p) PROVE SavingInv'
  BY <1>10, Others, RestingAt DEF Load, Loaded, Goto, VaultType, SavingInv, Saving, Body, Store, NoStore, Programs, key, disk, history
<1>11. ASSUME NEW p \in Programs, Change(p) PROVE SavingInv'
  BY <1>11, Others, RestingAt DEF Change, Goto, Set, Over, VaultType, SavingInv, Saving, Body, Store, NoStore, Programs, key, disk, history
<1>12. ASSUME NEW p \in Programs, SaveOpen(p) PROVE SavingInv'
  <2>1. CASE pc[p] = "save" /\ Over(p) /\ UNCHANGED <<file, tmp, fd>>
    BY <2>1, Others DEF Over, VaultType, SavingInv, Saving, Body, Programs
  <2>2. CASE /\ Goto(p, "save", "write") /\ tmp' = NoStore /\ fd' = [fd EXCEPT ![p] = "tmp"]
             /\ crossed' = (crossed \/ mem[p].read # file \/ Saving(Other(p)))
             /\ UNCHANGED <<file, mem>>
    <3>1. mem[p].read = file /\ ~Saving(Other(p))
      BY <2>2
    <3> QED
      BY <2>2, <3>1, Others DEF Goto, VaultType, SavingInv, Saving, Body, Programs
  <2> QED
    BY <1>12, <2>1, <2>2 DEF SaveOpen
<1>13. ASSUME NEW p \in Programs, SaveWrite(p) PROVE SavingInv'
  <2>1. /\ pc[p] = "write" /\ fd[p] = "tmp" /\ tmp = NoStore /\ ~Saving(Other(p))
        /\ \A q \in Programs : Body(q)' = Body(q)
    BY <1>13 DEF SaveWrite, Goto, SavingInv, Saving, Body
  <2>2. tmp' = Body(p) /\ UNCHANGED <<file, mem>>
    BY <1>13, <2>1 DEF SaveWrite, Overlay
  <2> HIDE DEF Body
  <2> QED
    BY <1>13, <2>1, <2>2, Others DEF SaveWrite, Goto, VaultType, SavingInv, Saving, Programs
<1>14. ASSUME NEW p \in Programs, SaveReplace(p) PROVE SavingInv'
  <2>1. pc[p] = "replace" /\ tmp # Nothing /\ ~Saving(Other(p))
    BY <1>14, BodyFields DEF SaveReplace, SavingInv, Goto, Saving
  <2>2. Goto(p, "replace", "apply")
    BY <1>14, <2>1 DEF SaveReplace
  <2>3. \A q \in Programs : fd[q] = Nothing
    BY <2>1, Others DEF SavingInv, Saving, Programs
  <2>4. Nothing \notin {"tmp", "file"}
    BY NothingAssumption
  <2>5. \A q \in Programs : fd'[q] = Nothing
    BY <1>14, <2>1, <2>3, <2>4 DEF SaveReplace
  <2> QED
    BY <2>1, <2>2, <2>5, Others DEF Goto, VaultType, SavingInv, Saving, Programs
<1>15. ASSUME NEW p \in Programs, Apply(p) PROVE SavingInv'
  BY <1>15, Others, RestingAt DEF Apply, Over, VaultType, SavingInv, Saving, Body, Store, NoStore, Programs, key, disk, history
<1>16. ASSUME NEW p \in Programs, Kill(p) PROVE SavingInv'
  BY <1>16, Others, RestingAt DEF Kill, VaultType, SavingInv, Saving, Body, Store, NoStore, Programs, key, disk, history
<1> QED
  BY <1>1, <1>2, <1>3, <1>4, <1>5, <1>6, <1>7, <1>8, <1>9, <1>10, <1>11, <1>12, <1>13, <1>14, <1>15, <1>16 DEF Next, Step

\* The program neither learns a key nor starts to handle one.
KeyQuiet(p) ==
    \/ pc'[p] = pc[p] /\ mem'[p].key = mem[p].key
    \/ /\ pc'[p] \notin Managing \cup {"fill"}
       /\ mem'[p].key \in {mem[p].key, Nothing} /\ (pc[p] = "load" => mem'[p].key # "junk")

\* Steps that leave the key alone keep KeyPhase.
LEMMA KeyQuietStep ==
    ASSUME KeyPhase, UNCHANGED <<keyfile, marker, bundle>>,
           file.form = "sealed" => file'.form = "sealed", NoKeyYet => file'.form = "plain",
           \A p \in Programs : KeyQuiet(p),
           task'["cli"].kind = "export" => ~marker
    PROVE  KeyPhase'
<1>0. "junk" # Nothing /\ "key" # Nothing
  BY NothingAssumption DEF Keys
<1>1. CASE NoKeyYet
  BY <1>0, <1>1, Others DEF KeyPhase, NoKeyYet, KeyQuiet, Programs
<1>2. CASE KeyMade
  <2>1. \A p \in Programs :
        /\ pc'[p] # "fill"
        /\ mem'[p].key \in {Nothing, "key", "junk"}
        /\ mem'[p].key = "junk" => pc'[p] = "load" /\ file'.form = "sealed"
    BY <1>0, <1>2 DEF KeyMade, KeyQuiet
  <2>2. pc'["cli"] \in Managing => pc'["cli"] = pc["cli"] /\ mem'["cli"].key = mem["cli"].key
    BY DEF KeyQuiet, Programs
  <2>3. KeyMade'
    BY <1>2, <2>1, <2>2 DEF KeyMade, Managing
  <2> QED
    BY <2>3 DEF KeyPhase
<1> QED
  BY <1>1, <1>2 DEF KeyPhase

\* The rename: it succeeds, the new store is whole, and a sealed one stays sealed.
LEMMA Replaced ==
    ASSUME VaultType, MemInv, SavingInv, FormInv, KeyPhase, NEW p \in Programs, SaveReplace(p)
    PROVE  /\ pc[p] = "replace" /\ ~Saving(Other(p)) /\ ~mem[p].locked /\ mem[p].read = file
           /\ file' = Body(p) /\ Set(p, "read", Body(p)) /\ Goto(p, "replace", "apply")
           /\ promised' = promised \cup IF task[p].kind = "add" THEN {task[p].name} ELSE {}
           /\ UNCHANGED <<key, task, live, given, revoked>>
           /\ file'.form # Torn /\ (NoKeyYet => file'.form = "plain")
           /\ file.form = "sealed" => file'.form = "sealed"
           /\ file'.form = "sealed" => mem[p].key = "key" /\ file'.key = "key"
<1>1. pc[p] = "replace" /\ tmp = Body(p) /\ tmp # Nothing /\ ~Saving(Other(p)) /\ mem[p].read = file
  BY BodyFields DEF SaveReplace, SavingInv, Goto, Saving
<1>2. ~mem[p].locked
  BY <1>1 DEF MemInv
<1>3. file' = Body(p) /\ Goto(p, "replace", "apply") /\ Set(p, "read", Body(p))
  BY <1>1 DEF SaveReplace
<1>4. mem[p].key \in {Nothing, "key"} /\ (NoKeyYet => mem[p].key = Nothing)
  BY <1>1 DEF KeyPhase, NoKeyYet, KeyMade
<1>5. file.form = "sealed" => mem[p].key = "key"
  BY <1>1, <1>2 DEF FormInv, Working, Late
<1>6. "key" # Nothing
  BY NothingAssumption DEF Keys
<1>7. /\ file'.form # Torn /\ (NoKeyYet => file'.form = "plain")
      /\ file.form = "sealed" => file'.form = "sealed"
      /\ file'.form = "sealed" => mem[p].key = "key" /\ file'.key = "key"
  BY <1>3, <1>4, <1>5, <1>6, BodyFields DEF Torn
<1> QED
  BY <1>1, <1>2, <1>3, <1>7 DEF SaveReplace

\* The effect of the end of a command or request.
LEMMA OverEffect ==
    ASSUME VaultType, NEW p \in Programs, Over(p)
    PROVE  /\ pc'[p] = IF p = "cli" THEN "idle" ELSE "up"
           /\ task'[p] = Idle /\ (mem'[p] = IF p = "cli" THEN Blank ELSE mem[p])
           /\ \A q \in Programs \ {p} : pc'[q] = pc[q] /\ task'[q] = task[q] /\ mem'[q] = mem[q]
BY DEF Over, VaultType

\* What a killed or finished program has: no key, nothing to export.
LEMMA NotKilled == Blank.key = Nothing /\ Idle.kind # "export"
BY DEF Blank, Idle

\* No key, no file and a torn file are different things.
LEMMA Distinct == Nothing \notin {"key", "second", "junk", Torn} /\ Torn \notin Keys
BY NothingAssumption DEF Keys, Torn

\* Every step keeps KeyPhase.
LEMMA PhaseStep ==
    ASSUME VaultType, TaskInv, MemInv, SavingInv, FormInv, KeyPhase, Next, ~crossed'
    PROVE  KeyPhase'
<1> "service" \in Programs /\ "cli" \in Programs
  BY DEF Programs
<1>1. CASE CommandVpn
  <2>1. \A q \in Programs : KeyQuiet(q)
    BY <1>1 DEF CommandVpn, Command, Goto, VaultType, KeyQuiet, Managing
  <2>2. task'["cli"].kind # "export" /\ UNCHANGED <<keyfile, marker, bundle, file>>
    BY <1>1 DEF CommandVpn, Command, VaultType, key, disk
  <2> QED
    BY <2>1, <2>2, KeyQuietStep DEF NoKeyYet
<1>2. CASE CommandKey
  <2>1. \A q \in Programs : mem'[q] = mem[q] /\ (pc'[q] = pc[q] \/ q = "cli")
    BY <1>2 DEF CommandKey, Command, Goto, VaultType
  <2>2. UNCHANGED <<keyfile, marker, bundle, file>>
    BY <1>2 DEF CommandKey, Command, key, disk
  <2>3. CASE ~marker /\ Command("export", Nothing, "key")
    <3>1. pc'["cli"] = "key" /\ pc["cli"] = "idle"
      BY <2>3 DEF Command, Goto, VaultType
    <3>2. \A q \in Programs : KeyQuiet(q)
      BY <2>1, <3>1 DEF KeyQuiet, Managing
    <3> QED
      BY <2>2, <2>3, <3>2, KeyQuietStep DEF NoKeyYet
  <2>4. CASE bundle \in Keys /\ file.form = "sealed" /\ Command("pair", Nothing, "mark")
    <3>1. KeyMade /\ bundle = "key"
      BY <2>4, Distinct DEF KeyPhase, NoKeyYet, KeyMade, Keys
    <3>2. pc'["cli"] = "mark" /\ task'["cli"].kind = "pair" /\ pc["cli"] = "idle"
      BY <2>4 DEF Command, Goto, VaultType
    <3> QED
      BY <2>1, <2>2, <2>4, <3>1, <3>2 DEF KeyMade, KeyPhase, Programs
  <2>5. CASE bundle \in Keys /\ Command("restore", Nothing, "truncate")
    <3>1. KeyMade /\ bundle = "key"
      BY <2>5, Distinct DEF KeyPhase, NoKeyYet, KeyMade, Keys
    <3>2. pc'["cli"] = "truncate" /\ task'["cli"].kind = "restore" /\ pc["cli"] = "idle"
      BY <2>5 DEF Command, Goto, VaultType
    <3> QED
      BY <2>1, <2>2, <2>5, <3>1, <3>2 DEF KeyMade, KeyPhase, Programs
  <2> QED
    BY <1>2, <2>3, <2>4, <2>5 DEF CommandKey
<1>3. CASE Request
  <2>1. \A q \in Programs : KeyQuiet(q)
    BY <1>3 DEF Request, Goto, VaultType, KeyQuiet, Managing
  <2>2. task'["cli"] = task["cli"] /\ UNCHANGED <<keyfile, marker, bundle, file>>
    BY <1>3 DEF Request, VaultType, key, disk
  <2> QED
    BY <2>1, <2>2, KeyQuietStep DEF NoKeyYet, KeyPhase, KeyMade
<1>4. CASE ServiceStart
  <2>1. \A q \in Programs : KeyQuiet(q)
    BY <1>4 DEF ServiceStart, Goto, VaultType, KeyQuiet, Managing
  <2>2. UNCHANGED <<keyfile, marker, bundle, file, task>>
    BY <1>4 DEF ServiceStart, key, disk
  <2> QED
    BY <2>1, <2>2, KeyQuietStep DEF NoKeyYet, KeyPhase, KeyMade
<1>5. CASE Unlock
  <2>1. file.form = "sealed" /\ file.key = "key"
    BY <1>5 DEF Unlock, MemInv, FormInv
  <2>2. KeyMade
    BY <2>1 DEF KeyPhase, NoKeyYet
  <2>3. \A k : Opens(k) => k = "key"
    BY <2>1 DEF Opens
  <2>4. mem'["cli"] = mem["cli"] /\ mem'["service"].key \in {mem["service"].key, "key"}
    BY <1>5, <2>3, LoadedFields DEF Unlock, VaultType
  <2>5. mem["service"].key # "junk" \/ mem'["service"].key = "key"
    BY <1>5, <2>2 DEF Unlock, KeyMade
  <2> QED
    BY <1>5, <2>1, <2>2, <2>4, <2>5 DEF Unlock, KeyMade, KeyPhase, key, disk, Programs
<1>6. CASE ExportKey
  <2>1. /\ KeyMade /\ keyfile = "key" /\ ~marker /\ mem["cli"].key = "key"
        /\ pc["cli"] \in {"export", "exported"}
    <3>1. pc["cli"] \in {"export", "exported"}
      BY <1>6 DEF ExportKey, Goto
    <3>2. task["cli"].kind = "export"
      BY <3>1 DEF TaskInv, Working, Late
    <3> QED
      BY <3>1, <3>2 DEF KeyPhase, NoKeyYet, KeyMade, Managing
  <2>2. /\ UNCHANGED <<keyfile, marker, file>> /\ pc'["cli"] \in {"exported", "idle"}
        /\ bundle' = Torn \/ bundle' = "key"
        /\ pc'["service"] = pc["service"] /\ mem'["service"] = mem["service"]
        /\ pc'["cli"] = "exported" => mem'["cli"].key = "key"
        /\ mem'["cli"].key \in {"key", Nothing}
    BY <1>6, <2>1, OverEffect, NotKilled DEF ExportKey, Goto, VaultType, disk
  <2> QED
    BY <2>1, <2>2, Distinct DEF KeyMade, KeyPhase, Programs, Managing
<1>7. CASE Pair
  <2>1. KeyMade /\ bundle = "key" /\ file.form = "sealed" /\ pc["cli"] \in {"mark", "shred", "unlink"}
    BY <1>7 DEF Pair, Goto, KeyPhase, NoKeyYet, KeyMade, Managing
  <2>2. task["cli"].kind = "pair"
    BY <2>1 DEF TaskInv, Working, Late
  <2>3. /\ UNCHANGED <<bundle, file>> /\ pc'["cli"] \in {"shred", "unlink", "idle"}
        /\ pc'["service"] = pc["service"] /\ mem'["service"] = mem["service"]
        /\ mem'["cli"].key \in {mem["cli"].key, Nothing} /\ task'["cli"].kind # "export"
        /\ keyfile' \in {keyfile, "junk", Nothing}
    BY <1>7, <2>2, OverEffect, NotKilled DEF Pair, Goto, VaultType, disk
  <2>4. marker'
    BY <1>7, <2>1 DEF Pair, Goto, KeyMade
  <2> QED
    BY <2>1, <2>3, <2>4, Distinct DEF KeyMade, KeyPhase, Programs, Managing
<1>8. CASE Unpair
  <2>1. KeyMade /\ bundle = "key" /\ pc["cli"] \in {"truncate", "refill", "unmark"}
    BY <1>8 DEF Unpair, Goto, KeyPhase, NoKeyYet, KeyMade, Managing
  <2>2. task["cli"].kind = "restore"
    BY <2>1 DEF TaskInv, Working, Late
  <2>3. /\ UNCHANGED <<bundle, file>> /\ pc'["cli"] \in {"refill", "unmark", "idle"}
        /\ pc'["service"] = pc["service"] /\ mem'["service"] = mem["service"]
        /\ mem'["cli"].key \in {mem["cli"].key, Nothing} /\ task'["cli"].kind # "export"
        /\ keyfile' \in {Torn, "key"} /\ (pc'["cli"] = "unmark" => keyfile' = "key")
    BY <1>8, <2>1, <2>2, OverEffect, NotKilled DEF Unpair, Goto, VaultType, disk, KeyMade
  <2>4. marker' => marker
    BY <1>8 DEF Unpair
  <2> QED
    BY <2>1, <2>3, <2>4, Distinct DEF KeyMade, KeyPhase, Programs, Managing, Torn
<1>9. ASSUME NEW p \in Programs, LocalKey(p) PROVE KeyPhase'
  <2>1. UNCHANGED <<marker, bundle, file>>
    BY <1>9, KeyCases
  <2>2. ASSUME NEW k, KeyRead(p, k)
        PROVE  /\ \A q \in Programs \ {p} : mem'[q] = mem[q] /\ pc'[q] = pc[q] /\ task'[q] = task[q]
               /\ \/ task[p].kind # "export" /\ pc'[p] = "load" /\ mem'[p].key = k /\ task'[p] = task[p]
                  \/ /\ p = "cli" /\ pc'[p] = "idle" /\ mem'[p].key = Nothing /\ task'[p].kind # "export"
                  \/ /\ p = "cli" /\ task[p].kind = "export" /\ k # Nothing
                     /\ pc'[p] = "export" /\ mem'[p].key = k /\ task'[p] = task[p]
    <3>1. task[p].kind = "export" => p = "cli"
      BY DEF TaskInv, Programs
    <3> QED
      BY <2>2, <3>1, OverEffect, NotKilled, SetKey DEF KeyRead, Goto, VaultType
  <2>3. pc[p] \in {"key", "make", "fill"} /\ ~mem[p].locked
    BY <1>9, KeyCases DEF MemInv, Working, Late
  <2>4. task["cli"].kind = "export" => ~marker
    BY DEF KeyPhase, NoKeyYet, KeyMade
  <2>5. ASSUME KeyRead(p, Nothing), keyfile' = keyfile PROVE KeyPhase'
    <3>1. \A q \in Programs : KeyQuiet(q)
      BY <2>2, <2>3, <2>5, Distinct DEF KeyQuiet, Managing
    <3>2. task'["cli"].kind = "export" => task["cli"].kind = "export"
      BY <2>2, <2>5
    <3> QED
      BY <2>1, <2>4, <2>5, <3>1, <3>2, KeyQuietStep DEF NoKeyYet
  <2>6. CASE pc[p] = "key" /\ keyfile \in Keys /\ KeyRead(p, keyfile) /\ keyfile' = keyfile
    <3>1. KeyMade
      BY <2>6, Distinct DEF KeyPhase, NoKeyYet, Keys
    <3>2. keyfile \in {"key", "junk"} /\ (keyfile = "junk" => marker /\ file.form = "sealed")
      BY <2>6, <3>1 DEF KeyMade, Keys
    <3>3. task[p].kind = "export" /\ p = "cli" => keyfile = "key"
      BY <2>4, <3>2
    <3> QED
      BY <2>1, <2>2, <2>6, <3>1, <3>2, <3>3, Distinct DEF KeyMade, KeyPhase, Programs, Managing
  <2>7. CASE Goto(p, "key", "make") /\ UNCHANGED <<mem, task, keyfile>>
    <3>1. \A q \in Programs : KeyQuiet(q)
      BY <2>7 DEF KeyQuiet, Managing, Goto, VaultType
    <3> QED
      BY <2>1, <2>4, <2>7, <3>1, KeyQuietStep DEF NoKeyYet
  <2>8. CASE pc[p] = "make" /\ keyfile = Nothing /\ ~marker /\ keyfile' = Torn /\ Goto(p, "make", "fill") /\ UNCHANGED <<mem, task>>
    <3>1. NoKeyYet
      BY <2>8 DEF KeyPhase, KeyMade
    <3>2. \A q \in Programs : pc[q] # "fill"
      BY <2>8, <3>1, Distinct DEF NoKeyYet
    <3> QED
      BY <2>1, <2>8, <3>1, <3>2, Others DEF NoKeyYet, KeyPhase, Goto, VaultType, Programs, Managing
  <2>9. CASE pc[p] = "fill" /\ keyfile' = "key" /\ KeyRead(p, "key")
    <3>1. NoKeyYet
      BY <2>9 DEF KeyPhase, KeyMade
    <3>2. pc[Other(p)] # "fill"
      BY <2>9, <3>1 DEF NoKeyYet
    <3> QED
      BY <2>1, <2>2, <2>4, <2>9, <3>1, <3>2, Others, Distinct DEF NoKeyYet, KeyMade, KeyPhase, Programs, Managing
  <2> QED
    BY <1>9, <2>5, <2>6, <2>7, <2>8, <2>9, KeyCases
<1>10. ASSUME NEW p \in Programs, Load(p) PROVE KeyPhase'
  <2>1. pc[p] = "load" /\ (mem'[p].key = mem[p].key \/ mem'[p].key = Nothing)
    BY <1>10, LoadedFields, LockedFields, NotKilled DEF Load, VaultType
  <2>2. mem'[p].key # "junk"
    <3>1. mem[p].key = "junk" => ~Opens(mem[p].key) /\ mem[p].key # Nothing
      <4>1. mem[p].key = "junk" => mem[p].key # Nothing
        BY NothingAssumption DEF Keys
      <4> QED
        BY <4>1 DEF KeyPhase, NoKeyYet, KeyMade, FormInv, Opens
    <3>2. mem[p].key = "junk" => mem'[p] = Blank
      BY <1>10, <3>1 DEF Load, VaultType
    <3>3. "junk" # Nothing
      BY NothingAssumption DEF Keys
    <3> QED
      BY <2>1, <3>2, <3>3, NotKilled
  <2>3. \A q \in Programs \ {p} : mem'[q] = mem[q] /\ pc'[q] = pc[q]
    BY <1>10 DEF Load, Goto, VaultType
  <2>4. pc'[p] \notin Managing \cup {"fill"}
    BY <1>10, RestingAt DEF Load, Goto, VaultType, Managing, Programs
  <2>5. \A q \in Programs : KeyQuiet(q)
    BY <2>1, <2>2, <2>3, <2>4 DEF KeyQuiet
  <2>6. task'["cli"].kind = "export" => task["cli"].kind = "export"
    BY <1>10, NotKilled DEF Load, VaultType
  <2> QED
    BY <1>10, <2>5, <2>6, KeyQuietStep DEF Load, key, disk, NoKeyYet, KeyPhase, KeyMade
<1>11. ASSUME NEW p \in Programs, Change(p) PROVE KeyPhase'
  <2>1. CASE pc[p] = "change" /\ Over(p)
    <3>1. \A q \in Programs : KeyQuiet(q)
      BY <2>1, OverEffect, NotKilled DEF KeyQuiet, Managing
    <3>2. task'["cli"].kind = "export" => task["cli"].kind = "export"
      BY <2>1, OverEffect, NotKilled
    <3> QED
      BY <1>11, <3>1, <3>2, KeyQuietStep DEF Change, key, disk, NoKeyYet, KeyPhase, KeyMade
  <2>2. ASSUME NEW peers \in Peers, Set(p, "peers", peers), Goto(p, "change", "save"), UNCHANGED task
        PROVE  KeyPhase'
    <3>1. \A q \in Programs : KeyQuiet(q)
      BY <2>2, SetPeers DEF Goto, VaultType, KeyQuiet, Managing
    <3> QED
      BY <1>11, <2>2, <3>1, KeyQuietStep DEF Change, key, disk, NoKeyYet, KeyPhase, KeyMade
  <2> QED
    BY <1>11, <2>1, <2>2 DEF Change
<1>12. ASSUME NEW p \in Programs, SaveOpen(p) PROVE KeyPhase'
  <2>1. \A q \in Programs : KeyQuiet(q)
    <3>1. CASE Over(p)
      BY <1>12, <3>1, OverEffect, NotKilled DEF SaveOpen, Goto, KeyQuiet, Managing
    <3>2. CASE Goto(p, "save", "write") /\ UNCHANGED mem
      BY <3>2 DEF Goto, VaultType, KeyQuiet, Managing
    <3> QED
      BY <1>12, <3>1, <3>2 DEF SaveOpen
  <2>2. task'["cli"].kind = "export" => task["cli"].kind = "export"
    BY <1>12, OverEffect, NotKilled DEF SaveOpen
  <2> QED
    BY <1>12, <2>1, <2>2, KeyQuietStep DEF SaveOpen, key, NoKeyYet, KeyPhase, KeyMade
<1>13. ASSUME NEW p \in Programs, SaveWrite(p) PROVE KeyPhase'
  <2>1. \A q \in Programs : KeyQuiet(q)
    BY <1>13 DEF SaveWrite, Goto, VaultType, KeyQuiet, Managing
  <2>2. UNCHANGED <<file, keyfile, marker, bundle, task>>
    BY <1>13 DEF SaveWrite, SavingInv, Goto, key
  <2> QED
    BY <2>1, <2>2, KeyQuietStep DEF NoKeyYet, KeyPhase, KeyMade
<1>14. ASSUME NEW p \in Programs, SaveReplace(p) PROVE KeyPhase'
  <2>1. \A q \in Programs : KeyQuiet(q)
    BY <1>14, Replaced, SetRead DEF Goto, VaultType, KeyQuiet, Managing
  <2>2. UNCHANGED <<keyfile, marker, bundle, task>>
    BY <1>14, Replaced DEF key
  <2>3. (file.form = "sealed" => file'.form = "sealed") /\ (NoKeyYet => file'.form = "plain")
    BY <1>14, Replaced
  <2>4. task["cli"].kind = "export" => ~marker
    BY DEF KeyPhase, NoKeyYet, KeyMade
  <2> QED
    BY <2>1, <2>2, <2>3, <2>4, KeyQuietStep
<1>15. ASSUME NEW p \in Programs, Apply(p) PROVE KeyPhase'
  <2>1. \A q \in Programs : KeyQuiet(q)
    BY <1>15, OverEffect, NotKilled DEF Apply, KeyQuiet, Managing
  <2>2. task'["cli"].kind = "export" => task["cli"].kind = "export"
    BY <1>15, OverEffect, NotKilled DEF Apply
  <2> QED
    BY <1>15, <2>1, <2>2, KeyQuietStep DEF Apply, key, disk, NoKeyYet, KeyPhase, KeyMade
<1>16. ASSUME NEW p \in Programs, Kill(p) PROVE KeyPhase'
  <2>1. \A q \in Programs : KeyQuiet(q)
    BY <1>16, RestingAt, NotKilled, Distinct DEF Kill, VaultType, KeyQuiet, Managing, Programs
  <2>2. task'["cli"].kind = "export" => task["cli"].kind = "export"
    BY <1>16, NotKilled DEF Kill, VaultType
  <2> QED
    BY <1>16, <2>1, <2>2, KeyQuietStep DEF Kill, key, NoKeyYet, KeyPhase, KeyMade
<1> QED
  BY <1>1, <1>2, <1>3, <1>4, <1>5, <1>6, <1>7, <1>8, <1>9, <1>10, <1>11, <1>12, <1>13, <1>14, <1>15, <1>16 DEF Next, Step

\* Every step keeps FormInv.
LEMMA FormStep ==
    ASSUME VaultType, TaskInv, MemInv, SavingInv, FormInv, KeyPhase, Next, ~crossed'
    PROVE  FormInv'
<1> "service" \in Programs /\ "cli" \in Programs
  BY DEF Programs
<1>1. CASE CommandVpn
  BY <1>1 DEF CommandVpn, Command, Goto, VaultType, FormInv, Working, Late, Programs, key, disk, history
<1>2. CASE CommandKey
  BY <1>2 DEF CommandKey, Command, Goto, VaultType, FormInv, Working, Late, Programs, key, disk, history
<1>3. CASE Request
  BY <1>3 DEF Request, Goto, VaultType, FormInv, Working, Late, Programs, key, disk, history
<1>4. CASE ServiceStart
  BY <1>4 DEF ServiceStart, Goto, VaultType, FormInv, Working, Late, Programs, key, disk, history
<1>5. CASE Unlock
  <2>1. UNCHANGED <<file, pc>>
    BY <1>5 DEF Unlock, disk
  <2>2. file.form = "sealed" /\ file.key = "key"
    BY <1>5 DEF Unlock, MemInv, FormInv
  <2>3. \A k : Opens(k) => k = "key"
    BY <2>2 DEF Opens
  <2>4. \A q \in Programs : mem'[q] = mem[q] \/ (mem'[q].key = "key" /\ mem'[q].read = file)
    BY <1>5, <2>3, LoadedFields DEF Unlock, VaultType
  <2> QED
    BY <2>1, <2>2, <2>4 DEF FormInv
<1>6. CASE ExportKey
  BY <1>6 DEF ExportKey, Goto, Over, VaultType, FormInv, Working, Late, Programs, key, disk, history
<1>7. CASE Pair
  BY <1>7 DEF Pair, Goto, Over, VaultType, FormInv, Working, Late, Programs, key, disk, history
<1>8. CASE Unpair
  BY <1>8 DEF Unpair, Goto, Over, VaultType, FormInv, Working, Late, Programs, key, disk, history
<1>9. ASSUME NEW p \in Programs, LocalKey(p) PROVE FormInv'
  <2>1. UNCHANGED file /\ pc'[p] \notin Working \cup {"up"} /\ \A q \in Programs \ {p} : mem'[q] = mem[q] /\ pc'[q] = pc[q]
    <3>1. task[p].kind = "export" => p = "cli"
      BY DEF TaskInv, Programs
    <3> QED
      BY <1>9, <3>1, KeyCases, OverEffect, SetKey DEF KeyRead, Goto, VaultType, Working, Late
  <2> QED
    BY <2>1 DEF FormInv
<1>10. ASSUME NEW p \in Programs, Load(p) PROVE FormInv'
  <2>1. UNCHANGED file /\ \A q \in Programs \ {p} : mem'[q] = mem[q] /\ pc'[q] = pc[q]
    BY <1>10 DEF Load, Goto, VaultType, disk
  <2>2. CASE Opens(mem[p].key) /\ mem' = [mem EXCEPT ![p] = Loaded(mem[p].key)]
    <3>1. mem'[p].key = mem[p].key /\ mem'[p].read = file
      BY <2>2, LoadedFields DEF VaultType
    <3>2. file.form = "sealed" => mem[p].key = "key"
      BY <2>2 DEF FormInv, Opens
    <3> QED
      BY <2>1, <3>1, <3>2 DEF FormInv
  <2>3. CASE mem' = [mem EXCEPT ![p].locked = TRUE, ![p].read = file]
    <3>1. mem'[p].locked /\ mem'[p].read = file
      BY <2>3, LockedFields
    <3> QED
      BY <2>1, <3>1 DEF FormInv
  <2>4. CASE pc' = [pc EXCEPT ![p] = Resting[p]]
    <3>1. pc'[p] \notin Working \cup {"up"}
      BY <2>4, RestingAt DEF VaultType, Programs, Working, Late
    <3> QED
      BY <2>1, <3>1 DEF FormInv
  <2> QED
    BY <1>10, <2>2, <2>3, <2>4 DEF Load
<1>11. ASSUME NEW p \in Programs, Change(p) PROVE FormInv'
  <2>1. UNCHANGED file
    BY <1>11 DEF Change, disk
  <2>2. CASE pc[p] = "change" /\ Over(p)
    BY <2>1, <2>2, OverEffect DEF FormInv, Working, Late
  <2>3. ASSUME NEW peers, Set(p, "peers", peers), Goto(p, "change", "save") PROVE FormInv'
    BY <2>1, <2>3, SetPeers DEF Goto, VaultType, FormInv, Working, Late
  <2> QED
    BY <1>11, <2>2, <2>3 DEF Change
<1>12. ASSUME NEW p \in Programs, SaveOpen(p) PROVE FormInv'
  <2>1. UNCHANGED file
    BY <1>12 DEF SaveOpen
  <2>2. CASE pc[p] = "save" /\ Over(p)
    BY <2>1, <2>2, OverEffect DEF FormInv, Working, Late
  <2>3. CASE Goto(p, "save", "write") /\ UNCHANGED mem
    BY <2>1, <2>3 DEF Goto, VaultType, FormInv, Working, Late
  <2> QED
    BY <1>12, <2>2, <2>3 DEF SaveOpen
<1>13. ASSUME NEW p \in Programs, SaveWrite(p) PROVE FormInv'
  <2>1. UNCHANGED <<file, mem>> /\ Goto(p, "write", "replace")
    BY <1>13 DEF SaveWrite, SavingInv, Goto
  <2> QED
    BY <2>1 DEF Goto, VaultType, FormInv, Working, Late
<1>14. ASSUME NEW p \in Programs, SaveReplace(p) PROVE FormInv'
  <2>1. /\ mem'[p].read = file' /\ mem'[p].key = mem[p].key /\ \A q \in Programs \ {p} : mem'[q] = mem[q]
        /\ Goto(p, "replace", "apply")
    BY <1>14, Replaced, SetRead
  <2>2. \A q \in Programs \ {p} : pc'[q] = pc[q]
    BY <2>1 DEF Goto, VaultType
  <2>3. /\ file'.form # Torn /\ (file.form = "sealed" => file'.form = "sealed")
        /\ file'.form = "sealed" => mem[p].key = "key" /\ file'.key = "key"
    BY <1>14, Replaced
  <2> QED
    BY <2>1, <2>2, <2>3 DEF FormInv
<1>15. ASSUME NEW p \in Programs, Apply(p) PROVE FormInv'
  <2>1. UNCHANGED file /\ pc[p] = "apply" /\ Over(p)
    BY <1>15 DEF Apply, disk
  <2> QED
    BY <2>1, OverEffect DEF FormInv, Working, Late
<1>16. ASSUME NEW p \in Programs, Kill(p) PROVE FormInv'
  BY <1>16, OverEffect, RestingAt DEF Kill, VaultType, FormInv, Working, Late, Programs, key, disk, history
<1> QED
  BY <1>1, <1>2, <1>3, <1>4, <1>5, <1>6, <1>7, <1>8, <1>9, <1>10, <1>11, <1>12, <1>13, <1>14, <1>15, <1>16 DEF Next, Step

\* A set of natural numbers has a least element.
LEMMA LeastElement ==
    ASSUME NEW T \in SUBSET Nat, T # {}
    PROVE  \E x \in T : \A y \in T : x <= y
<1>1. \E x \in T : \A y \in T : ~(<<y, x>> \in OpToRel(<, Nat))
  BY WFMin, NatLessThanWellFounded
<1>2. \A x, y \in Nat : <<y, x>> \in OpToRel(<, Nat) <=> y < x
  BY DEF OpToRel
<1>3. \E x \in T : \A y \in T : ~(y < x)
  BY <1>1, <1>2, Zenon
<1>. QED
  BY <1>3

\* _next_address() gives a host that means a peer.
LEMMA AddedHost ==
    ASSUME NEW peers, Free(peers) # {}
    PROVE  Min(Free(peers)) # 0
<1>1. Free(peers) \in SUBSET Nat /\ 0 \notin Free(peers)
  BY HostsAssumption DEF Free
<1>2. \E x \in Free(peers) : \A y \in Free(peers) : x <= y
  BY <1>1, LeastElement
<1>3. Min(Free(peers)) \in Free(peers)
  BY <1>2 DEF Min
<1> QED
  BY <1>1, <1>3

\* Known() of the empty store, without a peer, and with one more.
LEMMA KnownEmpty == Known(Empty) = {}
BY DEF Known, Empty

LEMMA KnownRemoved ==
    ASSUME NEW peers \in Peers, NEW n \in Names
    PROVE  Known([peers EXCEPT ![n] = 0]) = Known(peers) \ {n}
BY DEF Known, Peers

LEMMA KnownAdded ==
    ASSUME NEW peers \in Peers, NEW n \in Names, NEW h, h # 0
    PROVE  Known([peers EXCEPT ![n] = h]) = Known(peers) \cup {n}
BY DEF Known, Peers

\* The program does not start to save, and knows no name it could not have known.
Calm(p) ==
    \/ /\ mem'[p].peers = mem[p].peers /\ mem'[p].read = mem[p].read /\ mem'[p].locked = mem[p].locked
       /\ Fresh(p)' = Fresh(p) /\ Removing(p)' = Removing(p) /\ (pc'[p] \in Late => pc[p] \in Late)
    \/ /\ pc'[p] \notin Late
       /\ Removing(p)' \subseteq Removing(p) /\ Removing(p)' \cap Known(mem'[p].peers) = {}
       /\ HeldNames(p)' \subseteq HeldNames(p) \cup Known(file.peers)

\* Steps that add the names E to those seen, none of them fresh, keep NamesInv.
LEMMA CalmStep ==
    ASSUME NamesInv, UNCHANGED given, NEW E \in SUBSET given, Seen' \subseteq Seen \cup E,
           \A p \in Programs : Calm(p),
           \A p \in Programs : E \cap Fresh(p)' = {},
           \A p \in Programs : pc'[p] \in Late => promised' \cap Known(mem[p].read.peers) \subseteq promised
    PROVE  NamesInv'
<1> USE DEF Programs
<1>0. Known(file.peers) \subseteq Seen /\ Seen' \subseteq given
  BY DEF Seen, NamesInv
<1>1. ASSUME NEW p \in Programs
      PROVE  /\ (HeldNames(p) \cup Removing(p))' \subseteq given
             /\ (Removing(p) \cap Known(mem[p].peers))' = {}
             /\ Fresh(p)' \subseteq Fresh(p)
             /\ HeldNames(p)' \subseteq HeldNames(p) \cup Seen /\ Removing(p)' \subseteq Removing(p)
  <2>1. pc'[p] \notin Late => Fresh(p)' = {}
    BY DEF Fresh
  <2>2. mem'[p].peers = mem[p].peers /\ mem'[p].read = mem[p].read => HeldNames(p)' = HeldNames(p)
    BY DEF HeldNames
  <2> QED
    BY <1>0, <2>1, <2>2 DEF Calm, NamesInv
<1>2. ASSUME NEW p \in Programs, pc'[p] \in Late, ~mem'[p].locked
      PROVE  /\ Known(mem'[p].peers) \subseteq Known(mem'[p].read.peers) \cup Fresh(p)'
             /\ Fresh(p)' \subseteq Known(mem'[p].peers)
             /\ promised' \cap Known(mem'[p].read.peers) \subseteq Known(mem'[p].peers)
  BY <1>2 DEF Calm, NamesInv
<1>3. ASSUME NEW p \in Programs, NEW n \in Fresh(p)'
      PROVE  n \notin Seen' \cup Known(mem'[p].read.peers) \cup HeldNames(Other(p))' \cup Removing(Other(p))'
  <2>1. n \in Fresh(p) /\ pc'[p] \in Late /\ n \notin E
    BY <1>1, <1>3 DEF Fresh
  <2>2. n \notin Seen \cup Known(mem[p].read.peers) \cup HeldNames(Other(p)) \cup Removing(Other(p))
    BY <2>1 DEF NamesInv
  <2>3. Other(p) \in Programs
    BY Others
  <2>4. n \notin HeldNames(Other(p))' \cup Removing(Other(p))'
    BY <1>1, <2>2, <2>3, Others
  <2>5. mem'[p].read = mem[p].read
    BY <2>1 DEF Calm
  <2> QED
    BY <2>1, <2>2, <2>4, <2>5
<1> QED
  BY <1>0, <1>1, <1>2, <1>3 DEF NamesInv

\* When a program is calm: it does nothing, it is not saving, it starts anew, it
\* ends.
LEMMA CalmSame ==
    ASSUME NEW p, mem'[p] = mem[p], task'[p] = task[p], pc'[p] = pc[p]
    PROVE  Calm(p)
BY DEF Calm, Fresh, Removing

LEMMA CalmOut ==
    ASSUME NEW p, pc'[p] \notin Late \cup {"apply"},
           Known(mem'[p].peers) \subseteq HeldNames(p) \cup Known(file.peers),
           Known(mem'[p].read.peers) \subseteq HeldNames(p) \cup Known(file.peers)
    PROVE  Calm(p)
BY DEF Calm, Removing, HeldNames

LEMMA CalmBlank ==
    ASSUME NEW p, pc'[p] \notin Late \cup {"apply"}, mem'[p] = Blank \/ mem'[p] = mem[p]
    PROVE  Calm(p)
<1>1. Known(Blank.peers) = {} /\ Known(Blank.read.peers) = {}
  BY KnownEmpty DEF Blank, NoStore, Store
<1> QED
  BY <1>1, CalmOut DEF HeldNames

LEMMA CalmOver ==
    ASSUME VaultType, NEW p \in Programs, Over(p)
    PROVE  \A q \in Programs : Calm(q)
<1>1. Calm(p)
  <2>1. pc'[p] \notin Late \cup {"apply"} /\ (mem'[p] = Blank \/ mem'[p] = mem[p])
    BY OverEffect DEF Late
  <2> QED
    BY <2>1, CalmBlank
<1> QED
  BY <1>1, OverEffect, CalmSame

\* Steps that see no new name keep NamesInv.
LEMMA StillStep ==
    ASSUME NamesInv, UNCHANGED <<file, live, given, promised, revoked>>, \A p \in Programs : Calm(p)
    PROVE  NamesInv'
<1>1. Seen' \subseteq Seen \cup {}
  BY DEF Seen
<1> QED
  BY <1>1, CalmStep, {} \in SUBSET given

\* The rename: promised peers stay in the store, revoked ones stay out.
LEMMA ReplaceNames ==
    ASSUME Sound, NEW p \in Programs, SaveReplace(p)
    PROVE  NamesInv' /\ PeersInv'
<1> VaultType /\ TaskInv /\ MemInv /\ SavingInv /\ FormInv /\ KeyPhase /\ NamesInv /\ PeersInv
  BY DEF Sound
<1>1. /\ pc[p] = "replace" /\ ~mem[p].locked /\ mem[p].read = file /\ file' = Body(p)
      /\ Set(p, "read", Body(p)) /\ Goto(p, "replace", "apply")
      /\ promised' = promised \cup IF task[p].kind = "add" THEN {task[p].name} ELSE {}
      /\ UNCHANGED <<task, live, given, revoked>>
  BY Replaced
<1>2. promised' = promised \cup Fresh(p)
  BY <1>1 DEF Fresh, Late
<1>3. file'.peers = mem[p].peers /\ mem'[p].peers = mem[p].peers /\ mem'[p].read = file'
      /\ \A q \in Programs \ {p} : mem'[q] = mem[q] /\ pc'[q] = pc[q]
  BY <1>1, BodyFields, SetRead DEF Goto, VaultType
<1>4. pc'[p] = "apply"
  BY <1>1 DEF Goto, VaultType
<1>5. /\ Known(file'.peers) \subseteq Known(file.peers) \cup Fresh(p)
      /\ Fresh(p) \subseteq Known(file'.peers) /\ promised \subseteq Known(file'.peers)
  BY <1>1, <1>3 DEF NamesInv, PeersInv, Late
<1>6. Fresh(p) \subseteq given /\ Fresh(p) \cap Seen = {}
  BY <1>1, <1>5, <1>3 DEF NamesInv, HeldNames
<1>7. PeersInv'
  BY <1>1, <1>2, <1>5, <1>6 DEF PeersInv, Seen
<1>8. Calm(p)
  <2>1. Removing(p)' = Removing(p)
    BY <1>1, <1>4 DEF Removing, Late
  <2>2. HeldNames(p)' \subseteq HeldNames(p)
    BY <1>3 DEF HeldNames
  <2> QED
    BY <1>3, <1>4, <2>1, <2>2 DEF Calm, Late, NamesInv
<1>9. \A q \in Programs : Calm(q)
  BY <1>1, <1>3, <1>8, CalmSame
<1>10. Seen' \subseteq Seen \cup Fresh(p)
  BY <1>1, <1>2, <1>5 DEF Seen
<1>11. \A q \in Programs : Fresh(p) \cap Fresh(q)' = {}
  <2>1. Fresh(p)' = {}
    BY <1>4 DEF Fresh, Late
  <2>2. \A q \in Programs \ {p} : Fresh(q)' = Fresh(q) /\ Fresh(q) \cap Fresh(p) = {}
    <3>1. ASSUME NEW q \in Programs \ {p} PROVE Fresh(q)' = Fresh(q) /\ Fresh(q) \cap Fresh(p) = {}
      <4>1. Other(q) = p
        BY Others DEF Programs
      <4>2. Fresh(q) \cap HeldNames(p) = {}
        BY <4>1 DEF NamesInv
      <4> QED
        BY <1>1, <1>3, <1>5, <4>2 DEF Fresh, HeldNames
    <3> QED
      BY <3>1
  <2> QED
    BY <2>1, <2>2
<1>12. \A q \in Programs : pc'[q] \in Late => promised' \cap Known(mem[q].read.peers) \subseteq promised
  <2>1. ASSUME NEW q \in Programs \ {p} PROVE Fresh(p) \cap Known(mem[q].read.peers) = {}
    <3>1. Other(p) = q
      BY Others DEF Programs
    <3> QED
      BY <3>1 DEF NamesInv, HeldNames
  <2> QED
    BY <1>2, <1>4, <2>1 DEF Late
<1>13. NamesInv'
  BY <1>1, <1>6, <1>9, <1>10, <1>11, <1>12, CalmStep
<1> QED
  BY <1>7, <1>13

\* The reload, of the store there is: the removed peer is gone from both.
LEMMA ApplyNames ==
    ASSUME Sound, NEW p \in Programs, Apply(p), ~crossed'
    PROVE  NamesInv' /\ PeersInv'
<1> VaultType /\ TaskInv /\ MemInv /\ SavingInv /\ FormInv /\ KeyPhase /\ NamesInv /\ PeersInv
  BY DEF Sound
<1>1. pc[p] = "apply" /\ Over(p) /\ UNCHANGED <<file, given, promised>>
  BY DEF Apply, disk
<1>2. \/ UNCHANGED <<live, revoked>>
      \/ live' = mem[p].peers /\ mem[p].read = file /\ revoked' = revoked \cup Removing(p)
  <2>1. PICK reloaded \in BOOLEAN :
          /\ live' = IF reloaded THEN mem[p].peers ELSE live
          /\ revoked' = revoked \cup (IF reloaded /\ task[p].kind = "remove" THEN {task[p].name} ELSE {})
          /\ crossed' = (crossed \/ (reloaded /\ mem[p].read # file))
    BY DEF Apply
  <2>2. CASE reloaded
    BY <1>1, <2>1, <2>2 DEF Removing
  <2>3. CASE ~reloaded
    BY <2>1, <2>3
  <2> QED
    BY <2>2, <2>3
<1>3. mem[p].peers = mem[p].read.peers
  BY <1>1 DEF MemInv
<1>4. Removing(p) \cap Known(mem[p].peers) = {} /\ Removing(p) \cup Known(mem[p].peers) \subseteq given
  BY DEF NamesInv, HeldNames
<1>5. PeersInv'
  BY <1>1, <1>2, <1>3, <1>4 DEF PeersInv
<1>6. Seen' \subseteq Seen \cup (Removing(p) \cup Known(mem[p].peers))
  BY <1>1, <1>2 DEF Seen
<1>7. \A q \in Programs : (Removing(p) \cup Known(mem[p].peers)) \cap Fresh(q)' = {}
  <2>1. Fresh(p)' = {}
    BY <1>1, OverEffect DEF Fresh, Late
  <2>2. ASSUME NEW q \in Programs \ {p}
        PROVE  (Removing(p) \cup Known(mem[p].peers)) \cap Fresh(q)' = {}
    <3>1. Other(q) = p
      BY Others DEF Programs
    <3>2. Fresh(q)' = Fresh(q)
      BY <1>1, OverEffect DEF Fresh
    <3> QED
      BY <3>1, <3>2 DEF NamesInv, HeldNames
  <2> QED
    BY <2>1, <2>2
<1>8. NamesInv'
  <2>1. \A q \in Programs : Calm(q)
    BY <1>1, CalmOver
  <2> QED
    BY <1>1, <1>4, <1>6, <1>7, <2>1, CalmStep
<1> QED
  BY <1>5, <1>8

\* The name a change adds, and the one it removes.
Added(p) == IF task[p].kind = "add" THEN {task[p].name} ELSE {}
Removed(p) == IF task[p].kind = "remove" THEN {task[p].name} ELSE {}

\* What add_peer(), remove_peer() and initialise_server() do to the names.
LEMMA ChangedNames ==
    ASSUME VaultType, TaskInv, MemInv, NEW p \in Programs, pc[p] = "change",
           NEW peers \in Peers, Changed(p, peers), NamesInv
    PROVE  /\ Known(peers) \subseteq Known(mem[p].peers) \cup Added(p)
           /\ Added(p) \subseteq Known(peers) /\ Added(p) \cap given = {}
           /\ Removed(p) \subseteq Known(mem[p].peers) /\ Removed(p) \cap Known(peers) = {}
           /\ ~mem[p].locked => (promised \ Ended(p)) \cap Known(mem[p].peers) \subseteq Known(peers)
<1>1. task[p].kind \in {"add", "remove"} => task[p].name \in Names
  BY DEF TaskInv
<1>2. mem[p].peers \in Peers
  BY MemoryTyped DEF VaultType
<1>3. CASE task[p].kind = "add"
  <2>1. /\ task[p].name \notin given /\ Free(mem[p].peers) # {}
        /\ peers = [mem[p].peers EXCEPT ![task[p].name] = Min(Free(mem[p].peers))]
    BY <1>3 DEF Changed
  <2>2. Known(peers) = Known(mem[p].peers) \cup {task[p].name}
    <3>1. Min(Free(mem[p].peers)) # 0
      BY <2>1, AddedHost
    <3>2. Known([mem[p].peers EXCEPT ![task[p].name] = Min(Free(mem[p].peers))])
            = Known(mem[p].peers) \cup {task[p].name}
      BY <1>1, <1>2, <1>3, <3>1, KnownAdded
    <3> QED
      BY <2>1, <3>2
  <2> QED
    BY <1>3, <2>1, <2>2 DEF Added, Removed
<1>4. CASE task[p].kind = "remove"
  <2>1. /\ mem[p].peers[task[p].name] # 0
        /\ peers = [mem[p].peers EXCEPT ![task[p].name] = 0]
    BY <1>4 DEF Changed
  <2>2. Known(peers) = Known(mem[p].peers) \ {task[p].name} /\ task[p].name \in Known(mem[p].peers)
    <3>1. Known([mem[p].peers EXCEPT ![task[p].name] = 0]) = Known(mem[p].peers) \ {task[p].name}
      BY <1>1, <1>2, <1>4, KnownRemoved
    <3> QED
      BY <1>1, <1>4, <2>1, <3>1 DEF Known
  <2>3. Ended(p) = {task[p].name}
    BY <1>4 DEF Ended
  <2> QED
    BY <1>4, <2>2, <2>3 DEF Added, Removed
<1>5. CASE task[p].kind = "init"
  <2>1. peers = mem[p].peers
    BY <1>5 DEF Changed
  <2> QED
    BY <1>5, <2>1 DEF Added, Removed
<1>6. CASE task[p].kind = "force"
  <2>1. peers = Empty
    BY <1>6 DEF Changed
  <2>2. ~mem[p].locked => Ended(p) = Names
    BY <1>6 DEF Ended
  <2>3. promised \subseteq Names
    BY DEF VaultType
  <2> QED
    BY <1>6, <2>1, <2>2, <2>3, KnownEmpty DEF Added, Removed
<1> QED
  BY <1>3, <1>4, <1>5, <1>6 DEF Changed

\* A fresh name is given from the change on.
LEMMA FreshGiven ==
    ASSUME MemInv, NamesInv, NEW p \in Programs
    PROVE  Fresh(p) \subseteq given
<1>1. CASE pc[p] \in Late /\ task[p].kind = "add"
  <2>1. ~mem[p].locked
    BY <1>1 DEF MemInv, Late
  <2> QED
    BY <1>1, <2>1 DEF NamesInv, HeldNames
<1> QED
  BY <1>1 DEF Fresh

\* The change in memory.
LEMMA ChangeNames ==
    ASSUME Sound, NEW p \in Programs, Change(p)
    PROVE  NamesInv' /\ PeersInv'
<1> VaultType /\ TaskInv /\ MemInv /\ SavingInv /\ FormInv /\ KeyPhase /\ NamesInv /\ PeersInv
  BY DEF Sound
<1>1. UNCHANGED <<file, live, revoked>>
  BY DEF Change, disk
<1>2. CASE Over(p) /\ UNCHANGED <<given, promised>>
  BY <1>1, <1>2, CalmOver, StillStep DEF PeersInv
<1>3. ASSUME NEW peers \in Peers, Changed(p, peers), Set(p, "peers", peers), Goto(p, "change", "save"),
             promised' = promised \ Ended(p), given' = given \cup Known(peers), UNCHANGED task
      PROVE  NamesInv' /\ PeersInv'
  <2>1. pc[p] = "change" /\ pc'[p] = "save" /\ \A q \in Programs \ {p} : pc'[q] = pc[q]
    BY <1>3 DEF Goto, VaultType
  <2>2. /\ mem'[p].peers = peers /\ mem'[p].read = mem[p].read /\ mem'[p].locked = mem[p].locked
        /\ \A q \in Programs \ {p} : mem'[q] = mem[q]
    BY <1>3, SetPeers
  <2>3. /\ Known(peers) \subseteq Known(mem[p].peers) \cup Added(p)
        /\ Added(p) \subseteq Known(peers) /\ Added(p) \cap given = {}
        /\ Removed(p) \subseteq Known(mem[p].peers) /\ Removed(p) \cap Known(peers) = {}
        /\ ~mem[p].locked => promised' \cap Known(mem[p].peers) \subseteq Known(peers)
    BY <1>3, <2>1, ChangedNames
  <2>4. Fresh(p)' = Added(p) /\ Removing(p)' = Removed(p)
    BY <1>3, <2>1 DEF Fresh, Removing, Added, Removed, Late
  <2>5. HeldNames(p)' \subseteq HeldNames(p) \cup Added(p) /\ Known(peers) \subseteq given' /\ given \subseteq given'
    BY <1>3, <2>2, <2>3 DEF HeldNames
  <2>6. HeldNames(p) \subseteq given /\ Known(mem[p].peers) \subseteq HeldNames(p)
    BY DEF NamesInv, HeldNames
  <2>7. Seen' \subseteq Seen /\ Seen \subseteq given
    BY <1>1, <1>3 DEF Seen, NamesInv
  <2>8. ASSUME NEW q \in Programs \ {p}
        PROVE  HeldNames(q)' = HeldNames(q) /\ Fresh(q)' = Fresh(q) /\ Removing(q)' = Removing(q) /\ Other(q) = p /\ Other(p) = q
    BY <1>3, <2>1, <2>2, Others DEF HeldNames, Fresh, Removing, Programs
  <2>9. ~mem[p].locked => Known(mem[p].peers) = Known(mem[p].read.peers)
    BY <2>1 DEF MemInv
  <2>10. /\ (HeldNames(p) \cup Removing(p))' \subseteq given'
         /\ (Removing(p) \cap Known(mem[p].peers))' = {}
         /\ ~mem'[p].locked =>
             /\ Known(mem'[p].peers) \subseteq Known(mem'[p].read.peers) \cup Fresh(p)'
             /\ Fresh(p)' \subseteq Known(mem'[p].peers)
             /\ promised' \cap Known(mem'[p].read.peers) \subseteq Known(mem'[p].peers)
         /\ Fresh(p)' \cap (Seen' \cup Known(mem'[p].read.peers)) = {}
    <3>1. (HeldNames(p) \cup Removing(p))' \subseteq given'
      BY <2>3, <2>4, <2>5, <2>6
    <3>2. Known(mem[p].read.peers) \subseteq given
      BY <2>6 DEF HeldNames
    <3> QED
      BY <2>2, <2>3, <2>4, <2>7, <2>9, <3>1, <3>2
  <2>11. ASSUME NEW q \in Programs \ {p}
         PROVE  /\ (HeldNames(q) \cup Removing(q))' \subseteq given'
                /\ (Removing(q) \cap Known(mem[q].peers))' = {}
                /\ pc'[q] \in Late /\ ~mem'[q].locked =>
                    /\ Known(mem'[q].peers) \subseteq Known(mem'[q].read.peers) \cup Fresh(q)'
                    /\ Fresh(q)' \subseteq Known(mem'[q].peers)
                    /\ promised' \cap Known(mem'[q].read.peers) \subseteq Known(mem'[q].peers)
                /\ Fresh(q)' \cap (Seen' \cup Known(mem'[q].read.peers) \cup HeldNames(p)' \cup Removing(p)') = {}
                /\ Fresh(p)' \cap (HeldNames(q)' \cup Removing(q)') = {}
    <3>1. Fresh(q) \subseteq given /\ HeldNames(q) \cup Removing(q) \subseteq given
      BY FreshGiven DEF NamesInv
    <3>2. Fresh(q) \cap (Seen \cup Known(mem[q].read.peers) \cup HeldNames(p)) = {}
      BY <2>8 DEF NamesInv
    <3>3. Fresh(q)' \cap (Seen' \cup Known(mem'[q].read.peers) \cup HeldNames(p)' \cup Removing(p)') = {}
      BY <2>2, <2>3, <2>4, <2>5, <2>6, <2>7, <2>8, <3>1, <3>2
    <3>4. promised' \subseteq promised
      BY <1>3
    <3>5. (Removing(q) \cap Known(mem[q].peers))' = {} /\ (HeldNames(q) \cup Removing(q))' \subseteq given'
      BY <2>2, <2>5, <2>8, <3>1 DEF NamesInv
    <3>6. Fresh(p)' \cap (HeldNames(q)' \cup Removing(q)') = {}
      BY <2>3, <2>4, <2>8, <3>1
    <3> QED
      BY <2>1, <2>2, <2>8, <3>3, <3>4, <3>5, <3>6 DEF NamesInv
  <2>12. NamesInv'
    <3>1. Seen' \subseteq given'
      BY <2>5, <2>7
    <3>2. Programs = {p, Other(p)} /\ Other(p) \in Programs \ {p} /\ Other(Other(p)) = p
      BY Others DEF Programs
    <3> QED
      BY <2>1, <2>10, <2>11, <3>1, <3>2 DEF NamesInv
  <2> QED
    BY <1>1, <1>3, <2>12 DEF PeersInv
<1> QED
  BY <1>2, <1>3 DEF Change

\* Every step keeps NamesInv.
LEMMA NamesStep ==
    ASSUME Sound, Next, ~crossed'
    PROVE  NamesInv'
<1> "service" \in Programs /\ "cli" \in Programs
  BY DEF Programs
<1> VaultType /\ TaskInv /\ MemInv /\ SavingInv /\ FormInv /\ KeyPhase /\ NamesInv /\ PeersInv
  BY DEF Sound
<1>1. ASSUME NEW kind, NEW n, NEW to, Command(kind, n, to), to \notin Late \cup {"apply"} PROVE NamesInv'
  <2>1. pc'["cli"] = to /\ mem' = mem /\ \A q \in Programs \ {"cli"} : pc'[q] = pc[q] /\ task'[q] = task[q]
    BY <1>1 DEF Command, Goto, VaultType
  <2>2. \A q \in Programs : Calm(q)
    BY <1>1, <2>1, CalmSame, CalmBlank
  <2> QED
    BY <1>1, <2>2, StillStep DEF Command, disk, history
<1>2. CASE CommandVpn \/ CommandKey
  <2>1. \E kind, n, to : Command(kind, n, to) /\ to \notin Late \cup {"apply"}
    BY <1>2 DEF CommandVpn, CommandKey, Late
  <2> QED
    BY <1>1, <2>1
<1>3. CASE Request
  <2>1. pc'["service"] = "change" /\ mem' = mem /\ \A q \in Programs \ {"service"} : pc'[q] = pc[q] /\ task'[q] = task[q]
    BY <1>3 DEF Request, Goto, VaultType
  <2>2. \A q \in Programs : Calm(q)
    BY <2>1, CalmSame, CalmBlank DEF Late
  <2> QED
    BY <1>3, <2>2, StillStep DEF Request, disk, history
<1>4. CASE ServiceStart
  <2>1. pc'["service"] = "key" /\ mem' = mem /\ task' = task /\ \A q \in Programs \ {"service"} : pc'[q] = pc[q]
    BY <1>4 DEF ServiceStart, Goto, VaultType
  <2>2. \A q \in Programs : Calm(q)
    BY <2>1, CalmSame, CalmBlank DEF Late
  <2> QED
    BY <1>4, <2>2, StillStep DEF ServiceStart, disk, history
<1>5. CASE Unlock
  <2>1. /\ pc' = pc /\ task' = task /\ mem'["cli"] = mem["cli"] /\ pc["service"] = "up"
        /\ mem'["service"] = mem["service"] \/ (mem'["service"].peers = file.peers /\ mem'["service"].read = file)
    BY <1>5, LoadedFields DEF Unlock, VaultType
  <2>2. Calm("cli")
    BY <2>1, CalmSame
  <2>3. Calm("service")
    BY <2>1, CalmSame, CalmOut DEF Late
  <2> QED
    BY <1>5, <2>2, <2>3, StillStep DEF Unlock, disk, history, Programs
<1>6. CASE ExportKey \/ Pair \/ Unpair
  <2>1. UNCHANGED <<file, live, given, promised, revoked>>
    BY <1>6 DEF ExportKey, Pair, Unpair, disk, history
  <2>2. CASE Over("cli")
    BY <2>1, <2>2, CalmOver, StillStep
  <2>3. CASE ~Over("cli")
    <3>1. /\ UNCHANGED <<mem, task>> /\ pc'["service"] = pc["service"]
          /\ pc'["cli"] \notin Late \cup {"apply"}
      BY <1>6, <2>3 DEF ExportKey, Pair, Unpair, Goto, VaultType, Late
    <3>2. \A q \in Programs : Calm(q)
      BY <3>1, CalmSame, CalmBlank DEF Programs
    <3> QED
      BY <2>1, <3>2, StillStep
  <2> QED
    BY <2>2, <2>3
<1>7. ASSUME NEW p \in Programs, LocalKey(p) PROVE NamesInv'
  <2>1. UNCHANGED <<file, live, given, promised, revoked>>
    BY <1>7, KeyCases
  <2>2. CASE Over(p)
    BY <2>1, <2>2, CalmOver, StillStep
  <2>3. CASE ~Over(p)
    <3>1. /\ mem'[p].peers = mem[p].peers /\ mem'[p].read = mem[p].read
          /\ \A q \in Programs \ {p} : mem'[q] = mem[q]
      BY <1>7, <2>3, KeyCases, SetKey DEF KeyRead
    <3>2. /\ UNCHANGED task /\ pc'[p] \notin Late \cup {"apply"}
          /\ \A q \in Programs \ {p} : pc'[q] = pc[q]
      BY <1>7, <2>3, KeyCases DEF KeyRead, Goto, VaultType, Late
    <3>3. Calm(p)
      BY <3>1, <3>2, CalmOut DEF HeldNames
    <3>4. \A q \in Programs : Calm(q)
      BY <3>1, <3>2, <3>3, CalmSame
    <3> QED
      BY <2>1, <3>4, StillStep
  <2> QED
    BY <2>2, <2>3
<1>8. ASSUME NEW p \in Programs, Load(p) PROVE NamesInv'
  <2>1. UNCHANGED <<file, live, given, promised, revoked>>
    BY <1>8 DEF Load, disk, history
  <2>2. \A q \in Programs \ {p} : mem'[q] = mem[q] /\ pc'[q] = pc[q] /\ task'[q] = task[q]
    BY <1>8 DEF Load, Goto, VaultType
  <2>3. pc'[p] \notin Late \cup {"apply"}
    BY <1>8, RestingAt DEF Load, Goto, VaultType, Programs, Late
  <2>4. \/ mem'[p] = Blank
        \/ mem'[p].peers = file.peers /\ mem'[p].read = file
        \/ mem'[p].peers = mem[p].peers /\ mem'[p].read = file
    <3>1. CASE mem' = [mem EXCEPT ![p] = Loaded(mem[p].key)]
      BY <3>1, LoadedFields DEF VaultType
    <3>2. CASE mem' = [mem EXCEPT ![p].locked = TRUE, ![p].read = file]
      BY <3>2, LockedFields
    <3>3. CASE mem' = [mem EXCEPT ![p] = Blank]
      BY <3>3 DEF VaultType
    <3> QED
      BY <1>8, <3>1, <3>2, <3>3 DEF Load
  <2>5. Calm(p)
    BY <2>3, <2>4, CalmBlank, CalmOut DEF HeldNames
  <2>6. \A q \in Programs : Calm(q)
    BY <2>2, <2>5, CalmSame
  <2> QED
    BY <2>1, <2>6, StillStep
<1>9. ASSUME NEW p \in Programs, SaveOpen(p) PROVE NamesInv'
  <2>1. UNCHANGED <<file, live, given, promised, revoked>>
    BY <1>9 DEF SaveOpen
  <2>2. CASE Over(p)
    BY <2>1, <2>2, CalmOver, StillStep
  <2>3. CASE Goto(p, "save", "write") /\ UNCHANGED <<mem, task>>
    <3>1. pc[p] = "save" /\ pc'[p] = "write" /\ \A q \in Programs \ {p} : pc'[q] = pc[q]
      BY <2>3 DEF Goto, VaultType
    <3>2. Calm(p)
      BY <2>3, <3>1 DEF Calm, Fresh, Removing, Late
    <3>3. \A q \in Programs : Calm(q)
      BY <2>3, <3>1, <3>2, CalmSame
    <3> QED
      BY <2>1, <3>3, StillStep
  <2> QED
    BY <1>9, <2>2, <2>3 DEF SaveOpen
<1>10. ASSUME NEW p \in Programs, SaveWrite(p) PROVE NamesInv'
  <2>1. UNCHANGED <<file, live, given, promised, revoked, mem, task>> /\ Goto(p, "write", "replace")
    BY <1>10 DEF SaveWrite, SavingInv, Goto, history
  <2>2. pc[p] = "write" /\ pc'[p] = "replace" /\ \A q \in Programs \ {p} : pc'[q] = pc[q]
    BY <2>1 DEF Goto, VaultType
  <2>3. Calm(p)
    BY <2>1, <2>2 DEF Calm, Fresh, Removing, Late
  <2>4. \A q \in Programs : Calm(q)
    BY <2>1, <2>2, <2>3, CalmSame
  <2> QED
    BY <2>1, <2>4, StillStep
<1>11. ASSUME NEW p \in Programs, Kill(p) PROVE NamesInv'
  <2>1. UNCHANGED <<file, live, given, promised, revoked>>
    BY <1>11 DEF Kill, history
  <2>2. \A q \in Programs \ {p} : mem'[q] = mem[q] /\ pc'[q] = pc[q] /\ task'[q] = task[q]
    BY <1>11 DEF Kill, VaultType
  <2>3. pc'[p] \notin Late \cup {"apply"} /\ mem'[p] = Blank
    BY <1>11, RestingAt DEF Kill, VaultType, Programs, Late
  <2>4. \A q \in Programs : Calm(q)
    BY <2>2, <2>3, CalmSame, CalmBlank
  <2> QED
    BY <2>1, <2>4, StillStep
<1> QED
  BY <1>2, <1>3, <1>4, <1>5, <1>6, <1>7, <1>8, <1>9, <1>10, <1>11, ReplaceNames, ApplyNames, ChangeNames
  DEF Next, Step

\* Every step keeps PeersInv.
LEMMA PeersStep ==
    ASSUME Sound, Next, ~crossed'
    PROVE  PeersInv'
<1> VaultType /\ TaskInv /\ SavingInv /\ PeersInv
  BY DEF Sound
<1>1. CASE UNCHANGED <<file, live, promised, revoked>>
  BY <1>1 DEF PeersInv
<1>2. ASSUME NEW p \in Programs, LocalKey(p) PROVE UNCHANGED <<file, live, promised, revoked>>
  BY <1>2, KeyCases
<1>3. ASSUME NEW p \in Programs, SaveWrite(p) PROVE UNCHANGED <<file, live, promised, revoked>>
  BY <1>3 DEF SaveWrite, SavingInv, Goto, history
<1>4. ASSUME NEW p \in Programs, Load(p) \/ SaveOpen(p) \/ Kill(p) PROVE UNCHANGED <<file, live, promised, revoked>>
  BY <1>4 DEF Load, SaveOpen, Kill, disk, history
<1>5. CASE CommandVpn \/ CommandKey \/ Request \/ ServiceStart \/ Unlock \/ ExportKey \/ Pair \/ Unpair
  BY <1>5, <1>1 DEF CommandVpn, CommandKey, Command, Request, ServiceStart, Unlock, ExportKey, Pair, Unpair, disk, history
<1> QED
  BY <1>1, <1>2, <1>3, <1>4, <1>5, ReplaceNames, ApplyNames, ChangeNames DEF Next, Step

\* Crossing is never undone.
LEMMA CrossedStays == ASSUME crossed \in BOOLEAN, Next PROVE crossed' \in BOOLEAN /\ (crossed => crossed')
<1>1. ASSUME NEW p \in Programs, LocalKey(p) PROVE crossed' \in BOOLEAN /\ (crossed => crossed')
  BY <1>1 DEF LocalKey
<1>2. ASSUME NEW p \in Programs, SaveOpen(p) PROVE crossed' \in BOOLEAN /\ (crossed => crossed')
  BY <1>2 DEF SaveOpen
<1>3. ASSUME NEW p \in Programs, Apply(p) PROVE crossed' \in BOOLEAN /\ (crossed => crossed')
  BY <1>3 DEF Apply
<1>4. ASSUME NEW p \in Programs, Load(p) \/ Change(p) \/ SaveWrite(p) \/ SaveReplace(p) \/ Kill(p) PROVE UNCHANGED crossed
  BY <1>4 DEF Load, Change, SaveWrite, SaveReplace, Kill, history
<1>5. CASE CommandVpn \/ CommandKey \/ Request \/ ServiceStart \/ Unlock \/ ExportKey \/ Pair \/ Unpair
  BY <1>5 DEF CommandVpn, CommandKey, Command, Request, ServiceStart, Unlock, ExportKey, Pair, Unpair, history
<1> QED
  BY <1>1, <1>2, <1>3, <1>4, <1>5 DEF Next, Step

\* The invariant implies both promises.
LEMMA SoundImplies == ASSUME Sound PROVE StoreSurvives /\ RevokedStaysOut
<1>1. file.form \in {"plain", "sealed", Torn}
  BY StoreTyped DEF Sound, VaultType
<1>2. file.form = "plain" \/ (file.form = "sealed" /\ file.key \in Within)
  BY <1>1 DEF Sound, FormInv, KeyPhase, NoKeyYet, KeyMade, Within
<1> QED
  BY <1>2 DEF Sound, PeersInv, StoreSurvives, RevokedStaysOut

\* Every step but a crossing one keeps the invariant.
LEMMA SoundStep == ASSUME Sound, Next, ~crossed' PROVE Sound'
<1>1. VaultType /\ TaskInv /\ MemInv /\ SavingInv /\ FormInv /\ KeyPhase
  BY DEF Sound
<1>2. VaultType' /\ TaskInv' /\ MemInv' /\ SavingInv' /\ FormInv' /\ KeyPhase'
  BY <1>1, TypeStep, TaskStep, MemStep, SavingStep, FormStep, PhaseStep
<1> QED
  BY <1>2, NamesStep, PeersStep DEF Sound

\* It holds to begin with.
LEMMA SoundInit == Init => Sound /\ crossed \in BOOLEAN
<1> SUFFICES ASSUME Init PROVE Sound /\ crossed \in BOOLEAN
  OBVIOUS
<1> "service" \in Programs /\ "cli" \in Programs
  BY DEF Programs
<1>1. PICK peers \in [Names -> 0..1] :
          /\ Cardinality(Known(peers)) = 1
          /\ promised = Known(peers) /\ given = promised /\ live = peers
          /\ \/ keyfile = "key" /\ file = Store("sealed", "key", peers)
             \/ keyfile = Nothing /\ file = Store("plain", Nothing, peers)
  BY DEF Init
<1>2. peers \in Peers
  <2>1. MaxHost \in Nat /\ (Names # {} => MaxHost >= 1)
    BY HostsAssumption, FS_CardinalityType, FS_EmptySet
  <2> QED
    BY <1>1, <2>1 DEF Peers
<1>3. file \in Stores
  BY <1>1, <1>2 DEF Store, Stores, Keys
<1>4. VaultType
  <2>1. pc \in [Programs -> Points]
    BY RestingAt DEF Init, Resting, Programs, Points
  <2> QED
    BY <1>1, <1>2, <1>3, <2>1, Dummies DEF Init, VaultType, Leads, Known
<1>5. pc["service"] = "down" /\ pc["cli"] = "idle"
  BY RestingAt DEF Init
<1>6. \A p \in Programs : task[p] = Idle /\ mem[p] = Blank /\ fd[p] = Nothing /\ pc[p] \in {"down", "idle"}
  BY <1>5 DEF Init, Programs
<1>7. TaskInv
  BY <1>5, <1>6 DEF TaskInv, Idle
<1>8. MemInv
  BY <1>6 DEF MemInv, Blank
<1>9. SavingInv
  BY <1>6 DEF SavingInv, Saving
<1>10. FormInv
  BY <1>1, <1>6 DEF FormInv, Store, Working, Late, Torn
<1>11. KeyPhase
  BY <1>1, <1>5, <1>6, Distinct DEF Init, KeyPhase, NoKeyYet, KeyMade, Managing, Blank, Idle, Store
<1>12. file.peers = peers /\ revoked = {}
  BY <1>1 DEF Store, Init
<1>13. PeersInv
  BY <1>1, <1>12 DEF PeersInv
<1>14. NamesInv
  <2>1. \A p \in Programs : HeldNames(p) = {} /\ Fresh(p) = {} /\ Removing(p) = {}
    BY <1>6, KnownEmpty DEF HeldNames, Fresh, Removing, Blank, NoStore, Store, Late
  <2>2. Seen \subseteq given
    BY <1>1, <1>12 DEF Seen
  <2> QED
    BY <1>6, <2>1, <2>2 DEF NamesInv, Late
<1> QED
  BY <1>4, <1>7, <1>8, <1>9, <1>10, <1>11, <1>13, <1>14 DEF Sound, Init

\* So it holds until somebody crosses.
LEMMA VaultInvHolds == Spec => []VaultInv
<1>1. Init => VaultInv
  BY SoundInit DEF VaultInv
<1>2. VaultInv /\ [Next]_vars => VaultInv'
  <2> SUFFICES ASSUME VaultInv, [Next]_vars PROVE VaultInv'
    OBVIOUS
  <2>1. CASE Next
    <3>1. crossed' \in BOOLEAN /\ (crossed => crossed')
      BY <2>1, CrossedStays DEF VaultInv
    <3>2. ASSUME ~crossed' PROVE Sound'
      BY <2>1, <3>1, <3>2, SoundStep DEF VaultInv
    <3> QED
      BY <3>1, <3>2 DEF VaultInv
  <2>2. CASE UNCHANGED vars
    <3>1. UNCHANGED <<keyfile, marker, bundle, file, tmp, fd, mem, pc, task, live, given, promised, revoked, crossed>>
      BY <2>2 DEF vars, key, disk, history
    <3>2. Sound' <=> Sound
      BY <3>1 DEF Sound, VaultType, TaskInv, MemInv, SavingInv, Saving, Body, FormInv, KeyPhase, NoKeyYet, KeyMade, NamesInv, PeersInv, Seen, HeldNames, Fresh, Removing
    <3> QED
      BY <3>1, <3>2 DEF VaultInv
  <2> QED
    BY <2>1, <2>2
<1> QED
  BY <1>1, <1>2, PTL DEF Spec

\* No program killed half way through pairing, restoring, exporting or saving
\* costs anybody their peers, for any set of names, any number of commands and
\* any number of kills: pair() and unpair() of vault.py, save() of wireguard.py.
THEOREM StoreAlwaysSurvives == Spec => []StoreSurvives
<1>1. VaultInv => StoreSurvives
  BY SoundImplies DEF VaultInv, StoreSurvives
<1> QED
  BY <1>1, VaultInvHolds, PTL

\* A peer that was removed and whose removal reached the interface is in neither
\* the store nor the interface again: remove_peer() and apply() of wireguard.py.
THEOREM RevokedAlwaysOut == Spec => []RevokedStaysOut
<1>1. VaultInv => RevokedStaysOut
  BY SoundImplies DEF VaultInv, RevokedStaysOut
<1> QED
  BY <1>1, VaultInvHolds, PTL

\* save() of wireguard.py never writes a sealed store in the clear, whatever
\* became of the key file between the start of a program and its save.
THEOREM SealedAlwaysStays == Spec => SealedStays
<1>1. VaultInv /\ [Next]_vars => [file.form = "sealed" /\ ~crossed' => file'.form # "plain"]_vars
  <2> SUFFICES ASSUME VaultInv, Next, file.form = "sealed", ~crossed'
               PROVE  file'.form # "plain"
    BY DEF vars
  <2>1. Sound
    BY CrossedStays DEF VaultInv
  <2>2. VaultType /\ TaskInv /\ MemInv /\ SavingInv /\ FormInv /\ KeyPhase
    BY <2>1 DEF Sound
  <2>3. ASSUME NEW p \in Programs, LocalKey(p) \/ SaveWrite(p) \/ Load(p) \/ SaveOpen(p) \/ Kill(p) \/ Change(p) \/ Apply(p)
        PROVE  UNCHANGED file
    BY <2>2, <2>3, KeyCases DEF SaveWrite, SavingInv, Goto, Load, SaveOpen, Kill, Change, Apply, disk
  <2>4. CASE CommandVpn \/ CommandKey \/ Request \/ ServiceStart \/ Unlock \/ ExportKey \/ Pair \/ Unpair
    BY <2>4 DEF CommandVpn, CommandKey, Command, Request, ServiceStart, Unlock, ExportKey, Pair, Unpair, disk
  <2>5. ASSUME NEW p \in Programs, SaveReplace(p) PROVE file'.form = "sealed"
    BY <2>2, <2>5, Replaced
  <2> QED
    BY <2>3, <2>4, <2>5 DEF Next, Step
<1> QED
  BY <1>1, VaultInvHolds, PTL DEF Spec, SealedStays

-------------------------------------------------------------------------------
(* The encrypted upstream *)

Line == [up : BOOLEAN, parked : BOOLEAN, due : Queries \cup {NoQuery}, stream : Seq(Queries)]

Places == {"idle", "acquire", "send", "read", "answered", "failed"}

AskerType == [at : Places, query : Queries \cup {NoQuery}, attempt : {0, 1, 2},
              using : Connections \cup {NoConnection}, got : Queries \cup {NoQuery}]

TransportsTypeOK ==
    /\ protocol \in {"DoH", "DoT"}
    /\ idle \in Seq(Connections)
    /\ line \in [Connections -> Line]
    /\ asker \in [Askers -> AskerType]

\* Nothing is under way on the connection.
Quiet(c) == line[c].due = NoQuery /\ line[c].stream = <<>>

\* Nothing but query q, or the answer to it, is.
Carries(c, q) ==
    \/ line[c].stream = <<>> /\ line[c].due \in {q, NoQuery}
    \/ line[c].stream = <<q>> /\ line[c].due = NoQuery

\* A thread has a connection, and a query, exactly while it sends and reads.
UsingInv ==
    \A a \in Askers :
        /\ asker[a].at \in {"send", "read"} => Using(a) \in Connections /\ asker[a].query \in Queries
        /\ asker[a].at = "acquire" => asker[a].query \in Queries
        /\ asker[a].at \notin {"send", "read"} => Using(a) = NoConnection

\* A connection is in the pool once, or with one thread.
OwnedOnce ==
    /\ \A i, j \in 1..Len(idle) : idle[i] = idle[j] => i = j
    /\ \A i \in 1..Len(idle), a \in Askers : idle[i] # Using(a)
    /\ \A a, b \in Askers : Using(a) = Using(b) /\ Using(a) # NoConnection => a = b

\* Pooled connections are quiet, and one in use carries its user's query only.
LinesInv ==
    /\ \A i \in 1..Len(idle) : Quiet(idle[i])
    /\ \A a \in Askers :
        /\ At(a, "send") => Quiet(Using(a))
        /\ At(a, "read") => Carries(Using(a), asker[a].query)

TInv == TransportsTypeOK /\ UsingInv /\ OwnedOnce /\ LinesInv /\ OwnAnswer

LEMMA TransportsInitInv == TransportsInit => TInv
BY TransportsAssumption DEF TransportsInit, TInv, TransportsTypeOK, UsingInv, OwnedOnce, LinesInv, OwnAnswer,
     Line, AskerType, Places, Waiting, Gone, At, Using

\* The pool without its last connection, and that connection.
LEMMA FrontAndLast ==
    ASSUME NEW S, NEW s \in Seq(S), s # <<>>
    PROVE  /\ Len(s) \in Nat \ {0} /\ Last(s) = s[Len(s)] /\ Last(s) \in S
           /\ Front(s) \in Seq(S) /\ Len(Front(s)) = Len(s) - 1
           /\ \A i \in 1..Len(s) - 1 : Front(s)[i] = s[i]
<1>1. Len(s) \in Nat /\ Len(s) # 0 /\ \A i \in 1..Len(s) : s[i] \in S
  OBVIOUS
<1>2. /\ SubSeq(s, 1, Len(s) - 1) \in Seq(S)
      /\ Len(SubSeq(s, 1, Len(s) - 1)) = IF 1 <= Len(s) - 1 THEN Len(s) - 1 - 1 + 1 ELSE 0
      /\ \A i \in 1..Len(s) - 1 - 1 + 1 : SubSeq(s, 1, Len(s) - 1)[i] = s[1 + i - 1]
  <2>. DEFINE n == Len(s) - 1
  <2>1. n \in Int /\ \A i \in 1..n : s[i] \in S
    BY <1>1
  <2>. HIDE DEF n
  <2>2. /\ SubSeq(s, 1, n) \in Seq(S)
        /\ Len(SubSeq(s, 1, n)) = IF 1 <= n THEN n - 1 + 1 ELSE 0
        /\ \A i \in 1..n - 1 + 1 : SubSeq(s, 1, n)[i] = s[1 + i - 1]
    BY <2>1, SubSeqProperties
  <2>. QED
    BY <2>2 DEF n
<1>3. \A i \in 1..Len(s) - 1 : SubSeq(s, 1, Len(s) - 1)[i] = s[i]
  BY <1>1, <1>2
<1>4. Len(SubSeq(s, 1, Len(s) - 1)) = Len(s) - 1
  <2>. DEFINE n == Len(s)   m == Len(SubSeq(s, 1, Len(s) - 1))
  <2>. HIDE DEF n, m
  <2>1. n \in Nat /\ n # 0 /\ m = IF 1 <= n - 1 THEN n - 1 - 1 + 1 ELSE 0
    BY <1>1, <1>2 DEF n, m
  <2>2. m = n - 1
    BY <2>1
  <2>. QED
    BY <2>2 DEF n, m
<1>5. Len(s) \in Nat \ {0} /\ s[Len(s)] \in S
  BY <1>1
<1>. QED
  BY <1>2, <1>3, <1>4, <1>5, Zenon DEF Front, Last

\* A pool of distinct connections with another one added.
LEMMA AppendNew ==
    ASSUME NEW S, NEW s \in Seq(S), NEW e \in S,
           \A i, j \in 1..Len(s) : s[i] = s[j] => i = j,
           \A i \in 1..Len(s) : s[i] # e
    PROVE  /\ \A i, j \in 1..Len(Append(s, e)) : Append(s, e)[i] = Append(s, e)[j] => i = j
           /\ \A i \in 1..Len(Append(s, e)) :
                Append(s, e)[i] = e \/ \E j \in 1..Len(s) : Append(s, e)[i] = s[j]
<1>. DEFINE n == Len(s)  t == Append(s, e)
<1>1. /\ n \in Nat /\ Len(t) = n + 1 /\ t[n + 1] = e /\ \A i \in 1..n : t[i] = s[i]
  BY AppendProperties
<1>2. \A i \in 1..Len(t) : i = n + 1 \/ i \in 1..n
  BY <1>1
<1>. HIDE DEF n, t
<1>3. \A i \in 1..Len(t) : t[i] = e \/ \E j \in 1..n : t[i] = s[j]
  BY <1>1, <1>2, Zenon
<1>4. ASSUME NEW i \in 1..Len(t), NEW j \in 1..Len(t), t[i] = t[j] PROVE i = j
  <2>1. CASE i \in 1..n /\ j \in 1..n
    BY <1>1, <1>4, <2>1, Zenon DEF n
  <2>2. CASE i = n + 1 /\ j \in 1..n
    BY <1>1, <1>4, <2>2, Zenon DEF n
  <2>3. CASE i \in 1..n /\ j = n + 1
    BY <1>1, <1>4, <2>3, Zenon DEF n
  <2>. QED
    BY <1>2, <2>1, <2>2, <2>3
<1>. QED
  BY <1>3, <1>4, Zenon DEF n, t

LEMMA TransportsTypeStep == TInv /\ [TransportsNext]_transportVars => TransportsTypeOK'
<1>. SUFFICES ASSUME TInv, [TransportsNext]_transportVars PROVE TransportsTypeOK'
  OBVIOUS
<1>. USE TransportsAssumption DEF TInv, TransportsTypeOK, UsingInv, At, Using
<1>a. \A a \in Askers : asker[a] \in AskerType
  OBVIOUS
<1>b. \A c \in Connections : line[c] \in Line
  OBVIOUS
<1>c. Gone \in Line /\ Opened \in Line /\ Waiting \in AskerType
  <2>1. <<>> \in Seq(Queries)
    OBVIOUS
  <2>. QED
    BY <2>1 DEF Gone, Opened, Waiting, Line, AskerType, Places
<1>1. ASSUME NEW a \in Askers, BeginLookup(a) PROVE TransportsTypeOK'
  <2>1. \A q \in Queries : [asker[a] EXCEPT !.at = "acquire", !.query = q, !.attempt = 1] \in AskerType
    BY <1>a DEF AskerType, Places
  <2>. QED
    BY <1>1, <2>1 DEF BeginLookup
<1>2. ASSUME NEW a \in Askers, AcquireIdle(a) PROVE TransportsTypeOK'
  <2>1. Front(idle) \in Seq(Connections) /\ Last(idle) \in Connections
    BY <1>2 DEF AcquireIdle, Front, Last
  <2>2. [asker[a] EXCEPT !.at = "send", !.using = Last(idle)] \in AskerType
    BY <1>a, <2>1 DEF AskerType, Places
  <2>. QED
    BY <1>2, <2>1, <2>2 DEF AcquireIdle
<1>3. ASSUME NEW a \in Askers, Connect(a) PROVE TransportsTypeOK'
  <2>1. \A c \in Connections : [asker[a] EXCEPT !.at = "send", !.using = c] \in AskerType
    BY <1>a DEF AskerType, Places
  <2>. QED
    <3>1. PICK c \in Connections :
            /\ line' = [line EXCEPT ![c] = Opened]
            /\ asker' = [asker EXCEPT ![a] = [@ EXCEPT !.at = "send", !.using = c]]
      BY <1>3 DEF Connect
    <3>. QED
      BY <1>3, <3>1, <1>c, <2>1 DEF Connect
<1>d. ASSUME NEW a \in Askers PROVE NextAttempt(a) \in [Askers -> AskerType]
  <2>1. \A p \in Places : [asker[a] EXCEPT !.at = p, !.attempt = 2, !.using = NoConnection] \in AskerType
    BY <1>a DEF AskerType
  <2>. QED
    BY <2>1 DEF NextAttempt, Places
<1>4. ASSUME NEW a \in Askers, ConnectFails(a) PROVE TransportsTypeOK'
  BY <1>4, <1>d DEF ConnectFails
<1>5. ASSUME NEW a \in Askers, Send(a) PROVE TransportsTypeOK'
  <2>1. [asker[a] EXCEPT !.at = "read"] \in AskerType
    BY <1>a DEF AskerType, Places
  <2>2. \A q \in Queries : [Opened EXCEPT !.due = q] \in Line /\ [line[Using(a)] EXCEPT !.due = q] \in Line
    BY <1>b, <1>c, <1>5 DEF Line, Send
  <2>. QED
    BY <1>5, <2>1, <2>2 DEF Send
<1>6. ASSUME NEW a \in Askers, SendFails(a) \/ ReadFails(a) PROVE TransportsTypeOK'
  BY <1>6, <1>c, <1>d DEF SendFails, ReadFails, GiveUp
<1>7. ASSUME NEW a \in Askers, Read(a) PROVE TransportsTypeOK'
  <2>. DEFINE c == Using(a)
  <2>1. c \in Connections /\ line[c].stream \in Seq(Queries)
    BY <1>7, <1>b DEF Read, Line
  <2>2. Head(line[c].stream) \in Queries /\ Tail(line[c].stream) \in Seq(Queries)
    BY <1>7, <2>1 DEF Read
  <2>3. Append(idle, c) \in Seq(Connections)
    BY <2>1
  <2>4. [line[c] EXCEPT !.stream = Tail(line[c].stream)] \in Line
    BY <1>b, <2>1, <2>2 DEF Line
  <2>5. [asker[a] EXCEPT !.at = "answered", !.using = NoConnection, !.got = Head(line[c].stream)] \in AskerType
    BY <1>a, <2>2 DEF AskerType, Places
  <2>. QED
    <3>1. asker' \in [Askers -> AskerType]
      BY <1>7, <2>5 DEF Read
    <3>2. CASE Len(idle) < PoolSize
      <4>1. idle' = Append(idle, c) /\ line' = [line EXCEPT ![c] = [@ EXCEPT !.stream = Tail(line[c].stream)]]
        BY <1>7, <3>2 DEF Read
      <4>2. line' \in [Connections -> Line]
        <5>. HIDE DEF c
        <5>. QED
          BY <2>1, <2>4, <4>1
      <4>. QED
        BY <1>7, <2>3, <3>1, <4>1, <4>2 DEF Read
    <3>3. CASE ~(Len(idle) < PoolSize)
      BY <1>7, <1>c, <3>1, <3>3 DEF Read
    <3>. QED
      BY <3>2, <3>3
<1>8. ASSUME NEW a \in Askers, ReadRefusal(a) PROVE TransportsTypeOK'
  <2>1. [asker[a] EXCEPT !.at = "failed", !.using = NoConnection] \in AskerType
    BY <1>a DEF AskerType, Places
  <2>. QED
    BY <1>8, <1>c, <2>1 DEF ReadRefusal
<1>9. ASSUME NEW a \in Askers, Return(a) PROVE TransportsTypeOK'
  BY <1>9, <1>c DEF Return
<1>10. CASE Drain
  BY <1>10, <1>c DEF Drain
<1>11. ASSUME NEW c \in Connections, NEW closing \in BOOLEAN, FarAnswers(c, closing) PROVE TransportsTypeOK'
  <2>1. [up |-> ~closing, parked |-> closing, due |-> NoQuery,
         stream |-> Append(line[c].stream, line[c].due)] \in Line
    BY <1>11, <1>b DEF FarAnswers, Line
  <2>. QED
    BY <1>11, <2>1 DEF FarAnswers
<1>12. ASSUME NEW c \in Connections, FarCloses(c) PROVE TransportsTypeOK'
  <2>1. [line[c] EXCEPT !.up = FALSE, !.due = NoQuery] \in Line
    BY <1>b DEF Line
  <2>. QED
    BY <1>12, <2>1 DEF FarCloses
<1>13. CASE UNCHANGED transportVars
  BY <1>13 DEF transportVars
<1>. QED
  BY <1>1, <1>2, <1>3, <1>4, <1>5, <1>6, <1>7, <1>8, <1>9, <1>10, <1>11, <1>12, <1>13 DEF TransportsNext

LEMMA UsingStep == TInv /\ [TransportsNext]_transportVars => UsingInv'
<1>. SUFFICES ASSUME TInv, [TransportsNext]_transportVars PROVE UsingInv'
  OBVIOUS
<1>. USE TransportsAssumption DEF TInv, TransportsTypeOK, AskerType, Line, UsingInv, At, Using, Waiting
<1>1. ASSUME NEW a \in Askers, BeginLookup(a) PROVE UsingInv'
  BY <1>1 DEF BeginLookup
<1>2. ASSUME NEW a \in Askers, AcquireIdle(a) PROVE UsingInv'
  BY <1>2, FrontAndLast DEF AcquireIdle
<1>3. ASSUME NEW a \in Askers, Connect(a) PROVE UsingInv'
  BY <1>3 DEF Connect
<1>4. ASSUME NEW a \in Askers, ConnectFails(a) PROVE UsingInv'
  BY <1>4 DEF ConnectFails, NextAttempt
<1>5. ASSUME NEW a \in Askers, Send(a) PROVE UsingInv'
  BY <1>5 DEF Send
<1>6. ASSUME NEW a \in Askers, SendFails(a) PROVE UsingInv'
  BY <1>6 DEF SendFails, GiveUp, NextAttempt
<1>7. ASSUME NEW a \in Askers, ReadFails(a) PROVE UsingInv'
  BY <1>7 DEF ReadFails, GiveUp, NextAttempt
<1>8. ASSUME NEW a \in Askers, Read(a) PROVE UsingInv'
  BY <1>8 DEF Read
<1>9. ASSUME NEW a \in Askers, ReadRefusal(a) PROVE UsingInv'
  BY <1>9 DEF ReadRefusal
<1>10. ASSUME NEW a \in Askers, Return(a) PROVE UsingInv'
  BY <1>10 DEF Return
<1>11. CASE Drain
  BY <1>11 DEF Drain
<1>12. ASSUME NEW c \in Connections, NEW closing \in BOOLEAN, FarAnswers(c, closing) PROVE UsingInv'
  BY <1>12 DEF FarAnswers
<1>13. ASSUME NEW c \in Connections, FarCloses(c) PROVE UsingInv'
  BY <1>13 DEF FarCloses
<1>14. CASE UNCHANGED transportVars
  BY <1>14 DEF transportVars
<1>. QED
  BY <1>1, <1>2, <1>3, <1>4, <1>5, <1>6, <1>7, <1>8, <1>9, <1>10, <1>11, <1>12, <1>13, <1>14 DEF TransportsNext

LEMMA OwnedStep == TInv /\ [TransportsNext]_transportVars => OwnedOnce'
<1>. SUFFICES ASSUME TInv, [TransportsNext]_transportVars PROVE OwnedOnce'
  OBVIOUS
<1>. USE TransportsAssumption DEF TInv, TransportsTypeOK, AskerType, Line, UsingInv, At, Using, OwnedOnce, Waiting, Front, Last, Held, ToSet
<1>1. ASSUME NEW a \in Askers, BeginLookup(a) PROVE OwnedOnce'
  BY <1>1 DEF BeginLookup
<1>2. ASSUME NEW a \in Askers, AcquireIdle(a) PROVE OwnedOnce'
  <2>. HIDE DEF Front, Last
  <2>1. /\ idle # <<>> /\ idle' = Front(idle) /\ line' = line
        /\ asker' = [asker EXCEPT ![a] = [@ EXCEPT !.at = "send", !.using = Last(idle)]]
    BY <1>2 DEF AcquireIdle
  <2>2. /\ Len(idle) \in Nat /\ Len(idle') = Len(idle) - 1 /\ Last(idle) = idle[Len(idle)]
        /\ \A i \in 1..Len(idle') : idle'[i] = idle[i] /\ i \in 1..Len(idle) /\ i # Len(idle)
        /\ Len(idle) \in 1..Len(idle)
    <3>1. /\ Len(idle) \in Nat \ {0} /\ Last(idle) = idle[Len(idle)]
          /\ Len(Front(idle)) = Len(idle) - 1
          /\ \A i \in 1..Len(idle) - 1 : Front(idle)[i] = idle[i]
      BY <2>1, FrontAndLast, Zenon
    <3>. QED
      BY <2>1, <3>1
  <2>. QED
    BY <2>1, <2>2
<1>3. ASSUME NEW a \in Askers, Connect(a) PROVE OwnedOnce'
  <2>1. PICK c \in Connections \ Held :
           asker' = [asker EXCEPT ![a] = [@ EXCEPT !.at = "send", !.using = c]]
    BY <1>3 DEF Connect
  <2>2. idle = <<>> /\ idle' = idle
    BY <1>3 DEF Connect
  <2>3. /\ \A b \in Askers : b # a => Using(b)' = Using(b)
        /\ Using(a)' = c
    BY <2>1
  <2>4. \A b \in Askers : Using(b) # c
    BY <2>1
  <2>5. \A b, d \in Askers : Using(b)' = Using(d)' /\ Using(b)' # NoConnection => b = d
    BY <2>3, <2>4
  <2>. QED
    BY <2>2, <2>5
<1>4. ASSUME NEW a \in Askers, ConnectFails(a) PROVE OwnedOnce'
  BY <1>4 DEF ConnectFails, NextAttempt
<1>5. ASSUME NEW a \in Askers, Send(a) PROVE OwnedOnce'
  BY <1>5 DEF Send
<1>6. ASSUME NEW a \in Askers, SendFails(a) PROVE OwnedOnce'
  BY <1>6 DEF SendFails, GiveUp, NextAttempt
<1>7. ASSUME NEW a \in Askers, ReadFails(a) PROVE OwnedOnce'
  BY <1>7 DEF ReadFails, GiveUp, NextAttempt
<1>8. ASSUME NEW a \in Askers, Read(a) PROVE OwnedOnce'
  <2>. DEFINE c == Using(a)
  <2>1. /\ c \in Connections /\ Len(idle) \in Nat
        /\ asker' = [asker EXCEPT ![a] = [@ EXCEPT !.at = "answered", !.using = NoConnection,
                                                   !.got = Head(line[c].stream)]]
    BY <1>8 DEF Read
  <2>2. CASE Len(idle) < PoolSize
    <3>1. idle' = Append(idle, c)
      BY <1>8, <2>2 DEF Read
    <3>2. \A i \in 1..Len(idle) : idle[i] # c
      OBVIOUS
    <3>3. /\ \A i, j \in 1..Len(idle') : idle'[i] = idle'[j] => i = j
          /\ \A i \in 1..Len(idle') : idle'[i] = c \/ \E j \in 1..Len(idle) : idle'[i] = idle[j]
      BY <2>1, <3>1, <3>2, AppendNew
    <3>4. /\ \A b \in Askers : b # a => Using(b)' = Using(b) /\ Using(b) # c
          /\ Using(a)' = NoConnection
      BY <2>1
    <3>5. ASSUME NEW i \in 1..Len(idle'), NEW b \in Askers PROVE idle'[i] # Using(b)'
      <4>1. CASE idle'[i] = c
        BY <2>1, <3>4, <4>1
      <4>2. CASE \E j \in 1..Len(idle) : idle'[i] = idle[j]
        BY <3>4, <4>2
      <4>. QED
        BY <3>3, <4>1, <4>2
    <3>. QED
      BY <3>3, <3>4, <3>5
  <2>3. CASE ~(Len(idle) < PoolSize)
    BY <1>8, <2>1, <2>3 DEF Read
  <2>. QED
    BY <2>2, <2>3
<1>9. ASSUME NEW a \in Askers, ReadRefusal(a) PROVE OwnedOnce'
  BY <1>9 DEF ReadRefusal
<1>10. ASSUME NEW a \in Askers, Return(a) PROVE OwnedOnce'
  BY <1>10 DEF Return
<1>11. CASE Drain
  BY <1>11 DEF Drain
<1>12. ASSUME NEW c \in Connections, NEW closing \in BOOLEAN, FarAnswers(c, closing) PROVE OwnedOnce'
  BY <1>12 DEF FarAnswers
<1>13. ASSUME NEW c \in Connections, FarCloses(c) PROVE OwnedOnce'
  BY <1>13 DEF FarCloses
<1>14. CASE UNCHANGED transportVars
  BY <1>14 DEF transportVars
<1>. QED
  BY <1>1, <1>2, <1>3, <1>4, <1>5, <1>6, <1>7, <1>8, <1>9, <1>10, <1>11, <1>12, <1>13, <1>14 DEF TransportsNext

LEMMA LinesStep == TInv /\ [TransportsNext]_transportVars => LinesInv'
<1>. SUFFICES ASSUME TInv, [TransportsNext]_transportVars PROVE LinesInv'
  OBVIOUS
<1>. USE TransportsAssumption DEF TInv, TransportsTypeOK, AskerType, Line, UsingInv, At, Using, OwnedOnce, LinesInv, Quiet, Carries, Gone, Opened, Waiting, Front, Last, Held, ToSet
<1>1. ASSUME NEW a \in Askers, BeginLookup(a) PROVE LinesInv'
  BY <1>1 DEF BeginLookup
<1>2. ASSUME NEW a \in Askers, AcquireIdle(a) PROVE LinesInv'
  <2>. HIDE DEF Front, Last
  <2>1. /\ idle # <<>> /\ idle' = Front(idle) /\ line' = line
        /\ asker' = [asker EXCEPT ![a] = [@ EXCEPT !.at = "send", !.using = Last(idle)]]
    BY <1>2 DEF AcquireIdle
  <2>2. /\ Len(idle) \in Nat /\ Len(idle') = Len(idle) - 1 /\ Last(idle) = idle[Len(idle)]
        /\ \A i \in 1..Len(idle') : idle'[i] = idle[i] /\ i \in 1..Len(idle) /\ i # Len(idle)
        /\ Len(idle) \in 1..Len(idle)
    <3>0. idle \in Seq(Connections)
      OBVIOUS
    <3>. HIDE DEF TInv
    <3>1. /\ Len(idle) \in Nat \ {0} /\ Last(idle) = idle[Len(idle)]
          /\ Len(Front(idle)) = Len(idle) - 1
          /\ \A i \in 1..Len(idle) - 1 : Front(idle)[i] = idle[i]
      BY <2>1, <3>0, FrontAndLast, Zenon
    <3>. QED
      BY <2>1, <3>1
  <2>. QED
    BY <2>1, <2>2
<1>3. ASSUME NEW a \in Askers, Connect(a) PROVE LinesInv'
  BY <1>3 DEF Connect
<1>4. ASSUME NEW a \in Askers, ConnectFails(a) PROVE LinesInv'
  BY <1>4 DEF ConnectFails, NextAttempt
<1>5. ASSUME NEW a \in Askers, Send(a) PROVE LinesInv'
  BY <1>5 DEF Send
<1>6. ASSUME NEW a \in Askers, SendFails(a) PROVE LinesInv'
  BY <1>6 DEF SendFails, GiveUp, NextAttempt
<1>7. ASSUME NEW a \in Askers, ReadFails(a) PROVE LinesInv'
  BY <1>7 DEF ReadFails, GiveUp, NextAttempt
<1>8. ASSUME NEW a \in Askers, Read(a) PROVE LinesInv'
  <2>. DEFINE c == Using(a)
  <2>1. /\ c \in Connections /\ Len(idle) \in Nat
        /\ asker' = [asker EXCEPT ![a] = [@ EXCEPT !.at = "answered", !.using = NoConnection,
                                                   !.got = Head(line[c].stream)]]
    BY <1>8 DEF Read
  <2>2. CASE Len(idle) < PoolSize
    <3>1. /\ idle' = Append(idle, c) /\ line' = [line EXCEPT ![c].stream = Tail(@)]
          /\ line[c].stream # <<>>
      BY <1>8, <2>2 DEF Read
    <3>2. \A i \in 1..Len(idle) : idle[i] \in Connections /\ idle[i] # c
      OBVIOUS
    <3>3. \A i \in 1..Len(idle') : idle'[i] = c \/ \E j \in 1..Len(idle) : idle'[i] = idle[j]
      BY <2>1, <3>1, <3>2, AppendNew
    <3>4. line[c].stream = <<asker[a].query>> /\ line[c].due = NoQuery
      BY <1>8, <3>1 DEF Read
    <3>5. Tail(<<asker[a].query>>) = <<>>
      OBVIOUS
    <3>6. /\ line'[c].stream = <<>> /\ line'[c].due = NoQuery
          /\ \A d \in Connections : d # c => line'[d] = line[d]
      BY <2>1, <3>1, <3>4, <3>5
    <3>7. ASSUME NEW i \in 1..Len(idle') PROVE Quiet(idle[i])'
      <4>1. CASE idle'[i] = c
        BY <3>6, <4>1
      <4>2. CASE \E j \in 1..Len(idle) : idle'[i] = idle[j]
        <5>1. PICK j \in 1..Len(idle) : idle'[i] = idle[j]
          BY <4>2
        <5>2. line'[idle'[i]] = line[idle[j]] /\ Quiet(idle[j])
          BY <3>2, <3>6, <5>1
        <5>. QED
          BY <5>2
      <4>. QED
        BY <3>3, <4>1, <4>2
    <3>8. ASSUME NEW b \in Askers, asker'[b].at \in {"send", "read"}
          PROVE  b # a /\ asker'[b] = asker[b] /\ line'[Using(b)] = line[Using(b)]
      BY <2>1, <3>6, <3>8
    <3>9. ASSUME NEW b \in Askers
          PROVE  /\ At(b, "send")' => Quiet(Using(b))'
                 /\ At(b, "read")' => Carries(Using(b), asker[b].query)'
      BY <3>8
    <3>. QED
      BY <3>7, <3>9
  <2>3. CASE ~(Len(idle) < PoolSize)
    BY <1>8, <2>1, <2>3 DEF Read
  <2>. QED
    BY <2>2, <2>3
<1>9. ASSUME NEW a \in Askers, ReadRefusal(a) PROVE LinesInv'
  BY <1>9 DEF ReadRefusal
<1>10. ASSUME NEW a \in Askers, Return(a) PROVE LinesInv'
  BY <1>10 DEF Return
<1>11. CASE Drain
  BY <1>11 DEF Drain
<1>12. ASSUME NEW c \in Connections, NEW closing \in BOOLEAN, FarAnswers(c, closing) PROVE LinesInv'
  <2>1. /\ line[c].due # NoQuery
        /\ line' = [line EXCEPT ![c] = [up |-> ~closing, parked |-> closing, due |-> NoQuery,
                                        stream |-> Append(@.stream, @.due)]]
        /\ idle' = idle /\ asker' = asker
    BY <1>12 DEF FarAnswers
  <2>2. \A i \in 1..Len(idle) : idle[i] \in Connections /\ idle[i] # c
    BY <2>1
  <2>3. \A b \in Askers : At(b, "send") => Using(b) # c
    BY <2>1
  <2>4. ASSUME NEW b \in Askers, At(b, "read"), Using(b) = c PROVE Carries(c, asker[b].query)'
    <3>1. line[c].stream = <<>> /\ line[c].due = asker[b].query
      BY <2>1, <2>4
    <3>2. line'[c].stream = <<asker[b].query>> /\ line'[c].due = NoQuery
      BY <2>1, <3>1
    <3>. QED
      BY <3>2, <2>1
  <2>. QED
    BY <2>1, <2>2, <2>3, <2>4
<1>13. ASSUME NEW c \in Connections, FarCloses(c) PROVE LinesInv'
  BY <1>13 DEF FarCloses
<1>14. CASE UNCHANGED transportVars
  BY <1>14 DEF transportVars
<1>. QED
  BY <1>1, <1>2, <1>3, <1>4, <1>5, <1>6, <1>7, <1>8, <1>9, <1>10, <1>11, <1>12, <1>13, <1>14 DEF TransportsNext

LEMMA OwnStep == TInv /\ [TransportsNext]_transportVars => OwnAnswer'
<1>. SUFFICES ASSUME TInv, [TransportsNext]_transportVars PROVE OwnAnswer'
  OBVIOUS
<1>. USE TransportsAssumption DEF TInv, TransportsTypeOK, AskerType, Line, UsingInv, At, Using, OwnAnswer, LinesInv, Quiet, Carries, Waiting
<1>1. ASSUME NEW a \in Askers, BeginLookup(a) PROVE OwnAnswer'
  BY <1>1 DEF BeginLookup
<1>2. ASSUME NEW a \in Askers, AcquireIdle(a) PROVE OwnAnswer'
  BY <1>2 DEF AcquireIdle
<1>3. ASSUME NEW a \in Askers, Connect(a) PROVE OwnAnswer'
  BY <1>3 DEF Connect
<1>4. ASSUME NEW a \in Askers, ConnectFails(a) PROVE OwnAnswer'
  BY <1>4 DEF ConnectFails, NextAttempt
<1>5. ASSUME NEW a \in Askers, Send(a) PROVE OwnAnswer'
  BY <1>5 DEF Send
<1>6. ASSUME NEW a \in Askers, SendFails(a) PROVE OwnAnswer'
  BY <1>6 DEF SendFails, GiveUp, NextAttempt
<1>7. ASSUME NEW a \in Askers, ReadFails(a) PROVE OwnAnswer'
  BY <1>7 DEF ReadFails, GiveUp, NextAttempt
<1>8. ASSUME NEW a \in Askers, Read(a) PROVE OwnAnswer'
  BY <1>8 DEF Read
<1>9. ASSUME NEW a \in Askers, ReadRefusal(a) PROVE OwnAnswer'
  BY <1>9 DEF ReadRefusal
<1>10. ASSUME NEW a \in Askers, Return(a) PROVE OwnAnswer'
  BY <1>10 DEF Return
<1>11. CASE Drain
  BY <1>11 DEF Drain
<1>12. ASSUME NEW c \in Connections, NEW closing \in BOOLEAN, FarAnswers(c, closing) PROVE OwnAnswer'
  BY <1>12 DEF FarAnswers
<1>13. ASSUME NEW c \in Connections, FarCloses(c) PROVE OwnAnswer'
  BY <1>13 DEF FarCloses
<1>14. CASE UNCHANGED transportVars
  BY <1>14 DEF transportVars
<1>. QED
  BY <1>1, <1>2, <1>3, <1>4, <1>5, <1>6, <1>7, <1>8, <1>9, <1>10, <1>11, <1>12, <1>13, <1>14 DEF TransportsNext

\* Over DoT and DoH alike, with any number of threads and connections and a
\* pool of any size, a lookup is answered with the answer to its own query.
THEOREM OwnAnswerHolds == TransportsSpec => []OwnAnswer
<1>1. TInv /\ [TransportsNext]_transportVars => TInv'
  BY TransportsTypeStep, UsingStep, OwnedStep, LinesStep, OwnStep DEF TInv
<1>2. TInv => OwnAnswer
  BY DEF TInv
<1>. QED
  BY TransportsInitInv, <1>1, <1>2, PTL DEF TransportsSpec

-------------------------------------------------------------------------------
(* The plain upstream *)

\* Addresses the name may resolve to, or that answer.
Addresses == Answering \cup UNION {ToSet(found) : found \in Lists}

CallPlaces == {"idle", "check", "all", "others", "try", "unlocated", "timed out", "answered", "malformed", "tcp failed"}

Calls == [at : CallPlaces, given : Seq(Addresses), candidates : Seq(Addresses), index : Nat, remaining : Nat]

\* The addresses from index on.
Left(k) == Len(k.candidates) - k.index + 1

\* A call keeps the list it has seen, and the order it tries: the list itself, or
\* an address that answers in front.  No address tried so far has a resolver
\* behind it, and the time left is enough for every address left.
CallInv(k, ends, work) ==
    /\ k \in Calls
    /\ k.at \in {"check", "all", "others"} => ends \in Lists
    /\ k.at # "try" /\ k.index = 0 => k.candidates = <<>>
    /\ k.at \in {"idle", "check", "all"} => k.index = 0
    /\ k.at = "others" =>
        /\ work \in Answering /\ Len(k.candidates) <= k.index
        /\ k.index > 0 => k.given \in Lists /\ k.index <= Len(k.given)
    /\ k.at = "try" =>
        /\ k.index \in Nat \ {0} /\ k.index <= Len(k.candidates) + 1
        /\ \A j \in 1..Len(k.candidates) : j < k.index => k.candidates[j] \notin Answering
        /\ \A d \in Delays \cup {MinShare} : d * Left(k) <= k.remaining
        /\ k.candidates = k.given \/ (Len(k.candidates) > 0 /\ k.candidates[1] \in Answering)
    /\ k.at = "timed out" => ToSet(k.given) \cap Answering = {}

\* The inductive invariant of the plain upstream.
PlainInv ==
    /\ working \in Answering \cup {NoAddress}
    /\ endpoints \in Lists \cup {<<>>}
    /\ caller \in [Callers -> Calls]
    /\ \A c \in Callers : CallInv(caller[c], endpoints, working)

\* Lists are sequences of addresses that share the time.
LEMMA ListTyped ==
    ASSUME NEW found \in Lists
    PROVE  /\ found \in Seq(Addresses) /\ Len(found) \in Nat \ {0} /\ NoAddress \notin ToSet(found)
           /\ \A d \in Delays \cup {MinShare} : d \in Nat /\ d * (Len(found) + 1) <= Timeout
<1>1. found \in Seq(ToSet(found)) /\ found # <<>>
  BY PlainAssumption
<1>2. ToSet(found) \subseteq Addresses
  BY DEF Addresses
<1>3. found \in Seq(Addresses)
  BY <1>1, <1>2
<1>4. Len(found) \in Nat \ {0}
  BY <1>1
<1> QED
  BY <1>3, <1>4, PlainAssumption

\* What is left of r after one of n equal shares is enough for the others.
LEMMA ShareEnough ==
    ASSUME NEW r \in Nat, NEW n \in Nat, n >= 2, NEW d \in Nat, d * n <= r
    PROVE  /\ r \div n \in Nat /\ r \div n <= r
           /\ d <= r \div n
           /\ d * (n - 1) <= r - r \div n
<1> DEFINE q == r \div n
           m == r % n
<1>1. q \in Int /\ m \in 0..(n - 1) /\ r = n * q + m
  BY SMT
<1> HIDE DEF q, m
<1>2. q >= 0
  <2>1. q <= -1 => n * q <= -n
    BY <1>1, SMT
  <2> QED
    BY <1>1, <2>1, SMT
<1>3. d <= q
  <2>1. q + 1 <= d => n * (q + 1) <= d * n
    BY <1>1, SMT
  <2>2. n * (q + 1) = n * q + n
    BY <1>1, SMT
  <2> QED
    BY <1>1, <2>1, <2>2, SMT
<1>4. d * (n - 1) <= q * (n - 1)
  BY <1>1, <1>3, SMT
<1>5. q * (n - 1) = n * q - q
  BY <1>1, SMT
<1>6. q <= n * q
  BY <1>1, <1>2, SMT
<1> QED
  BY <1>1, <1>2, <1>3, <1>4, <1>5, <1>6, SMT DEF q

\* The budget is an equal share, and leaves the others theirs.
LEMMA ShareOfBudget ==
    ASSUME NEW c \in Callers, CallInv(caller[c], endpoints, working), Trying(c)
    PROVE  /\ Budget(c) \in Nat /\ Budget(c) <= caller[c].remaining
           /\ \A d \in Delays \cup {MinShare} :
                /\ d <= Budget(c)
                /\ d * (Left(caller[c]) - 1) <= caller[c].remaining - Budget(c)
           /\ Candidate(c) \in Addresses
<1> DEFINE k == caller[c]
           n == Left(k)
           r == k.remaining
           q == r \div n
<1>1. k \in Calls /\ k.at = "try" /\ k.index <= Len(k.candidates)
  BY DEF CallInv, Trying, In
<1>2. /\ n \in Nat /\ n >= 1 /\ r \in Nat /\ k.index \in 1..Len(k.candidates)
      /\ k.candidates \in Seq(Addresses)
      /\ \A d \in Delays \cup {MinShare} : d \in Nat /\ d * n <= r
  BY <1>1, PlainAssumption DEF CallInv, Calls, Left
<1>3. Candidate(c) \in Addresses
  BY <1>2 DEF Candidate
<1>4. CASE n = 1
  <2>1. Budget(c) = r
    BY <1>4 DEF Budget, Left
  <2>2. \A d \in Delays \cup {MinShare} : d <= r /\ d * (n - 1) <= r - r
    BY <1>2, <1>4
  <2> QED
    BY <1>2, <1>3, <2>1, <2>2
<1>5. CASE n >= 2
  <2> HIDE DEF n, r, q
  <2>1. /\ q \in Nat /\ q <= r
        /\ \A d \in Delays \cup {MinShare} : d <= q /\ d * (n - 1) <= r - q
    BY <1>2, <1>5, ShareEnough DEF q
  <2>2. Max({q, MinShare}) = q
    BY <2>1, <1>2 DEF Max
  <2>3. Min({r, q}) = q
    BY <2>1, <1>2 DEF Min
  <2>4. Budget(c) = IF n = 1 THEN r ELSE Min({r, Max({q, MinShare})})
    BY DEF Budget, Left, n, r, q
  <2>5. Budget(c) = q
    BY <1>5, <2>2, <2>3, <2>4
  <2> QED
    BY <1>3, <2>1, <2>5 DEF n, r
<1> QED
  BY <1>2, <1>4, <1>5

\* What a step of one call leaves alone.
LEMMA OneCall ==
    ASSUME PlainInv, NEW c, c \in Callers, NEW k, CallInv(k, endpoints', working'),
           caller' = [caller EXCEPT ![c] = k],
           working' = working \/ working' \in Answering,
           endpoints' = endpoints \/ endpoints' \in Lists
    PROVE  PlainInv'
<1>1. caller' \in [Callers -> Calls] /\ caller'[c] = k /\ \A b \in Callers \ {c} : caller'[b] = caller[b]
  BY DEF PlainInv, CallInv
<1>2. ASSUME NEW b \in Callers \ {c} PROVE CallInv(caller'[b], endpoints', working')
  <2> DEFINE j == caller[b]
  <2>1. caller'[b] = j /\ CallInv(j, endpoints, working)
    BY <1>1 DEF PlainInv
  <2> HIDE DEF j
  <2> QED
    BY <2>1 DEF CallInv
<1> QED
  BY <1>1, <1>2 DEF PlainInv

\* The fields of a call that moves on.
LEMMA Moved ==
    ASSUME NEW k, k \in Calls, NEW place, place \in CallPlaces
    PROVE  /\ [k EXCEPT !.at = place] \in Calls /\ [k EXCEPT !.at = place].at = place
           /\ [k EXCEPT !.at = place].given = k.given /\ [k EXCEPT !.at = place].candidates = k.candidates
           /\ [k EXCEPT !.at = place].index = k.index /\ [k EXCEPT !.at = place].remaining = k.remaining
BY DEF Calls

\* The fields of a call that begins to try.
LEMMA TrialFields ==
    ASSUME NEW g \in Seq(Addresses), NEW s \in Seq(Addresses)
    PROVE  /\ Trial(g, s) \in Calls /\ Trial(g, s).at = "try" /\ Trial(g, s).given = g
           /\ Trial(g, s).candidates = s /\ Trial(g, s).index = 1 /\ Trial(g, s).remaining = Timeout
BY PlainAssumption DEF Trial, Calls, CallPlaces

\* A call begins to try with enough time, even with one address too many.
LEMMA TrialInv ==
    ASSUME NEW g, g \in Lists, NEW s, s \in Seq(Addresses), Len(s) <= Len(g) + 1,
           s = g \/ (Len(s) > 0 /\ s[1] \in Answering)
    PROVE  \A ends, work : CallInv(Trial(g, s), ends, work)
<1> DEFINE k == Trial(g, s)
<1>1. g \in Seq(Addresses)
  BY ListTyped
<1>2. /\ k \in Calls /\ k.at = "try" /\ k.given = g /\ k.candidates = s
      /\ k.index = 1 /\ k.remaining = Timeout
  BY <1>1, TrialFields
<1> HIDE DEF k
<1>3. Left(k) = Len(s) /\ Len(s) \in Nat
  BY <1>2 DEF Left
<1>4. \A d \in Delays \cup {MinShare} : d * Left(k) <= k.remaining
  <2>1. ASSUME NEW d \in Delays \cup {MinShare} PROVE d * Len(s) <= Timeout
    <3>1. d \in Nat /\ d * (Len(g) + 1) <= Timeout /\ Len(g) \in Nat
      BY ListTyped
    <3>2. d * Len(s) <= d * (Len(g) + 1)
      BY <1>3, <3>1, SMT
    <3> QED
      BY <1>3, <3>1, <3>2, PlainAssumption, SMT
  <2> QED
    BY <1>2, <1>3, <2>1
<1>5. ASSUME NEW ends, NEW work PROVE CallInv(k, ends, work)
  BY <1>2, <1>3, <1>4 DEF CallInv, Left
<1> QED
  BY <1>5 DEF k

\* A call that has its answer keeps nothing.
LEMMA EndedInv ==
    ASSUME NEW k, k \in Calls, k.index \in Nat \ {0},
           k.at \notin {"check", "all", "others", "try", "timed out", "idle"}
    PROVE  \A ends, work : CallInv(k, ends, work)
BY DEF CallInv

\* Every step keeps the invariant.
LEMMA PlainStep == PlainInv /\ PlainNext => PlainInv'
<1> SUFFICES ASSUME PlainInv, PlainNext PROVE PlainInv'
  OBVIOUS
<1>0. NoAddress \notin Answering
  BY PlainAssumption
<1>1. CASE ListExpires
  BY <1>1 DEF ListExpires, PlainInv, CallInv, Left
<1>2. ASSUME NEW c \in Callers, BeginCall(c) PROVE PlainInv'
  <2> DEFINE k == [caller[c] EXCEPT !.at = "check"]
  <2>1. CallInv(caller[c], endpoints, working) /\ caller[c] \in Calls
    BY DEF PlainInv
  <2>2. /\ k \in Calls /\ k.at = "check" /\ k.given = caller[c].given
        /\ k.candidates = caller[c].candidates /\ k.index = caller[c].index
    BY <2>1, Moved DEF CallPlaces
  <2>3. caller' = [caller EXCEPT ![c] = k]
    BY <1>2 DEF BeginCall, Move
  <2>4. working' = working /\ endpoints' \in Lists /\ caller[c].at = "idle"
    BY <1>2 DEF BeginCall, PlainInv, In
  <2> HIDE DEF k
  <2>5. CallInv(k, endpoints', working')
    BY <2>1, <2>2, <2>4 DEF CallInv
  <2> QED
    BY <2>3, <2>4, <2>5, OneCall
<1>3. ASSUME NEW c \in Callers, LookupFails(c) PROVE PlainInv'
  <2> DEFINE k == [caller[c] EXCEPT !.at = "unlocated"]
  <2>1. CallInv(caller[c], endpoints, working) /\ caller[c] \in Calls
    BY DEF PlainInv
  <2>2. /\ k \in Calls /\ k.at = "unlocated" /\ k.given = caller[c].given
        /\ k.candidates = caller[c].candidates /\ k.index = caller[c].index
    BY <2>1, Moved DEF CallPlaces
  <2>3. caller' = [caller EXCEPT ![c] = k]
    BY <1>3 DEF LookupFails, Move
  <2>4. working' = working /\ endpoints' = endpoints /\ caller[c].at = "idle"
    BY <1>3 DEF LookupFails, In
  <2> HIDE DEF k
  <2>5. CallInv(k, endpoints', working')
    BY <2>1, <2>2, <2>4 DEF CallInv
  <2> QED
    BY <2>3, <2>4, <2>5, OneCall
<1>4. ASSUME NEW c \in Callers, CheckWorking(c) PROVE PlainInv'
  <2> DEFINE place == IF working \in ToSet(endpoints) THEN "others" ELSE "all"
  <2>0. place \in CallPlaces
    BY DEF CallPlaces
  <2> DEFINE k == [caller[c] EXCEPT !.at = place]
  <2>1. CallInv(caller[c], endpoints, working) /\ caller[c] \in Calls
    BY DEF PlainInv
  <2>2. /\ k \in Calls /\ k.at = place /\ k.given = caller[c].given
        /\ k.candidates = caller[c].candidates /\ k.index = caller[c].index
    BY <2>0, <2>1, Moved
  <2>3. caller' = [caller EXCEPT ![c] = k]
    BY <1>4 DEF CheckWorking, Move
  <2>4. working' = working /\ endpoints' = endpoints /\ caller[c].at = "check"
    BY <1>4 DEF CheckWorking, In
  <2> HIDE DEF k
  <2>5. endpoints \in Lists /\ caller[c].index = 0 /\ caller[c].candidates = <<>>
    BY <2>1, <2>4 DEF CallInv
  <2>6. place = "others" => working \in Answering
    BY <2>5, ListTyped DEF PlainInv
  <2>7. CallInv(k, endpoints', working')
    BY <2>2, <2>4, <2>5, <2>6, PlainAssumption DEF CallInv
  <2> QED
    BY <2>3, <2>4, <2>7, OneCall
<1>5. ASSUME NEW c \in Callers, TakeAll(c) PROVE PlainInv'
  <2>1. endpoints \in Lists /\ UNCHANGED <<endpoints, working>>
    BY <1>5 DEF PlainInv, CallInv, TakeAll, In
  <2>2. endpoints \in Seq(Addresses) /\ Len(endpoints) <= Len(endpoints) + 1
    BY <2>1, ListTyped
  <2>3. CallInv(Trial(endpoints, endpoints), endpoints', working')
    BY <2>1, <2>2, TrialInv
  <2>4. caller' = [caller EXCEPT ![c] = Trial(endpoints, endpoints)]
    BY <1>5 DEF TakeAll
  <2> QED
    BY <2>1, <2>3, <2>4, OneCall
<1>6. ASSUME NEW c \in Callers, TakeOthers(c) PROVE PlainInv'
  <2> DEFINE listed == IF caller[c].index = 0 THEN endpoints ELSE caller[c].given
             i == caller[c].index + 1
             cands == IF listed[i] # working THEN Append(caller[c].candidates, listed[i])
                      ELSE caller[c].candidates
             k == [caller[c] EXCEPT !.given = listed, !.index = i, !.candidates = cands]
  <2>1. /\ CallInv(caller[c], endpoints, working) /\ caller[c] \in Calls /\ caller[c].at = "others"
        /\ i <= Len(listed) /\ UNCHANGED <<endpoints, working>>
    BY <1>6 DEF TakeOthers, PlainInv, In
  <2>2. listed \in Lists /\ working \in Answering /\ Len(caller[c].candidates) <= caller[c].index
        /\ caller[c].index \in Nat /\ caller[c].candidates \in Seq(Addresses)
    BY <2>1 DEF CallInv, Calls
  <2>3. listed \in Seq(Addresses)
    BY <2>2, ListTyped
  <2>4. cands \in Seq(Addresses) /\ Len(cands) <= i
    BY <2>1, <2>2, <2>3
  <2>5. caller' = [caller EXCEPT ![c] = k]
    BY <1>6 DEF TakeOthers
  <2> HIDE DEF listed, i, cands
  <2>6. k \in Calls /\ k.at = "others" /\ k.given = listed /\ k.index = i /\ k.candidates = cands
    <3>1. i \in Nat
      BY <2>2 DEF i
    <3> QED
      BY <2>1, <2>3, <2>4, <3>1 DEF Calls
  <2> HIDE DEF k
  <2>7. CallInv(k, endpoints', working')
    <3>1. i > 0
      BY <2>2 DEF i
    <3>2. endpoints \in Lists
      BY <2>1 DEF CallInv
    <3> QED
      BY <2>1, <2>2, <2>4, <2>6, <3>1, <3>2 DEF CallInv
  <2> QED
    BY <2>1, <2>5, <2>6, <2>7, OneCall
<1>7. ASSUME NEW c \in Callers, PutFirst(c) PROVE PlainInv'
  <2> DEFINE g == caller[c].given
             s == <<working>> \o caller[c].candidates
  <2>1. /\ CallInv(caller[c], endpoints, working) /\ caller[c] \in Calls /\ caller[c].at = "others" /\ caller[c].index > 0
        /\ caller[c].index = Len(g) /\ UNCHANGED <<endpoints, working>>
    BY <1>7 DEF PutFirst, PlainInv, In
  <2>2. g \in Lists /\ working \in Answering /\ Len(caller[c].candidates) <= Len(g)
        /\ caller[c].candidates \in Seq(Addresses)
    BY <2>1 DEF CallInv, Calls
  <2>3. s \in Seq(Addresses) /\ Len(s) = Len(caller[c].candidates) + 1 /\ s[1] = working
    BY <2>2 DEF Addresses
  <2>4. Len(s) <= Len(g) + 1 /\ Len(s) > 0 /\ s[1] \in Answering
    BY <2>2, <2>3, ListTyped
  <2>5. caller' = [caller EXCEPT ![c] = Trial(g, s)]
    BY <1>7 DEF PutFirst
  <2> HIDE DEF g, s
  <2>6. CallInv(Trial(g, s), endpoints', working')
    BY <2>2, <2>3, <2>4, TrialInv
  <2> QED
    BY <2>1, <2>5, <2>6, OneCall
<1>8. ASSUME NEW c \in Callers, AskInVain(c) PROVE PlainInv'
  <2>1. CallInv(caller[c], endpoints, working) /\ caller[c] \in Calls /\ Trying(c) /\ UNCHANGED <<endpoints, working>>
    BY <1>8 DEF AskInVain, PlainInv
  <2>2. PICK spent \in {0, Budget(c)} :
           caller' = [caller EXCEPT ![c].index = caller[c].index + 1, ![c].remaining = caller[c].remaining - spent]
    BY <1>8 DEF AskInVain
  <2> DEFINE k == [caller[c] EXCEPT !.index = caller[c].index + 1, !.remaining = caller[c].remaining - spent]
  <2>3. caller' = [caller EXCEPT ![c] = k]
    BY <2>2
  <2>4. /\ Budget(c) \in Nat /\ Budget(c) <= caller[c].remaining
        /\ \A d \in Delays \cup {MinShare} :
              d <= Budget(c) /\ d * (Left(caller[c]) - 1) <= caller[c].remaining - Budget(c)
    BY <2>1, ShareOfBudget
  <2>5. Candidate(c) \notin Answering
    <3>1. \A d \in Delays : d \in Nat /\ d <= Budget(c)
      BY <2>4, PlainAssumption
    <3>2. ~\E d \in Delays : d > Budget(c)
      BY <2>4, <3>1
    <3> QED
      BY <1>8, <3>2 DEF AskInVain
  <2>6. /\ caller[c].index \in Nat \ {0} /\ caller[c].index <= Len(caller[c].candidates) /\ caller[c].remaining \in Nat
        /\ caller[c].candidates \in Seq(Addresses) /\ caller[c].at = "try"
    BY <2>1 DEF Trying, In, Calls, CallInv
  <2>7. caller[c].index + 1 \in Nat /\ caller[c].remaining - spent \in Nat
    BY <2>4, <2>6
  <2>8. /\ k \in Calls /\ k.at = "try" /\ k.given = caller[c].given /\ k.candidates = caller[c].candidates
        /\ k.index = caller[c].index + 1 /\ k.remaining = caller[c].remaining - spent
    BY <2>1, <2>6, <2>7 DEF Calls
  <2> HIDE DEF k
  <2>9. Left(k) = Left(caller[c]) - 1 /\ Left(caller[c]) \in Nat
    BY <2>6, <2>8 DEF Left
  <2>10. \A d \in Delays \cup {MinShare} : d * Left(k) <= k.remaining
    <3>1. ASSUME NEW d \in Delays \cup {MinShare} PROVE d * Left(k) <= k.remaining
      <4>1. d * Left(k) <= caller[c].remaining - Budget(c)
        BY <2>4, <2>9
      <4>2. d * Left(k) \in Int
        <5>1. d \in Int /\ Left(k) \in Int
          BY <2>9, PlainAssumption
        <5> QED
          BY <5>1
      <4> DEFINE x == d * Left(k)
      <4>3. x \in Int /\ x <= caller[c].remaining - Budget(c)
        BY <4>1, <4>2
      <4> HIDE DEF x
      <4>4. x <= k.remaining
        BY <2>4, <2>6, <2>8, <4>3
      <4> QED
        BY <4>4 DEF x
    <3> QED
      BY <3>1
  <2>11. \A j \in 1..Len(k.candidates) : j < k.index => k.candidates[j] \notin Answering
    <3>1. ASSUME NEW j \in 1..Len(k.candidates), j < k.index PROVE k.candidates[j] \notin Answering
      <4>1. CASE j = caller[c].index
        BY <2>5, <2>8, <4>1 DEF Candidate
      <4>2. CASE j < caller[c].index
        <5>1. \A i \in 1..Len(caller[c].candidates) :
                 i < caller[c].index => caller[c].candidates[i] \notin Answering
          BY <2>1, <2>6 DEF CallInv
        <5> QED
          BY <2>8, <3>1, <4>2, <5>1
      <4> QED
        BY <2>6, <2>8, <3>1, <4>1, <4>2
    <3> QED
      BY <3>1
  <2>12. CallInv(k, endpoints', working')
    <3>1. k.candidates = k.given \/ (Len(k.candidates) > 0 /\ k.candidates[1] \in Answering)
      BY <2>1, <2>6, <2>8 DEF CallInv
    <3>2. k.index > 0 /\ k.index <= Len(k.candidates) + 1
      BY <2>6, <2>8
    <3> QED
      BY <2>6, <2>8, <2>10, <2>11, <3>1, <3>2 DEF CallInv, Left
  <2> QED
    BY <2>1, <2>3, <2>8, <2>12, OneCall
<1>9. ASSUME NEW c \in Callers, AskAnswered(c) PROVE PlainInv'
  <2>0. PICK outcome \in {"answered", "malformed", "tcp failed"} : Move(c, outcome)
    BY <1>9 DEF AskAnswered
  <2> DEFINE k == [caller[c] EXCEPT !.at = outcome]
  <2>6. outcome \in CallPlaces
    BY DEF CallPlaces
  <2>7. outcome \notin {"check", "all", "others", "try", "timed out", "idle"}
    OBVIOUS
  <2>1. CallInv(caller[c], endpoints, working) /\ caller[c] \in Calls
    BY DEF PlainInv
  <2>2. /\ k \in Calls /\ k.at = outcome /\ k.given = caller[c].given
        /\ k.candidates = caller[c].candidates /\ k.index = caller[c].index
    BY <2>1, <2>6, Moved
  <2>3. caller' = [caller EXCEPT ![c] = k]
    BY <2>0 DEF Move
  <2>4. working' \in Answering /\ endpoints' = endpoints /\ caller[c].at = "try"
    BY <1>9 DEF AskAnswered, Trying, In
  <2> HIDE DEF k
  <2>5. CallInv(k, endpoints', working')
    <3>1. caller[c].index \in Nat \ {0}
      BY <2>1, <2>4 DEF CallInv
    <3> QED
      BY <2>2, <2>7, <3>1, EndedInv
  <2> QED
    BY <2>3, <2>4, <2>5, OneCall
<1>10. ASSUME NEW c \in Callers, AllInVain(c) PROVE PlainInv'
  <2>1. CallInv(caller[c], endpoints, working) /\ caller[c] \in Calls /\ caller[c].at = "try" /\ ~Trying(c)
    BY <1>10 DEF AllInVain, PlainInv, In
  <2>2. /\ caller[c].index \in Nat \ {0} /\ caller[c].remaining \in Nat
        /\ caller[c].candidates \in Seq(Addresses) /\ MinShare \in Nat \ {0}
        /\ caller[c].index <= Len(caller[c].candidates) + 1
        /\ MinShare * Left(caller[c]) <= caller[c].remaining
    BY <2>1, PlainAssumption DEF Calls, CallInv
  <2>3. caller[c].index = Len(caller[c].candidates) + 1
    <3>1. SUFFICES ASSUME caller[c].index <= Len(caller[c].candidates) PROVE FALSE
      BY <2>2
    <3>2. caller[c].remaining = 0
      BY <2>1, <2>2, <3>1 DEF Trying, In
    <3>3. Left(caller[c]) \in Nat /\ Left(caller[c]) >= 1
      BY <2>2, <3>1 DEF Left
    <3>4. MinShare * Left(caller[c]) >= 1
      <4> DEFINE l == Left(caller[c])
      <4> HIDE DEF l
      <4>1. l \in Nat /\ l >= 1
        BY <3>3 DEF l
      <4>2. MinShare * l >= 1
        BY <2>2, <4>1, SMT
      <4> QED
        BY <4>2 DEF l
    <3> QED
      <4> DEFINE x == MinShare * Left(caller[c])
      <4>1. x >= 1 /\ x <= 0 /\ x \in Int
        BY <2>2, <3>2, <3>3, <3>4
      <4> HIDE DEF x
      <4> QED
        BY <4>1
  <2>4. \A j \in 1..Len(caller[c].candidates) : caller[c].candidates[j] \notin Answering
    BY <2>1, <2>2, <2>3 DEF CallInv
  <2>5. caller[c].candidates = caller[c].given
    BY <2>1, <2>2, <2>4 DEF CallInv
  <2>6. ToSet(caller[c].given) \cap Answering = {}
    BY <2>2, <2>4, <2>5 DEF ToSet
  <2> DEFINE k == [caller[c] EXCEPT !.at = "timed out"]
  <2>7. /\ k \in Calls /\ k.at = "timed out" /\ k.given = caller[c].given /\ k.index = caller[c].index
    BY <2>1, Moved DEF CallPlaces
  <2>8. caller' = [caller EXCEPT ![c] = k] /\ UNCHANGED <<endpoints, working>>
    BY <1>10 DEF AllInVain, Move
  <2> HIDE DEF k
  <2>9. CallInv(k, endpoints', working')
    BY <2>2, <2>6, <2>7 DEF CallInv
  <2> QED
    BY <2>8, <2>9, OneCall
<1>11. ASSUME NEW c \in Callers, EndCall(c) PROVE PlainInv'
  <2>1. NoCall \in Calls /\ CallInv(NoCall, endpoints', working')
    BY DEF NoCall, Calls, CallPlaces, CallInv
  <2> QED
    BY <1>11, <2>1, OneCall DEF EndCall
<1> QED
  BY <1>1, <1>2, <1>3, <1>4, <1>5, <1>6, <1>7, <1>8, <1>9, <1>10, <1>11 DEF PlainNext

\* A call of PlainUpstream.resolve() that runs out of addresses or time had no
\* address with a resolver behind it in its list, for any number of threads, any
\* lists and any delays that satisfy PlainAssumption.
THEOREM AnsweringAlwaysFound == PlainSpec => []AnsweringAddressFound
<1>1. PlainInit => PlainInv
  <2> SUFFICES ASSUME PlainInit PROVE PlainInv
    OBVIOUS
  <2>1. CallInv(NoCall, endpoints, working)
    BY DEF NoCall, Calls, CallPlaces, CallInv
  <2>2. NoCall \in Calls
    BY <2>1 DEF CallInv
  <2> HIDE DEF NoCall
  <2> QED
    BY <2>1, <2>2 DEF PlainInit, PlainInv
<1>2. PlainInv /\ [PlainNext]_plainVars => PlainInv'
  <2>1. ASSUME PlainInv, UNCHANGED plainVars PROVE PlainInv'
    BY <2>1 DEF plainVars, PlainInv, CallInv, Left
  <2> QED
    BY <2>1, PlainStep
<1>3. PlainInv => AnsweringAddressFound
  BY DEF PlainInv, CallInv, AnsweringAddressFound, In
<1> QED
  BY <1>1, <1>2, <1>3, PTL DEF PlainSpec
===============================================================================
