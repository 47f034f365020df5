--------------------------------- MODULE Vault ---------------------------------
(***************************************************************************)
(* The sealed VPN state: symbivpn/vault.py (the state key, pairing it to a *)
(* connector device, sealed files), symbivpn/vpn/wireguard.py (PeerStore   *)
(* and WireGuardManager) and the two programs that use them, the service   *)
(* (app.py, api.py) and the command line (cli.py).                         *)
(*                                                                         *)
(* The service reads the store once, when it starts; every command line    *)
(* call reads it anew.  Both write it back whole, through a temporary file *)
(* and without a lock.  A store in the clear has a temporary file of its   *)
(* own; that makes a difference only to two saves at once, which count as  *)
(* crossed.  Either program may be killed between any two steps.  The      *)
(* dashboard serves one request at a time here, and the user runs one      *)
(* command at a time.                                                      *)
(*                                                                         *)
(* What the user is told to do is assumed: the key is exported before it   *)
(* is paired away, and only once the store is sealed (`key status`).       *)
(*                                                                         *)
(* Bounds: MaxCommands commands, MaxKills programs killed; a name is given *)
(* to a peer once.                                                         *)
(***************************************************************************)
EXTENDS Integers, FiniteSets, FiniteSetsExt

CONSTANTS
    Names,        \* names of peers
    MaxHost,      \* the subnet's hosts are 1..MaxHost; the server is host 0
    Nothing,      \* no file, no key
    MaxCommands,  \* bound on commands and requests
    MaxKills      \* bound on programs killed

ASSUME HostsAssumption == MaxHost \in Nat /\ IsFiniteSet(Names) /\ Cardinality(Names) <= MaxHost

\* The state key, one made after it was paired away, and the random bytes
\* pair() writes over it.
Keys == {"key", "second", "junk"}

\* A file cut short, or written by two programs at once.
Torn == "torn"

Programs == {"service", "cli"}

\* Which host each peer has; host 0 stands for no such peer.
Peers == [Names -> 0..MaxHost]
Empty == [n \in Names |-> 0]
Known(peers) == {n \in Names : peers[n] # 0}

VARIABLES
    keyfile,    \* state.key
    marker,     \* state.paired exists
    bundle,     \* the exported key
    file,       \* peers.json: form, key it is sealed with, peers
    tmp,        \* the temporary file beside it
    fd,         \* where each program's open descriptor leads
    mem,        \* each program's PeerStore
    pc, task,   \* what each program is doing
    live,       \* the peers of the WireGuard interface
    given,      \* names that some peer has, or had
    promised,   \* history: peers somebody was told were added
    revoked,    \* history: peers somebody was told were removed, reload included
    crossed,    \* history: a program saved or applied a store that another had
                \* replaced since it was read, or made a key after another had
    commands,   \* commands and requests so far
    kills       \* programs killed so far

key == <<keyfile, marker, bundle>>
disk == <<file, tmp, fd>>
history == <<given, promised, revoked, crossed>>
vars == <<key, disk, mem, pc, task, live, history, commands, kills>>

Stores == [form : {"plain", "sealed", Torn}, key : Keys \cup {Nothing}, peers : Peers]

ASSUME NothingAssumption == Nothing \notin Keys \cup {Torn, "tmp", "file", "gone"} \cup Stores \cup Names

Store(form, k, peers) == [form |-> form, key |-> k, peers |-> peers]
NoStore == Store(Torn, Nothing, Empty)

Blank == [key |-> Nothing, locked |-> FALSE, peers |-> Empty, read |-> NoStore]
Idle == [kind |-> "none", name |-> Nothing]
Resting == [service |-> "down", cli |-> "idle"]

\* The installation has a sealed store, or one from before there was a key.
Init ==
    /\ \E peers \in [Names -> 0..1] :
          /\ Cardinality(Known(peers)) = 1
          /\ promised = Known(peers) /\ given = promised /\ live = peers
          /\ \/ keyfile = "key" /\ file = Store("sealed", "key", peers)
             \/ keyfile = Nothing /\ file = Store("plain", Nothing, peers)
    /\ marker = FALSE /\ bundle = Nothing
    /\ tmp = Nothing /\ fd = [p \in Programs |-> Nothing]
    /\ mem = [p \in Programs |-> Blank]
    /\ pc = Resting /\ task = [p \in Programs |-> Idle]
    /\ revoked = {} /\ crossed = FALSE
    /\ commands = 0 /\ kills = 0

Goto(p, from, to) == pc[p] = from /\ pc' = [pc EXCEPT ![p] = to]
Set(p, field, value) == mem' = [mem EXCEPT ![p][field] = value]

\* The command or request is over.  The service keeps its store.
Over(p) ==
    /\ pc' = [pc EXCEPT ![p] = IF p = "cli" THEN "idle" ELSE "up"]
    /\ task' = [task EXCEPT ![p] = Idle]
    /\ mem' = IF p = "cli" THEN [mem EXCEPT !["cli"] = Blank] ELSE mem

-------------------------------------------------------------------------------
(* Commands and requests *)

\* The user starts a command.
Command(kind, name, to) ==
    /\ commands < MaxCommands /\ commands' = commands + 1
    /\ Goto("cli", "idle", to)
    /\ task' = [task EXCEPT !["cli"] = [kind |-> kind, name |-> name]]
    /\ UNCHANGED <<key, disk, mem, live, history, kills>>

\* `vpn add-peer`, `vpn remove`, `vpn init` and `vpn init --force`.
CommandVpn ==
    \/ \E kind \in {"add", "remove"}, n \in Names : Command(kind, n, "key")
    \/ \E kind \in {"init", "force"} : Command(kind, Nothing, "key")

\* `key export`, `key pair` and `key restore`.
CommandKey ==
    \/ ~marker /\ Command("export", Nothing, "key")
    \/ /\ ~marker /\ bundle \in Keys /\ file.form = "sealed"
       /\ Command("pair", Nothing, "mark")
    \/ bundle \in Keys /\ Command("restore", Nothing, "truncate")

\* A request to the dashboard: _post_peer() or do_DELETE().
Request ==
    /\ commands < MaxCommands /\ commands' = commands + 1
    /\ Goto("service", "up", "change")
    /\ \E kind \in {"add", "remove"}, n \in Names :
          task' = [task EXCEPT !["service"] = [kind |-> kind, name |-> n]]
    /\ UNCHANGED <<key, disk, mem, live, history, kills>>

\* The service is started by hand or by its supervisor.
ServiceStart ==
    /\ Goto("service", "down", "key")
    /\ UNCHANGED <<key, disk, mem, task, live, history, commands, kills>>

\* A program is killed, or the service is stopped.  What it had open is gone.
Kill(p) ==
    /\ kills < MaxKills /\ kills' = kills + 1
    /\ pc[p] # Resting[p]
    /\ pc' = [pc EXCEPT ![p] = Resting[p]]
    /\ task' = [task EXCEPT ![p] = Idle]
    /\ mem' = [mem EXCEPT ![p] = Blank]
    /\ fd' = [fd EXCEPT ![p] = Nothing]
    /\ UNCHANGED <<key, file, tmp, live, history, commands>>

-------------------------------------------------------------------------------
(* The state key *)

\* What comes after local_key(); whoever gets no key goes on without one, as
\* _state_key() does, but there is nothing to export then.
KeyRead(p, k) ==
    IF task[p].kind # "export"
    THEN Goto(p, pc[p], "load") /\ Set(p, "key", k) /\ UNCHANGED task
    ELSE IF k = Nothing THEN Over(p)
    ELSE Goto(p, pc[p], "export") /\ Set(p, "key", k) /\ UNCHANGED task

\* local_key(): the key there is; no key, if it was paired away or the file
\* is cut short; or else a new one, if nobody makes one meanwhile.  Between
\* the look and the making, the other program may have made a key, exported
\* it and paired it away: only then is the marker there, and this key is a
\* second one.
LocalKey(p) ==
    /\ \/ /\ pc[p] = "key"
          /\ \/ keyfile \in Keys /\ KeyRead(p, keyfile)
             \/ keyfile = Torn /\ KeyRead(p, Nothing)
             \/ keyfile = Nothing /\ marker /\ KeyRead(p, Nothing)
             \/ /\ keyfile = Nothing /\ ~marker
                /\ Goto(p, "key", "make") /\ UNCHANGED <<mem, task>>
          /\ UNCHANGED <<keyfile, crossed>>
       \/ /\ pc[p] = "make" /\ keyfile = Nothing
          /\ keyfile' = Torn
          /\ Goto(p, "make", IF marker THEN "fill anew" ELSE "fill")
          /\ crossed' = (crossed \/ marker) /\ UNCHANGED <<mem, task>>
       \/ /\ pc[p] = "make" /\ keyfile # Nothing
          /\ KeyRead(p, Nothing) /\ UNCHANGED <<keyfile, crossed>>
       \/ /\ pc[p] \in {"fill", "fill anew"}
          /\ keyfile' = IF pc[p] = "fill" THEN "key" ELSE "second"
          /\ KeyRead(p, keyfile') /\ UNCHANGED crossed
    /\ UNCHANGED <<marker, bundle, disk, live, given, promised, revoked, commands, kills>>

\* command_key(), export: the bundle is written in place.
ExportKey ==
    /\ \/ /\ Goto("cli", "export", "exported")
          /\ bundle' = Torn /\ UNCHANGED <<task, mem>>
       \/ /\ pc["cli"] = "exported"
          /\ bundle' = mem["cli"].key /\ Over("cli")
    /\ UNCHANGED <<keyfile, marker, disk, live, history, commands, kills>>

\* Mutant: the marker is written last.
PairLate ==
    /\ \/ Goto("cli", "mark", "shred") /\ UNCHANGED <<marker, keyfile, task, mem>>
       \/ /\ Goto("cli", "shred", "unlink") /\ keyfile # Nothing
          /\ keyfile' = "junk" /\ UNCHANGED <<marker, task, mem>>
       \/ /\ pc["cli"] = "shred" /\ keyfile = Nothing /\ Over("cli")
          /\ UNCHANGED <<keyfile, marker>>
       \/ /\ pc["cli"] = "unlink" /\ keyfile' = Nothing /\ marker' = TRUE
          /\ Over("cli")
    /\ UNCHANGED <<bundle, disk, live, history, commands, kills>>

\* pair(): the marker, random bytes over the key, and the key is gone.
Pair ==
    /\ \/ /\ Goto("cli", "mark", "shred")
          /\ marker' = TRUE /\ UNCHANGED <<keyfile, task, mem>>
       \/ /\ Goto("cli", "shred", "unlink") /\ keyfile # Nothing
          /\ keyfile' = "junk" /\ UNCHANGED <<marker, task, mem>>
       \/ /\ pc["cli"] = "shred" /\ keyfile = Nothing /\ Over("cli")
          /\ UNCHANGED <<keyfile, marker>>
       \/ /\ pc["cli"] = "unlink" /\ keyfile' = Nothing /\ Over("cli")
          /\ UNCHANGED marker
    /\ UNCHANGED <<bundle, disk, live, history, commands, kills>>

\* unpair(): the key file is emptied and filled, and the marker goes.
Unpair ==
    /\ \/ /\ Goto("cli", "truncate", "refill")
          /\ keyfile' = Torn /\ UNCHANGED <<marker, task, mem>>
       \/ /\ Goto("cli", "refill", "unmark")
          /\ keyfile' = bundle /\ UNCHANGED <<marker, task, mem>>
       \/ /\ pc["cli"] = "unmark" /\ marker' = FALSE /\ Over("cli")
          /\ UNCHANGED keyfile
    /\ UNCHANGED <<bundle, disk, live, history, commands, kills>>

-------------------------------------------------------------------------------
(* PeerStore.load() and unlock() *)

Opens(k) == file.form = "plain" \/ (file.form = "sealed" /\ file.key = k)

Loaded(k) == [key |-> k, locked |-> FALSE, peers |-> file.peers, read |-> file]

\* The store's contents, or a locked store without its key; what cannot be
\* decrypted ends the program.
Load(p) ==
    /\ pc[p] = "load"
    /\ \/ /\ Opens(mem[p].key)
          /\ mem' = [mem EXCEPT ![p] = Loaded(mem[p].key)]
          /\ Goto(p, "load", IF p = "cli" THEN "change" ELSE "up") /\ UNCHANGED task
       \/ /\ file.form = "sealed" /\ mem[p].key = Nothing
          /\ mem' = [mem EXCEPT ![p].locked = TRUE, ![p].read = file]
          /\ Goto(p, "load", IF p = "cli" THEN "change" ELSE "up") /\ UNCHANGED task
       \/ /\ ~Opens(mem[p].key) /\ ~(file.form = "sealed" /\ mem[p].key = Nothing)
          /\ pc' = [pc EXCEPT ![p] = Resting[p]]
          /\ task' = [task EXCEPT ![p] = Idle] /\ mem' = [mem EXCEPT ![p] = Blank]
    /\ UNCHANGED <<key, disk, live, history, commands, kills>>

\* _post_unlock(), from the connector's copy of the key or with a wrong one.
\* A key that does not open the store leaves it locked.
Unlock ==
    /\ pc["service"] = "up" /\ mem["service"].locked
    /\ commands < MaxCommands /\ commands' = commands + 1
    /\ \E k \in {bundle, "junk"} \cap Keys :
          mem' = [mem EXCEPT !["service"] = IF Opens(k) THEN Loaded(k) ELSE @]
    /\ UNCHANGED <<key, disk, pc, task, live, history, kills>>

-------------------------------------------------------------------------------
(* WireGuardManager, and PeerStore.save() *)

Free(peers) == 1..MaxHost \ {peers[n] : n \in Names}

\* add_peer(), remove_peer() and initialise_server(), up to their save().
\* Without a server, that is with a locked store, no peer can be added, and
\* none is known; a new server can be made.
Changed(p, peers) ==
    \/ /\ task[p].kind = "add" /\ ~mem[p].locked
       /\ mem[p].peers[task[p].name] = 0 /\ task[p].name \notin given
       /\ Free(mem[p].peers) # {}
       /\ peers = [mem[p].peers EXCEPT ![task[p].name] = Min(Free(mem[p].peers))]
    \/ /\ task[p].kind = "remove" /\ mem[p].peers[task[p].name] # 0
       /\ peers = [mem[p].peers EXCEPT ![task[p].name] = 0]
    \/ task[p].kind = "init" /\ peers = mem[p].peers
    \/ task[p].kind = "force" /\ peers = Empty

\* Peers the change is meant to be the end of.
Ended(p) ==
    CASE task[p].kind = "remove" -> {task[p].name}
      [] task[p].kind = "force" /\ ~mem[p].locked -> Names
      [] OTHER -> {}

\* Mutant: a removal is not saved.
ChangeUnsaved(p) ==
    /\ \E peers \in Peers :
          /\ Changed(p, peers) /\ Set(p, "peers", peers)
          /\ Goto(p, "change", IF task[p].kind = "remove" THEN "apply" ELSE "save")
          /\ promised' = promised \ Ended(p) /\ given' = given \cup Known(peers)
          /\ UNCHANGED task
    /\ UNCHANGED <<key, disk, live, revoked, crossed, commands, kills>>

\* The change in memory, or the refusal.
Change(p) ==
    /\ \/ \E peers \in Peers :
             /\ Changed(p, peers) /\ Set(p, "peers", peers)
             /\ Goto(p, "change", "save")
             /\ promised' = promised \ Ended(p) /\ given' = given \cup Known(peers)
             /\ UNCHANGED task
       \/ /\ pc[p] = "change" /\ ~\E peers \in Peers : Changed(p, peers)
          /\ Over(p) /\ UNCHANGED <<given, promised>>
    /\ UNCHANGED <<key, disk, live, revoked, crossed, commands, kills>>

Other(p) == CHOOSE q \in Programs : q # p
Saving(p) == pc[p] \in {"write", "replace"}

\* Mutant: a locked store is written like any other.
SaveOpenAlways(p) ==
    /\ Goto(p, "save", "write")
    /\ tmp' = NoStore
    /\ fd' = [fd EXCEPT ![p] = "tmp"]
    /\ crossed' = (crossed \/ mem[p].read # file \/ Saving(Other(p)))
    /\ UNCHANGED <<key, file, mem, task, given, live, promised, revoked, commands, kills>>

\* save(): never of a locked store.  The temporary file is opened and
\* emptied.
SaveOpen(p) ==
    /\ \/ /\ ~mem[p].locked
          /\ Goto(p, "save", "write")
          /\ tmp' = NoStore
          /\ fd' = [fd EXCEPT ![p] = "tmp"]
          /\ crossed' = (crossed \/ mem[p].read # file \/ Saving(Other(p)))
          /\ UNCHANGED <<mem, task>>
       \/ /\ pc[p] = "save" /\ mem[p].locked
          /\ Over(p) /\ UNCHANGED <<tmp, fd, crossed>>
    /\ UNCHANGED <<key, file, given, live, promised, revoked, commands, kills>>

Body(p) == IF mem[p].key = Nothing THEN Store("plain", Nothing, mem[p].peers)
           ELSE Store("sealed", mem[p].key, mem[p].peers)

\* One store on top of another: the longer one's end shows.
Overlay(old, new) == {new} \cup IF old = NoStore THEN {} ELSE {NoStore}

\* The store goes where the descriptor leads: the temporary file, or the
\* store itself if the other program has renamed it meanwhile.
SaveWrite(p) ==
    /\ Goto(p, "write", "replace")
    /\ \/ fd[p] = "tmp" /\ tmp' \in Overlay(tmp, Body(p)) /\ UNCHANGED file
       \/ fd[p] = "file" /\ file' \in Overlay(file, Body(p)) /\ UNCHANGED tmp
       \/ fd[p] = "gone" /\ UNCHANGED <<file, tmp>>
    /\ fd' = [fd EXCEPT ![p] = Nothing]
    /\ UNCHANGED <<key, mem, task, live, history, commands, kills>>

\* The rename, which fails if the other program has done it.
SaveReplace(p) ==
    /\ \/ /\ tmp # Nothing
          /\ file' = tmp /\ tmp' = Nothing
          /\ fd' = [q \in Programs |-> IF fd[q] = "tmp" THEN "file"
                                       ELSE IF fd[q] = "file" THEN "gone" ELSE fd[q]]
          /\ Set(p, "read", Body(p))
          /\ Goto(p, "replace", "apply") /\ UNCHANGED task
          /\ promised' = promised \cup IF task[p].kind = "add" THEN {task[p].name} ELSE {}
       \/ /\ pc[p] = "replace" /\ tmp = Nothing
          /\ Over(p) /\ UNCHANGED <<disk, promised>>
    /\ UNCHANGED <<key, live, given, revoked, crossed, commands, kills>>

\* apply(), which init leaves to its user: the interface gets the peers of
\* the store, or it is not there or fails, and nobody minds.  The answer.
Apply(p) ==
    /\ pc[p] = "apply"
    /\ \E reloaded \in BOOLEAN :
          /\ task[p].kind \in {"init", "force"} => ~reloaded
          /\ live' = IF reloaded THEN mem[p].peers ELSE live
          /\ revoked' = revoked \cup (IF reloaded /\ task[p].kind = "remove" THEN {task[p].name} ELSE {})
          /\ crossed' = (crossed \/ (reloaded /\ mem[p].read # file))
    /\ Over(p)
    /\ UNCHANGED <<key, disk, given, promised, commands, kills>>

-------------------------------------------------------------------------------
Step(p) ==
    \/ LocalKey(p) \/ Load(p) \/ Change(p)
    \/ SaveOpen(p) \/ SaveWrite(p) \/ SaveReplace(p) \/ Apply(p)

Next ==
    \/ CommandVpn \/ CommandKey \/ Request \/ ServiceStart \/ Unlock
    \/ ExportKey \/ Pair \/ Unpair
    \/ \E p \in Programs : Step(p) \/ Kill(p)

Spec == Init /\ [][Next]_vars

TypeOK ==
    /\ keyfile \in Keys \cup {Nothing, Torn} /\ bundle \in Keys \cup {Nothing, Torn}
    /\ file.form \in {"plain", "sealed", Torn} /\ file.peers \in Peers
    /\ live \in Peers /\ promised \subseteq Names /\ revoked \subseteq Names

-------------------------------------------------------------------------------
(* Properties *)

Within == {keyfile, bundle, mem["service"].key}

\* No program killed half way through pairing, restoring, exporting or
\* saving costs anybody their peers: the store is whole, a key that opens it
\* is on the machine, on the connector or in the running service
\* (vault.py:274), and every peer somebody was told was added is in it --
\* unless a program saved a store another had replaced meanwhile, or made a
\* second key after another had paired its own away.
StoreSurvives ==
    ~crossed =>
        /\ file.form = "plain" \/ (file.form = "sealed" /\ file.key \in Within)
        /\ promised \subseteq Known(file.peers)

\* A sealed store is never written in the clear again, paired or not and
\* whatever became of the key file (wireguard.py:254) -- with the same reserve.
SealedStays == [][file.form = "sealed" /\ ~crossed' => file'.form # "plain"]_vars

\* A peer that was removed, and the interface reloaded, stays out: neither
\* the store nor the interface knows it again (wireguard.py:419).
RevokedStaysOut ==
    ~crossed => revoked \cap (Known(file.peers) \cup Known(live)) = {}
===============================================================================
