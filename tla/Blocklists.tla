------------------------------ MODULE Blocklists ------------------------------
(***************************************************************************)
(* symbivpn/blocklist.py, class BlocklistManager, with the parts of        *)
(* symbivpn/app.py that drive it: the rule sets the server filters by, how *)
(* they are rebuilt from downloaded lists and local rules while it runs,   *)
(* and how the dashboard edits them.                                       *)
(*                                                                         *)
(* Nothing here holds a lock.  A rebuild runs in the maintenance thread or *)
(* in a dashboard request, edits run in dashboard requests, and the        *)
(* process may die at any step; each file access and each assignment that  *)
(* another thread can see is a step.                                       *)
(*                                                                         *)
(* The text of a list is the rules it spells out.  A rule is a domain and  *)
(* covers the names below it; regexes are rules like any other.            *)
(***************************************************************************)
EXTENDS Integers, FiniteSets

CONSTANTS
    Domains,      \* names and rules alike
    Under,        \* Under[d]: the names a rule for d covers, d included
    Sources,      \* the downloaded lists (http and https URLs)
    Texts,        \* what they may serve: block rules and @@ exceptions
    NoText,
    Baseline,     \* below this many rules a list is not judged (1000)
    Threshold,    \* collapse_threshold, in percent
    TrustAllow,   \* trust_remote_allow_rules
    ConfigBlock, ConfigAllow,  \* rules of the configuration file
    Editable,     \* domains the dashboard edits rules for
    Loaders,      \* threads that rebuild the rules
    Editors,      \* dashboard requests that edit them
    MaxEdits, MaxChanges       \* bounds on edits and on outside events, for TLC

Rules == [block : SUBSET Domains, allow : SUBSET Domains]

ASSUME DomainsAssumption ==
    /\ Under \in [Domains -> SUBSET Domains] /\ \A d \in Domains : d \in Under[d]
    /\ ConfigBlock \subseteq Domains /\ ConfigAllow \subseteq Domains
    /\ Editable \subseteq Domains
ASSUME TextsAssumption ==
    /\ Texts \subseteq Rules /\ NoText \notin Texts
    /\ TrustAllow \in BOOLEAN
    /\ Baseline \in Nat /\ Threshold \in Nat
    /\ MaxEdits \in Nat /\ MaxChanges \in Nat

VARIABLES
    remote,      \* what each source serves now; NoText when out of reach
    tag,         \* validators.json: the version each list was last fetched in
    copy,        \* the cached copy of each list
    counts,      \* self._rule_counts
    savedCounts, \* rule-counts.json
    rules,       \* the local rules file
    block,       \* self.block, the rules in force
    allow,       \* self.allow
    phase,       \* "down", "loading" or "serving"
    loader,      \* where each rebuild is
    editor,      \* where each edit is
    edits,       \* edits so far
    changes,     \* outside events so far
    force,       \* history: the text of each source in force
    once,        \* history: the sources that were ever in force
    overlap      \* history: an edit ran beside a rebuild or another edit

disk == <<tag, copy, savedCounts, rules>>
ruleVars == <<remote, disk, counts, block, allow, phase, loader, editor, edits, changes,
              force, once, overlap>>

Text0 == Texts \cup {NoText}

Loading == [pc : {"idle", "read", "tag", "copy", "judge", "allow", "counts", "flush"},
            refresh : BOOLEAN,            \* the argument of load()
            local : Rules,                \* what _read_local_rules() returned
            left : SUBSET Sources,        \* the sources still to read
            at : Sources, text : Text0,   \* the one being read, and its text
            texts : [Sources -> Text0],   \* the texts merged so far
            need : SUBSET Sources]        \* history: in force when it began

Editing == [pc : {"idle", "write", "apply", "drop", "flush"},
            domain : Domains, allow : BOOLEAN, rules : Rules]

RulesTypeOK ==
    /\ remote \in [Sources -> Text0]
    /\ tag \in [Sources -> Text0]
    /\ copy \in [Sources -> Text0]
    /\ counts \in [Sources -> Nat]
    /\ savedCounts \in [Sources -> Nat]
    /\ rules \in Rules
    /\ block \in SUBSET Domains
    /\ allow \in SUBSET Domains
    /\ phase \in {"down", "loading", "serving"}
    /\ loader \in [Loaders -> Loading]
    /\ editor \in [Editors -> Editing]
    /\ edits \in 0..MaxEdits
    /\ changes \in 0..MaxChanges
    /\ force \in [Sources -> Text0]
    /\ once \in SUBSET Sources
    /\ overlap \in BOOLEAN

NoRules == [block |-> {}, allow |-> {}]
Nowhere == [u \in Sources |-> NoText]

NotLoading == [pc |-> "idle", refresh |-> FALSE, local |-> NoRules, left |-> {},
               at |-> CHOOSE u \in Sources : TRUE, text |-> NoText, texts |-> Nowhere, need |-> {}]
NotEditing == [pc |-> "idle", domain |-> CHOOSE d \in Domains : TRUE, allow |-> FALSE,
               rules |-> NoRules]

\* A first start: nothing on disk, nothing in memory.
RulesInit ==
    /\ remote \in [Sources -> Text0]
    /\ tag = Nowhere /\ copy = Nowhere
    /\ counts = [u \in Sources |-> 0] /\ savedCounts = counts
    /\ rules = NoRules
    /\ block = {} /\ allow = {}
    /\ phase = "down"
    /\ loader = [l \in Loaders |-> NotLoading]
    /\ editor = [e \in Editors |-> NotEditing]
    /\ edits = 0 /\ changes = 0
    /\ force = Nowhere /\ once = {} /\ overlap = FALSE

(***************************************************************************)
(* Matching and parsing.                                                   *)
(***************************************************************************)
\* DomainSet.match: the name itself, or one of its parents, has a rule.
Match(set, name) == \E d \in set : name \in Under[d]

\* parse_rules: an exception in a download is only honoured when trusted.
Parsed(text) ==
    [block |-> text.block, allow |-> IF TrustAllow THEN text.allow ELSE {}]

Produced(text) == Cardinality(Parsed(text).block) + Cardinality(Parsed(text).allow)

HasCollapsed(produced, previous) ==
    previous >= Baseline /\ produced * 100 < previous * Threshold

(***************************************************************************)
(* load_blocklists() and BlocklistManager.load().                          *)
(***************************************************************************)
Busy == (\E l \in Loaders : loader[l].pc # "idle") \/ (\E e \in Editors : editor[e].pc # "idle")

\* The rebuild of the start-up, or one of the maintenance thread or dashboard.
BeginLoad(l, refresh) ==
    /\ loader[l].pc = "idle"
    /\ \/ phase = "down"
       \/ phase = "serving" /\ refresh
    /\ phase' = IF phase = "down" THEN "loading" ELSE phase
    /\ loader' = [loader EXCEPT ![l] = [NotLoading EXCEPT !.pc = "read", !.refresh = refresh,
                                            !.local = rules, !.left = Sources, !.need = once]]
    /\ overlap' = (overlap \/ \E e \in Editors : editor[e].pc # "idle")
    /\ UNCHANGED <<remote, disk, counts, block, allow, editor, edits, changes, force, once>>

\* Mutant: a failed download is an error even when there is a copy.
CopyServesOnlyFresh(l, u) ==
    /\ copy[u] # NoText
    /\ \/ ~loader[l].refresh
       \/ remote[u] # NoText /\ remote[u] = tag[u]

\* _read_source without a download: a copy younger than max_age, unless a
\* refresh was asked for; one that the source says is current (304); any copy
\* when the download fails.  Every copy may be young, and every copy old.
CopyServes(l, u) ==
    /\ copy[u] # NoText
    /\ \/ ~loader[l].refresh
       \/ remote[u] = NoText
       \/ remote[u] = tag[u]

ReadCopy(l, u) ==
    /\ loader[l].pc = "read" /\ u \in loader[l].left
    /\ CopyServes(l, u)
    /\ loader' = [loader EXCEPT ![l].pc = "judge", ![l].at = u, ![l].text = copy[u]]
    /\ UNCHANGED <<remote, disk, counts, block, allow, phase, editor, edits, changes, force,
                   once, overlap>>

Download(l, u) ==
    /\ loader[l].pc = "read" /\ u \in loader[l].left
    /\ remote[u] # NoText /\ ~(copy[u] # NoText /\ remote[u] = tag[u])
    /\ loader' = [loader EXCEPT ![l].pc = "tag", ![l].at = u, ![l].text = remote[u]]
    /\ UNCHANGED <<remote, disk, counts, block, allow, phase, editor, edits, changes, force,
                   once, overlap>>

\* No copy and no download: the source is left out.
SkipSource(l, u) ==
    /\ loader[l].pc = "read" /\ u \in loader[l].left
    /\ ~CopyServes(l, u) /\ remote[u] = NoText
    /\ loader' = [loader EXCEPT ![l].left = @ \ {u}]
    /\ UNCHANGED <<remote, disk, counts, block, allow, phase, editor, edits, changes, force,
                   once, overlap>>

SaveValidators(l) ==
    /\ loader[l].pc = "tag"
    /\ tag' = [tag EXCEPT ![loader[l].at] = loader[l].text]
    /\ loader' = [loader EXCEPT ![l].pc = "copy"]
    /\ UNCHANGED <<remote, copy, savedCounts, rules, counts, block, allow, phase, editor,
                   edits, changes, force, once, overlap>>

WriteCopy(l) ==
    /\ loader[l].pc = "copy"
    /\ copy' = [copy EXCEPT ![loader[l].at] = loader[l].text]
    /\ loader' = [loader EXCEPT ![l].pc = "judge"]
    /\ UNCHANGED <<remote, tag, savedCounts, rules, counts, block, allow, phase, editor, edits,
                   changes, force, once, overlap>>

\* A collapsed text is replaced by what the copy holds by now.
Judge(l) ==
    LET u == loader[l].at
        collapsed == HasCollapsed(Produced(loader[l].text), counts[u])
    IN /\ loader[l].pc = "judge"
       /\ counts' = IF collapsed THEN counts
                    ELSE [counts EXCEPT ![u] = Produced(loader[l].text)]
       /\ loader' = [loader EXCEPT ![l].pc = "read", ![l].left = @ \ {u},
                        ![l].texts[u] = IF collapsed THEN copy[u] ELSE loader[l].text]
       /\ UNCHANGED <<remote, disk, block, allow, phase, editor, edits, changes, force, once,
                      overlap>>

Merged(l, kind) == UNION {Parsed(loader[l].texts[u])[kind] :
                              u \in {v \in Sources : loader[l].texts[v] # NoText}}

\* self.block = result.block
SwapBlock(l) ==
    /\ loader[l].pc = "read" /\ loader[l].left = {}
    /\ block' = Merged(l, "block") \cup ConfigBlock \cup loader[l].local.block
    /\ force' = loader[l].texts
    /\ once' = once \cup {u \in Sources : loader[l].texts[u] # NoText}
    /\ loader' = [loader EXCEPT ![l].pc = "allow"]
    /\ UNCHANGED <<remote, disk, counts, allow, phase, editor, edits, changes, overlap>>

\* Mutant: the local allow rules are left to the next edit.
SwapAllowConfigOnly(l) ==
    /\ loader[l].pc = "allow"
    /\ allow' = Merged(l, "allow") \cup ConfigAllow
    /\ loader' = [loader EXCEPT ![l].pc = "counts"]
    /\ UNCHANGED <<remote, disk, counts, block, phase, editor, edits, changes, force, once,
                   overlap>>

\* self.allow = result.allow
SwapAllow(l) ==
    /\ loader[l].pc = "allow"
    /\ allow' = Merged(l, "allow") \cup ConfigAllow \cup loader[l].local.allow
    /\ loader' = [loader EXCEPT ![l].pc = "counts"]
    /\ UNCHANGED <<remote, disk, counts, block, phase, editor, edits, changes, force, once,
                   overlap>>

SaveCounts(l) ==
    /\ loader[l].pc = "counts"
    /\ savedCounts' = counts
    /\ loader' = [loader EXCEPT ![l].pc = "flush"]
    /\ UNCHANGED <<remote, tag, copy, rules, counts, block, allow, phase, editor, edits,
                   changes, force, once, overlap>>

\* The cached answers for the local rules go; after the first rebuild the
\* server starts to answer.
EndLoad(l) ==
    /\ loader[l].pc = "flush"
    /\ loader' = [loader EXCEPT ![l] = NotLoading]
    /\ phase' = "serving"
    /\ UNCHANGED <<remote, disk, counts, block, allow, editor, edits, changes, force, once,
                   overlap>>

(***************************************************************************)
(* add_local_rule().                                                       *)
(***************************************************************************)
Edited(file, d, allowed) ==
    IF allowed THEN [block |-> file.block \ {d}, allow |-> file.allow \cup {d}]
               ELSE [block |-> file.block \cup {d}, allow |-> file.allow \ {d}]

BeginEdit(e, d, allowed) ==
    /\ phase = "serving" /\ edits < MaxEdits
    /\ editor[e].pc = "idle"
    /\ editor' = [editor EXCEPT ![e] = [pc |-> "write", domain |-> d, allow |-> allowed,
                                            rules |-> Edited(rules, d, allowed)]]
    /\ edits' = edits + 1
    /\ overlap' = (overlap \/ Busy)
    /\ UNCHANGED <<remote, disk, counts, block, allow, phase, loader, changes, force, once>>

WriteRules(e) ==
    /\ editor[e].pc = "write"
    /\ rules' = editor[e].rules
    /\ editor' = [editor EXCEPT ![e].pc = "apply"]
    /\ UNCHANGED <<remote, tag, copy, savedCounts, counts, block, allow, phase, loader,
                   edits, changes, force, once, overlap>>

\* The rule sets in force are changed in place.
ApplyRule(e) ==
    /\ editor[e].pc = "apply"
    /\ allow' = IF editor[e].allow THEN allow \cup {editor[e].domain} ELSE allow
    /\ block' = IF editor[e].allow THEN block ELSE block \cup {editor[e].domain}
    /\ editor' = [editor EXCEPT ![e].pc = IF editor[e].allow THEN "flush" ELSE "drop"]
    /\ UNCHANGED <<remote, disk, counts, phase, loader, edits, changes, force, once, overlap>>

DropAllow(e) ==
    /\ editor[e].pc = "drop"
    /\ allow' = allow \ {editor[e].domain}
    /\ editor' = [editor EXCEPT ![e].pc = "flush"]
    /\ UNCHANGED <<remote, disk, counts, block, phase, loader, edits, changes, force, once,
                   overlap>>

EndEdit(e) ==
    /\ editor[e].pc = "flush"
    /\ editor' = [editor EXCEPT ![e] = NotEditing]
    /\ UNCHANGED <<remote, disk, counts, block, allow, phase, loader, edits, changes, force,
                   once, overlap>>

(***************************************************************************)
(* What happens outside: a source changes or is out of reach, the process   *)
(* dies.                                                                   *)
(***************************************************************************)
RemoteChanges(u, text) ==
    /\ changes < MaxChanges /\ text # remote[u]
    /\ remote' = [remote EXCEPT ![u] = text]
    /\ changes' = changes + 1
    /\ UNCHANGED <<disk, counts, block, allow, phase, loader, editor, edits, force, once, overlap>>

Crash ==
    /\ phase # "down" /\ changes < MaxChanges
    /\ changes' = changes + 1
    /\ phase' = "down"
    /\ counts' = savedCounts
    /\ block' = {} /\ allow' = {} /\ force' = Nowhere
    /\ loader' = [l \in Loaders |-> NotLoading]
    /\ editor' = [e \in Editors |-> NotEditing]
    /\ UNCHANGED <<remote, disk, edits, once, overlap>>

\* Every step but the two that also drop cached answers, and the crash.
RuleStep ==
    \/ \E l \in Loaders :
          \/ \E refresh \in BOOLEAN : BeginLoad(l, refresh)
          \/ \E u \in Sources : ReadCopy(l, u) \/ Download(l, u) \/ SkipSource(l, u)
          \/ SaveValidators(l) \/ WriteCopy(l) \/ Judge(l)
          \/ SwapBlock(l) \/ SwapAllow(l) \/ SaveCounts(l)
    \/ \E e \in Editors :
          \/ \E d \in Editable, allowed \in BOOLEAN : BeginEdit(e, d, allowed)
          \/ WriteRules(e) \/ ApplyRule(e) \/ DropAllow(e)
    \/ \E u \in Sources, text \in Text0 : RemoteChanges(u, text)

RulesNext ==
    \/ RuleStep
    \/ \E l \in Loaders : EndLoad(l)
    \/ \E e \in Editors : EndEdit(e)
    \/ Crash

RulesSpec == RulesInit /\ [][RulesNext]_ruleVars
-------------------------------------------------------------------------------
\* "a restart -- or a boot with no internet yet -- still comes up filtering"
\* (blocklist.py:346): a list that was in force when a rebuild began, be it
\* before a crash, is in force in some version when the rebuild is, whatever
\* failed meanwhile.
ComesUpFiltering ==
    [][\A l \in Loaders : SwapBlock(l) => \A u \in loader[l].need : force'[u] # NoText]_ruleVars

\* Adding a rule "survives a restart" and "does what it looks like it does"
\* (app.py:137): the local rules are in force whenever no edit or rebuild is
\* under way, unless an edit ever ran beside another or beside a rebuild.
LocalRulesInForce ==
    phase = "serving" /\ ~overlap /\ ~Busy => rules.allow \subseteq allow /\ rules.block \subseteq block

\* "Refuse an update that drops a source below this fraction of the rule count
\* it had last time ... the previous copy is better than the new one"
\* (blocklist.py:366): no rebuild puts a collapsed text in force.
CollapseRefused ==
    [][\A u \in Sources : force[u] # NoText /\ force'[u] # NoText
         => ~HasCollapsed(Produced(force'[u]), Produced(force[u]))]_ruleVars
=============================================================================
