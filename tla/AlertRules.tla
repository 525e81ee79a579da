----------------------------- MODULE AlertRules ------------------------------
(***************************************************************************)
(* Alert rules, shipped templates and watchlists as requests edit them:    *)
(* alerts/service.py, alerts/templates.py and watchlists/service.py with   *)
(* its matcher.  Every mutation commits first and then rebuilds what is    *)
(* held in memory from fresh reads, one await at a time, and nothing       *)
(* orders two requests.  One watchlist and one airframe stand for all.     *)
(***************************************************************************)
EXTENDS Integers, FiniteSets, FiniteSetsExt

CONSTANTS Catalogue,              \* how many instantiable templates ship, numbered in order
          Requests,               \* request handlers that may be under way at a time
          MaxRules, MaxWork, MaxBoots, MaxRuleFaults   \* bounds

ASSUME RuleConstants ==
  {Catalogue, MaxRules, MaxWork, MaxBoots, MaxRuleFaults} \subseteq Nat

Templates == 1 .. Catalogue
NoTemplate == 0                   \* template_key NULL

VARIABLES
  uRules,       \* alert_rules: [id, template, edit]
  uList,        \* the watchlist: [name, entry]; name 0 when it does not exist
  uConfig,      \* alerts.enabled_templates, as saved
  uKeys,        \* AlertService._template_keys
  uUp,
  uEngine,      \* the compiled set in force: [rules, name]
  uIndex,       \* WatchlistMatcher._index: the name its entry leads to, 0 for none
  uTracked,     \* the airframe has a resolved view
  uFlag,        \* the matches published for it
  uTask,        \* request -> where it stands and what it has read
  uBudget,
  uAlone,       \* history: the request that last installed [rules, index] met no other one
  uRaced,       \* history: templates inserted by a request that met another one
  uDropped,     \* history: templates whose rule the user deleted and has not asked for since
  uEmptied,     \* history: a boot found no template rule left
  uShort        \* history: templates whose instantiation a failed write or a restart cut short

uVars == <<uRules, uList, uConfig, uKeys, uUp, uEngine, uIndex, uTracked, uFlag, uTask, uBudget,
           uAlone, uRaced, uDropped, uEmptied, uShort>>
uTables  == <<uRules, uList>>
uMemory  == <<uEngine, uIndex, uTracked, uFlag>>
uHistory == <<uAlone, uRaced, uDropped, uEmptied, uShort>>

Idle == [pc |-> "idle", rules |-> {}, name |-> 0, entry |-> FALSE, keys |-> {}, lone |-> TRUE]
Busy == {q \in Requests : uTask[q].pc # "idle"}

\* A request takes its next step, is answered, or begins; requests that meet note it.
Goto(q, pc)    == uTask' = [uTask EXCEPT ![q].pc = pc]
Finish(q)      == uTask' = [uTask EXCEPT ![q] = Idle]
Allowed(q)     == /\ uUp /\ uTask[q].pc = "idle"
                  /\ uBudget.work > 0 /\ uBudget' = [uBudget EXCEPT !.work = @ - 1]
Begin(q, pc, keys) ==
  uTask' = [r \in Requests |-> CASE r = q      -> [Idle EXCEPT !.pc = pc, !.keys = keys, !.lone = Busy = {}]
                                 [] r \in Busy -> [uTask[r] EXCEPT !.lone = FALSE]
                                 [] OTHER      -> uTask[r]]

NextRuleId == 1 + Max({0} \cup {r.id : r \in uRules})

\* create_rules: the rows of several templates, in catalogue order, in one transaction.
TemplateRows(keys) ==
  {[id |-> NextRuleId + Cardinality({j \in keys : j < k}), template |-> k, edit |-> 0] : k \in keys}

\* template_keys_present
KeysPresent == {r.template : r \in uRules} \ {NoTemplate}

(* ------------------------------ rule CRUD ------------------------------- *)

\* create_rule
InsertRule(q) ==
  /\ Cardinality(uRules) < MaxRules /\ Allowed(q)
  /\ uRules' = uRules \cup {[id |-> NextRuleId, template |-> NoTemplate, edit |-> 0]}
  /\ Begin(q, "rules", {})
  /\ UNCHANGED <<uList, uConfig, uKeys, uUp, uMemory, uHistory>>

\* update_rule: a full replace that keeps the id and the provenance.
ReplaceRule(q) ==
  /\ Allowed(q)
  /\ \E r \in uRules : uRules' = (uRules \ {r}) \cup {[r EXCEPT !.edit = uBudget.work]}
  /\ Begin(q, "rules", {})
  /\ UNCHANGED <<uList, uConfig, uKeys, uUp, uMemory, uHistory>>

\* delete_rule
DropRule(q) ==
  /\ Allowed(q)
  /\ \E r \in uRules : /\ uRules' = uRules \ {r}
                       /\ uDropped' = uDropped \cup ({r.template} \ ({NoTemplate} \cup {t.template : t \in uRules'}))
  /\ Begin(q, "rules", {})
  /\ UNCHANGED <<uList, uConfig, uKeys, uUp, uMemory, uAlone, uRaced, uEmptied, uShort>>

\* instantiate_template: refuse a template that has a rule; the insert is another await away.
InstantiateTemplate(q) ==
  /\ Cardinality(uRules) < MaxRules /\ Allowed(q)
  /\ \E k \in Templates \ KeysPresent : Begin(q, "insert", {k})
  /\ UNCHANGED <<uTables, uConfig, uKeys, uUp, uMemory, uHistory>>

\* ... its create_rule.
InsertTemplate(q) ==
  /\ uTask[q].pc = "insert"
  /\ uRules' = uRules \cup TemplateRows(uTask[q].keys)
  /\ uDropped' = uDropped \ uTask[q].keys
  /\ uRaced' = IF uTask[q].lone THEN uRaced ELSE uRaced \cup uTask[q].keys
  /\ Goto(q, "rules")
  /\ UNCHANGED <<uList, uConfig, uKeys, uUp, uMemory, uBudget, uAlone, uEmptied, uShort>>

(* ------------------------------ templates ------------------------------- *)

\* Mutant: a save instantiates whatever is enabled, not what it added.
AddedAnything(before, after) == after

\* What a save added to alerts.enabled_templates.
Added(before, after) == after \ before

\* apply_enabled_templates, from the save up to its first await: the new list is recorded, whatever
\* happens next, and only what this save added is wanted.
SaveTemplates(q) ==
  \E keys \in SUBSET Templates :
    /\ Allowed(q)
    /\ uConfig' = keys /\ uKeys' = keys
    /\ uDropped' = uDropped \cap keys \cap uKeys    \* ticking a template again is asking for its rule
    /\ IF Added(uKeys, keys) = {} THEN UNCHANGED uTask ELSE Begin(q, "present", Added(uKeys, keys))
    /\ UNCHANGED <<uTables, uUp, uMemory, uAlone, uRaced, uEmptied, uShort>>

\* ... the templates that have no rule yet ...
ReadKeysPresent(q) ==
  /\ uTask[q].pc = "present"
  /\ uTask' = [uTask EXCEPT ![q] = IF uTask[q].keys \subseteq KeysPresent THEN Idle
                                   ELSE [uTask[q] EXCEPT !.pc = "create", !.keys = @ \ KeysPresent]]
  /\ UNCHANGED <<uTables, uConfig, uKeys, uUp, uMemory, uBudget, uHistory>>

\* ... are created in one transaction, or the save is reported as not applied.
CreateTemplates(q, ok) ==
  /\ uTask[q].pc = "create"
  /\ IF ok
     THEN /\ uRules' = uRules \cup TemplateRows(uTask[q].keys)
          /\ uDropped' = IF uTask[q].lone THEN uDropped ELSE uDropped \ uTask[q].keys
          /\ uRaced' = IF uTask[q].lone THEN uRaced ELSE uRaced \cup uTask[q].keys
          /\ Goto(q, "rules")
          /\ UNCHANGED <<uBudget, uShort>>
     ELSE /\ uBudget.faults > 0 /\ uBudget' = [uBudget EXCEPT !.faults = @ - 1]
          /\ uShort' = uShort \cup uTask[q].keys
          /\ Finish(q)
          /\ UNCHANGED <<uRules, uDropped, uRaced>>
  /\ UNCHANGED <<uList, uConfig, uKeys, uUp, uMemory, uAlone, uEmptied>>

(* ----------------------------- reload_rules ----------------------------- *)

\* list_rules
ReadRules(q) ==
  /\ uTask[q].pc = "rules"
  /\ uTask' = [uTask EXCEPT ![q].rules = uRules, ![q].pc = "names"]
  /\ UNCHANGED <<uTables, uConfig, uKeys, uUp, uMemory, uBudget, uHistory>>

\* list_watchlists
ReadNames(q) ==
  /\ uTask[q].pc = "names"
  /\ uTask' = [uTask EXCEPT ![q].name = uList.name, ![q].pc = "install"]
  /\ UNCHANGED <<uTables, uConfig, uKeys, uUp, uMemory, uBudget, uHistory>>

\* set_rules, with which the request is answered.
InstallRules(q) ==
  /\ uTask[q].pc = "install"
  /\ uEngine' = [rules |-> uTask[q].rules, name |-> uTask[q].name]
  /\ uAlone' = [uAlone EXCEPT !.rules = uTask[q].lone]
  /\ Finish(q)
  /\ UNCHANGED <<uTables, uConfig, uKeys, uUp, uIndex, uTracked, uFlag, uBudget, uRaced, uDropped, uEmptied, uShort>>

(* ------------------------------ watchlists ------------------------------ *)

\* create_watchlist, rename_watchlist, delete_watchlist (its entries cascade), add_entry, remove_entry.
EditWatchlist(q) ==
  /\ Allowed(q)
  /\ \/ uList.name = 0 /\ uList' = [name |-> uBudget.work, entry |-> FALSE]
     \/ uList.name # 0 /\ uList' = [uList EXCEPT !.name = uBudget.work]
     \/ uList.name # 0 /\ uList' = [name |-> 0, entry |-> FALSE]
     \/ uList.name # 0 /\ uList' = [uList EXCEPT !.entry = ~uList.entry]
  /\ Begin(q, "lists", {})
  /\ UNCHANGED <<uRules, uConfig, uKeys, uUp, uMemory, uHistory>>

\* reload_index: list_watchlists ...
ReadLists(q) ==
  /\ uTask[q].pc = "lists"
  /\ uTask' = [uTask EXCEPT ![q].name = uList.name, ![q].pc = "entries"]
  /\ UNCHANGED <<uTables, uConfig, uKeys, uUp, uMemory, uBudget, uHistory>>

\* ... list_all_entries ...
ReadEntries(q) ==
  /\ uTask[q].pc = "entries"
  /\ uTask' = [uTask EXCEPT ![q].entry = uList.entry, ![q].pc = "index"]
  /\ UNCHANGED <<uTables, uConfig, uKeys, uUp, uMemory, uBudget, uHistory>>

\* WatchlistIndex.build: an entry whose watchlist was not among the names is skipped.
BuildIndex(name, entry) == IF entry THEN name ELSE 0

\* Mutant: the matches of tracked aircraft wait for their next resolution.
ComputeLater(tracked, index) == uFlag

\* _compute for a tracked aircraft.
Compute(tracked, index) == IF tracked THEN index ELSE 0

\* ... WatchlistMatcher.reload, then the index listener, which is reload_rules.
ReloadIndex(q) ==
  /\ uTask[q].pc = "index"
  /\ uIndex' = BuildIndex(uTask[q].name, uTask[q].entry)
  /\ uFlag' = Compute(uTracked, uIndex')
  /\ uAlone' = [uAlone EXCEPT !.index = uTask[q].lone]
  /\ Goto(q, "rules")
  /\ UNCHANGED <<uTables, uConfig, uKeys, uUp, uEngine, uTracked, uBudget, uRaced, uDropped, uEmptied, uShort>>

\* on_resolved: the metadata cache resolves the airframe, or lets go of it.
OnResolved ==
  /\ uUp
  /\ uTracked' = ~uTracked
  /\ uFlag' = IF uTracked' THEN uIndex ELSE 0
  /\ UNCHANGED <<uTables, uConfig, uKeys, uUp, uEngine, uIndex, uTask, uBudget, uHistory>>

(* ------------------------------- lifecycle ------------------------------ *)

\* The process ends; requests under way are lost where they stand.
EndRules ==
  /\ uUp /\ uBudget.boots > 0 /\ uBudget' = [uBudget EXCEPT !.boots = @ - 1]
  /\ uUp' = FALSE
  /\ uShort' = uShort \cup UNION {uTask[q].keys : q \in {r \in Requests : uTask[r].pc \in {"present", "create"}}}
  /\ uTask' = [q \in Requests |-> Idle]
  /\ uTracked' = FALSE /\ uFlag' = 0 /\ uIndex' = 0 /\ uEngine' = [rules |-> {}, name |-> 0]
  /\ uAlone' = [rules |-> TRUE, index |-> TRUE]
  /\ UNCHANGED <<uTables, uConfig, uKeys, uRaced, uDropped, uEmptied>>

\* Mutant: every enabled template without a rule is instantiated.
AtStartPerKey(keys) == keys \ KeysPresent

\* _instantiate_templates: once per install, while no rule carries a template.
AtStart(keys) == IF KeysPresent = {} THEN keys ELSE {}

\* WatchlistService.start and AlertService.start: the configured keys, the templates, the index, the
\* rules.  Nothing else runs until they are done.
StartRules ==
  /\ ~uUp
  /\ uUp' = TRUE
  /\ uKeys' = uConfig
  /\ uRules' = uRules \cup TemplateRows(AtStart(uConfig))
  /\ uEmptied' = (uEmptied \/ (uDropped # {} /\ KeysPresent = {}))
  /\ uEngine' = [rules |-> uRules', name |-> uList.name]
  /\ uIndex' = BuildIndex(uList.name, uList.entry)
  /\ UNCHANGED <<uList, uConfig, uTracked, uFlag, uTask, uBudget, uAlone, uRaced, uDropped, uShort>>

RulesInit ==
  /\ uRules = {} /\ uList = [name |-> 0, entry |-> FALSE]
  /\ uConfig \in SUBSET Templates /\ uKeys = {}
  /\ uUp = FALSE /\ uEngine = [rules |-> {}, name |-> 0] /\ uIndex = 0 /\ uTracked = FALSE /\ uFlag = 0
  /\ uTask = [q \in Requests |-> Idle]
  /\ uBudget = [work |-> MaxWork, boots |-> MaxBoots, faults |-> MaxRuleFaults]
  /\ uAlone = [rules |-> TRUE, index |-> TRUE] /\ uRaced = {} /\ uDropped = {} /\ uEmptied = FALSE /\ uShort = {}

RulesNext ==
  \/ \E q \in Requests :
       \/ InsertRule(q) \/ ReplaceRule(q) \/ DropRule(q) \/ InstantiateTemplate(q) \/ InsertTemplate(q)
       \/ SaveTemplates(q) \/ ReadKeysPresent(q) \/ CreateTemplates(q, TRUE) \/ CreateTemplates(q, FALSE)
       \/ ReadRules(q) \/ ReadNames(q) \/ InstallRules(q)
       \/ EditWatchlist(q) \/ ReadLists(q) \/ ReadEntries(q) \/ ReloadIndex(q)
  \/ OnResolved \/ EndRules \/ StartRules

RulesSpec == RulesInit /\ [][RulesNext]_uVars

(* ------------------------------ properties ------------------------------ *)

RulesTypeOK ==
  /\ uConfig \subseteq Templates /\ uKeys \subseteq Templates /\ {uUp, uTracked} \subseteq BOOLEAN
  /\ \A r \in uRules : r.id \in Nat \ {0} /\ r.template \in 0 .. Catalogue
  /\ \A q \in Requests : uTask[q].keys \subseteq Templates
  /\ uList.name \in 0 .. MaxWork

\* The engine evaluates exactly the rules in the table, with the watchlist's current name, once every
\* request has been answered and the last one to install met no other: two that overlap may leave
\* the older reading in force (reload_rules).
EngineRunsTable ==
  uUp /\ Busy = {} /\ uAlone.rules => uEngine = [rules |-> uRules, name |-> uList.name]

\* What an aircraft is flagged with is what the index in force says, whichever of the cache and the
\* reload came last; and at rest that is what the table says (on_resolved, reload).
FlagFollowsIndex ==
  /\ uFlag = (IF uTracked THEN uIndex ELSE 0)
  /\ uUp /\ Busy = {} /\ uAlone.index => uIndex = BuildIndex(uList.name, uList.entry)

\* A shipped rule the user deleted stays deleted through unrelated saves, and through restarts as
\* long as the rule of some template is left (apply_enabled_templates, _instantiate_templates).
DeletionIsKept == \A k \in uDropped : uEmptied \/ k \notin KeysPresent

\* "A user who deletes a shipped rule must not have it silently return on the next restart"
\* (templates.py:53).
DeletionOutlivesRestart == \A k \in uDropped : k \notin KeysPresent

\* At rest every enabled template has a rule unless the user deleted it, or the write or the process
\* failed half-way: what this save added is recorded as configured before it is created.
EnabledHasRule == uUp /\ Busy = {} => uKeys \subseteq KeysPresent \cup uDropped \cup uShort

\* No template has two rules unless the request that made one of them met another (instantiate_template
\* refuses a second one, one await before it inserts).
OneRulePerTemplate ==
  \A r, s \in uRules : r.template = s.template /\ r.template \notin uRaced \cup {NoTemplate} => r = s

\* What the rule and watchlist services promise in every state: the engine and the index follow their
\* tables, deletions are kept, and a template has its one rule.
RulesInvariant ==
  /\ RulesTypeOK
  /\ EngineRunsTable
  /\ FlagFollowsIndex
  /\ DeletionIsKept
  /\ EnabledHasRule
  /\ OneRulePerTemplate
=============================================================================
