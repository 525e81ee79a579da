--------------------------- MODULE MetadataImport ---------------------------
(***************************************************************************)
(* The metadata datasets (metadata/): an update run that imports one       *)
(* source after another, the resolution of what several sources say of an  *)
(* airframe into one row per airframe, the Clear Metadata Cache request    *)
(* (reset/service.py), and the in-memory cache of resolved views that      *)
(* follows the live set (metadata/cache.py).                               *)
(*                                                                         *)
(* A dataset is its version; what it says of an airframe is the set of     *)
(* fields it supplies.  Classification and operators are built and         *)
(* installed together with the resolved rows and are not told apart from   *)
(* them; a callsign's part in the classification is left out.              *)
(***************************************************************************)
EXTENDS EventQueue, FiniteSets, SequencesExt

CONSTANTS Airframes, Fields,
          Order,               \* the registered sources, sorted by name
          OwnTable,            \* those with a sink and a table of their own (airports, the route directory)
          Supplies,            \* source -> version -> airframe -> the fields it supplies
          FieldRank,           \* rank_of: source -> field -> rank, lowest first
          Visitors,            \* airframes that enter the live set
          Versions,            \* versions a download may find
          MetadataBudgets      \* bounds: runs, clears, faults, process ends and visits an instance has

Sources  == ToSet(Order)
NoSource == "no source"

ASSUME MetadataConstants ==
  /\ Order \in Seq(Sources \ {NoSource})
  /\ OwnTable \subseteq Sources /\ Visitors \subseteq Airframes /\ Versions \subseteq Nat \ {0}
  /\ Supplies \in [Sources \ OwnTable -> [Versions -> [Airframes -> SUBSET Fields]]]
  /\ FieldRank \in [Sources \ OwnTable -> [Fields -> Nat]]

VARIABLES
  iInstalled,    \* source -> version of the rows in force, 0 for none
  iStaged,       \* source -> version of the rows staged
  iNote,         \* metadata_sources: source -> [status, version]
  iScratch,      \* the resolution staging tables: airframe -> view
  iResolved,     \* aircraft_metadata_resolved: airframe -> view
  iRun,          \* the update task: [pc, at, version, left, changed]
  iClear,        \* the clear request: [pc, left]
  iLive, iSub,   \* the live set and the cache's subscription
  iEntries,      \* MetadataCache._entries: airframe -> view
  iTracked,      \* the views its observer holds (WatchlistMatcher._views)
  iLock,         \* MetadataCache._lock and what its holder is doing: [who, pc, wanted, views]
  iBudget,
  iMissed,       \* history: live airframes whose population failed
  iUntold,       \* history: a committed change whose invalidation was not completed
  iMet,          \* history: an import and a clear overlapped between a count and a promotion
  iTorn          \* history: sources with a table of their own that a clear did not reach

iVars   == <<iInstalled, iStaged, iNote, iScratch, iResolved, iRun, iClear, iLive, iSub, iEntries, iTracked,
             iLock, iBudget, iMissed, iUntold, iMet, iTorn>>
iTables == <<iInstalled, iStaged, iNote, iScratch, iResolved>>
iCache  == <<iLive, iSub, iEntries, iTracked, iLock, iMissed>>

Nothing  == [name \in Fields |-> <<NoSource, 0>>]           \* a view of an airframe nobody knows
NoRun    == [pc |-> "idle", at |-> 0, version |-> 0, left |-> {}, changed |-> FALSE]
NotClearing == [pc |-> "idle", left |-> {}]
Free     == [who |-> "nobody", pc |-> "free", wanted |-> {}, views |-> <<>>]
Source   == Order[iRun.at]

Charge(what) == iBudget[what] > 0 /\ iBudget' = [iBudget EXCEPT ![what] = @ - 1]

(* ------------------------------ resolution ------------------------------ *)

\* winner, one claim: a better (rank, source) replaces the best so far.
Better(name, f, versions, best, s) ==
  IF s \in OwnTable \/ versions[s] = 0 THEN best
  ELSE IF name \notin Supplies[s][versions[s]][f] THEN best
  ELSE IF best = NoSource THEN s
  ELSE IF FieldRank[s][name] < FieldRank[best][name] THEN s ELSE best

\* winner: the claims come in source order, so the first of the best rank wins.
Winner(name, f, versions) ==
  FoldLeft(LAMBDA best, s : Better(name, f, versions, best, s), NoSource, Order)

\* resolve, through _resolve_airframe: every field with the source it came from.
ResolveFrame(f, versions) ==
  [name \in Fields |-> LET w == Winner(name, f, versions)
                       IN  <<w, IF w = NoSource THEN 0 ELSE versions[w]>>]

\* Mutant: the resolution is built from the rows still in force.
ClaimsInForce(s) == iInstalled

\* _claim_pages: the staged rows of the source being imported stand in for its installed ones.
ClaimsFor(s) == [iInstalled EXCEPT ![s] = iStaged[s]]

(* ----------------------------- an update run ---------------------------- *)

NextSource(run) ==
  IF run.at < Len(Order) THEN [run EXCEPT !.pc = "attempt", !.at = @ + 1, !.version = 0]
  ELSE IF run.changed THEN [run EXCEPT !.pc = "lock"] ELSE NoRun

\* trigger_metadata_update: refused while a run is under way.
StartImport ==
  /\ iRun.pc = "idle" /\ Charge("runs")
  /\ iRun' = NextSource(NoRun)
  /\ UNCHANGED <<iTables, iClear, iCache, iUntold, iMet, iTorn>>

\* ensure_source and mark_attempt, before anything is guarded.
Attempt ==
  /\ iRun.pc = "attempt"
  /\ iRun' = [iRun EXCEPT !.pc = "download"]
  /\ UNCHANGED <<iTables, iClear, iCache, iBudget, iUntold, iMet, iTorn>>

\* download and validate: some dataset, or an ImportFailure.
DownloadSource ==
  /\ iRun.pc = "download"
  /\ \/ \E v \in Versions : iRun' = [iRun EXCEPT !.pc = "stage", !.version = v]
     \/ iRun' = [iRun EXCEPT !.pc = "fail"]
  /\ UNCHANGED <<iTables, iClear, iCache, iBudget, iUntold, iMet, iTorn>>

\* _stage: staging is cleared and filled, batch by batch.
StageRows ==
  /\ iRun.pc = "stage"
  /\ iStaged' = [iStaged EXCEPT ![Source] = iRun.version]
  /\ iRun' = [iRun EXCEPT !.pc = "count"]
  /\ UNCHANGED <<iInstalled, iNote, iScratch, iResolved, iClear, iCache, iBudget, iUntold, iMet, iTorn>>

\* ... then counted: nothing usable, too many rejects and fewer rows than validation promised are failures.
CountStaged(usable) ==
  /\ iRun.pc = "count"
  /\ iRun' = IF ~usable \/ iStaged[Source] = 0 THEN [iRun EXCEPT !.pc = "fail"]
             ELSE IF Source \in OwnTable THEN [iRun EXCEPT !.pc = "promote"]
             ELSE [iRun EXCEPT !.pc = "build", !.left = Airframes]
  /\ iScratch' = IF iRun'.pc = "build" THEN [f \in Airframes |-> Nothing] ELSE iScratch
  /\ UNCHANGED <<iInstalled, iStaged, iNote, iResolved, iClear, iCache, iBudget, iUntold, iMet, iTorn>>

\* build_resolution, one page of airframes: read the claims, resolve, write the scratch rows.
BuildPage(f) ==
  /\ iRun.pc = "build" /\ iRun.left # {}
  /\ f = CHOOSE next \in iRun.left : TRUE                \* the pages come in one order
  /\ iScratch' = [iScratch EXCEPT ![f] = ResolveFrame(f, ClaimsFor(Source))]
  /\ iRun' = [iRun EXCEPT !.left = @ \ {f}, !.pc = IF iRun.left = {f} THEN "promote" ELSE "build"]
  /\ UNCHANGED <<iInstalled, iStaged, iNote, iResolved, iClear, iCache, iBudget, iUntold, iMet, iTorn>>

\* promote: rows, resolution and status row in one transaction.  A sink with a table of its own refuses
\* to replace it with nothing.
Promote ==
  /\ iRun.pc = "promote"
  /\ iInstalled' = [iInstalled EXCEPT ![Source] = iStaged[Source]]
  /\ iStaged' = [iStaged EXCEPT ![Source] = 0]
  /\ iNote' = [iNote EXCEPT ![Source] = [status |-> "ok", version |-> iRun.version]]
  /\ IF Source \in OwnTable
     THEN UNCHANGED <<iScratch, iResolved>>
     ELSE iResolved' = iScratch /\ iScratch' = [f \in Airframes |-> Nothing]
  /\ iRun' = NextSource([iRun EXCEPT !.changed = TRUE])
  /\ iMet' = (iMet \/ iClear.pc = "others")
  /\ iTorn' = iTorn \ {Source}
  /\ UNCHANGED <<iClear, iCache, iBudget, iUntold>>

\* Any of it may raise: what an open transaction did is rolled back, and it is this source's failure alone.
ImportFails ==
  /\ iRun.pc \in {"stage", "count", "build", "promote"} /\ Charge("faults")
  /\ iRun' = [iRun EXCEPT !.pc = "fail", !.left = {}]
  /\ UNCHANGED <<iTables, iClear, iCache, iUntold, iMet, iTorn>>

\* Mutant: a failure leaves no version behind.
FailedForgets(note) == [status |-> "failed", version |-> 0]

\* mark_failure touches only the attempt, the status and the error.
Failed(note) == [note EXCEPT !.status = "failed"]

\* _record_failure; the next source is imported all the same.
RecordFailure ==
  /\ iRun.pc = "fail"
  /\ iStaged' = [iStaged EXCEPT ![Source] = 0]
  /\ iNote' = [iNote EXCEPT ![Source] = Failed(@)]
  /\ iRun' = NextSource(iRun)
  /\ UNCHANGED <<iInstalled, iScratch, iResolved, iClear, iCache, iBudget, iUntold, iMet, iTorn>>

\* A write outside the guard of a source raises: the run ends, and nobody is told what it had installed.
RunRaises ==
  /\ iRun.pc \in {"attempt", "fail"} /\ Charge("faults")
  /\ iRun' = NoRun
  /\ iUntold' = (iUntold \/ iRun.changed)
  /\ UNCHANGED <<iTables, iClear, iCache, iMet, iTorn>>

(* -------------------------- clearing the cache -------------------------- *)

\* clear_metadata_cache: the aircraft tables, their staging and every source's status, in one transaction.
ClearTables ==
  /\ iClear.pc = "idle" /\ Charge("clears")
  /\ iInstalled' = [s \in Sources |-> IF s \in OwnTable THEN iInstalled[s] ELSE 0]
  /\ iStaged' = [s \in Sources |-> IF s \in OwnTable THEN iStaged[s] ELSE 0]
  /\ iNote' = [s \in Sources |-> [status |-> "never_run", version |-> 0]]
  /\ iScratch' = [f \in Airframes |-> Nothing] /\ iResolved' = [f \in Airframes |-> Nothing]
  /\ iClear' = [pc |-> "others", left |-> OwnTable]
  /\ iMet' = (iMet \/ iRun.pc \in {"build", "promote"})
  /\ iTorn' = {s \in OwnTable : iInstalled[s] # 0}
  /\ UNCHANGED <<iRun, iCache, iUntold>>

\* ... then the other tables, one transaction each (their order is not told apart) ...
ClearOther ==
  /\ iClear.pc = "others"
  /\ \E s \in iClear.left :
       /\ iInstalled' = [iInstalled EXCEPT ![s] = 0]
       /\ iTorn' = iTorn \ {s}
       /\ iClear' = [left |-> iClear.left \ {s}, pc |-> IF iClear.left = {s} THEN "lock" ELSE "others"]
  /\ UNCHANGED <<iStaged, iNote, iScratch, iResolved, iRun, iCache, iBudget, iUntold, iMet>>

\* ... one of which may fail.
ClearFails ==
  /\ iClear.pc = "others" /\ Charge("faults")
  /\ iClear' = NotClearing
  /\ iUntold' = TRUE
  /\ UNCHANGED <<iTables, iRun, iCache, iMet, iTorn>>

(* ------------------------------- the cache ------------------------------ *)

\* AircraftAppeared and AircraftRemoved.
Enter(f) ==
  /\ f \notin iLive /\ Charge("visits")
  /\ iLive' = iLive \cup {f}
  /\ iSub' = Deliver(iSub, [frame |-> f, kind |-> "appeared"])
  /\ UNCHANGED <<iTables, iRun, iClear, iEntries, iTracked, iLock, iMissed, iUntold, iMet, iTorn>>

Depart(f) ==
  /\ f \in iLive
  /\ iLive' = iLive \ {f}
  /\ iSub' = Deliver(iSub, [frame |-> f, kind |-> "removed"])
  /\ iMissed' = iMissed \ {f}
  /\ UNCHANGED <<iTables, iRun, iClear, iEntries, iTracked, iLock, iBudget, iUntold, iMet, iTorn>>

Only(f, keep) == [x \in DOMAIN f \cap keep |-> f[x]]

\* _collect, one event.  The observer is told of a removal only when there was an entry to remove.
Heed(state, event) ==
  LET f == event.frame
      held == f \in DOMAIN state.entries
  IN  IF event.kind = "removed"
      THEN [entries |-> Only(state.entries, Airframes \ {f}),
            tracked |-> IF held THEN Only(state.tracked, Airframes \ {f}) ELSE state.tracked,
            wanted  |-> state.wanted \ {f}]
      ELSE IF held THEN state ELSE [state EXCEPT !.wanted = @ \cup {f}]

\* _collect: after a gap the entries are reconciled with the live set instead.
CollectViews ==
  IF iSub.overflowed
  THEN [entries |-> Only(iEntries, iLive),
        tracked |-> Only(iTracked, Airframes \ (DOMAIN iEntries \ iLive)),
        wanted  |-> iLive \ DOMAIN iEntries]
  ELSE FoldLeft(Heed, [entries |-> iEntries, tracked |-> iTracked, wanted |-> {}], iSub.queue)

\* _loop: take the lock, drain, and populate what is wanted.
CollectEvents ==
  /\ iLock.pc = "free" /\ iSub.queue # <<>>
  /\ LET next == CollectViews
         wanted == next.wanted \ DOMAIN next.entries
     IN  /\ iEntries' = next.entries /\ iTracked' = next.tracked
         /\ iLock' = IF wanted = {} THEN Free ELSE [who |-> "loop", pc |-> "read", wanted |-> wanted, views |-> <<>>]
         /\ iMissed' = iMissed \ wanted
  /\ iSub' = Acknowledged(Drained(iSub))
  /\ UNCHANGED <<iTables, iRun, iClear, iLive, iBudget, iUntold, iMet, iTorn>>

\* invalidate, from an import or a clear: the lock, then everything is dropped.
Invalidate(who) ==
  /\ iLock.pc = "free"
  /\ (who = "import" /\ iRun.pc = "lock") \/ (who = "clear" /\ iClear.pc = "lock")
  /\ iRun' = IF who = "import" THEN [iRun EXCEPT !.pc = "told"] ELSE iRun
  /\ iClear' = IF who = "clear" THEN [iClear EXCEPT !.pc = "told"] ELSE iClear
  /\ iEntries' = <<>>
  /\ iLock' = [Free EXCEPT !.who = who, !.pc = "counts"]
  /\ UNCHANGED <<iTables, iLive, iSub, iTracked, iBudget, iMissed, iUntold, iMet, iTorn>>

\* The lock is released, and its holder's task goes on.
Release ==
  /\ iLock' = Free
  /\ iRun' = IF iLock.who = "import" THEN NoRun ELSE iRun
  /\ iClear' = IF iLock.who = "clear" THEN NotClearing ELSE iClear

\* _reload_type_counts, and the snapshot the population starts from.
ReadCounts ==
  /\ iLock.pc = "counts"
  /\ iMissed' = {} /\ iUntold' = FALSE
  /\ IF iLive = {} THEN Release
     ELSE iLock' = [iLock EXCEPT !.pc = "read", !.wanted = iLive] /\ UNCHANGED <<iRun, iClear>>
  /\ UNCHANGED <<iTables, iLive, iSub, iEntries, iTracked, iBudget, iMet, iTorn>>

\* load_live_view
ReadViews ==
  /\ iLock.pc = "read"
  /\ iLock' = [iLock EXCEPT !.pc = "install", !.views = [f \in iLock.wanted |-> iResolved[f]]]
  /\ UNCHANGED <<iTables, iRun, iClear, iLive, iSub, iEntries, iTracked, iBudget, iMissed, iUntold, iMet, iTorn>>

Updated(held, views) ==
  [f \in DOMAIN held \cup DOMAIN views |-> IF f \in DOMAIN views THEN views[f] ELSE held[f]]

\* _install, for a whole batch, whoever has left meanwhile.
InstallViews ==
  /\ iLock.pc = "install"
  /\ iEntries' = Updated(iEntries, iLock.views)
  /\ iTracked' = Updated(iTracked, iLock.views)
  /\ Release
  /\ UNCHANGED <<iTables, iLive, iSub, iBudget, iMissed, iUntold, iMet, iTorn>>

\* A read raises: the loop goes on without the batch; an invalidation fails its caller.
PopulateFails ==
  /\ iLock.pc \in {"counts", "read"} /\ Charge("faults")
  /\ iMissed' = iMissed \cup (iLock.wanted \cap iLive)
  /\ iUntold' = (iUntold \/ iLock.who # "loop")
  /\ Release
  /\ UNCHANGED <<iTables, iLive, iSub, iEntries, iTracked, iMet, iTorn>>

(* ------------------------------- lifecycle ------------------------------ *)

\* The process ends at any await and another starts: the tables stay, and what is staged in them.  A sink
\* with a table of its own stages in memory (airports) or clears before it stages, which is the same here.
RestartMetadata ==
  /\ Charge("ends")
  /\ iRun' = NoRun /\ iClear' = NotClearing
  /\ iStaged' = [s \in Sources |-> IF s \in OwnTable THEN 0 ELSE iStaged[s]]
  /\ iLive' = {} /\ iSub' = NewSubscription /\ iEntries' = <<>> /\ iTracked' = <<>> /\ iLock' = Free
  /\ iMissed' = {} /\ iUntold' = FALSE
  /\ UNCHANGED <<iInstalled, iNote, iScratch, iResolved, iMet, iTorn>>

MetadataInit ==
  /\ iInstalled = [s \in Sources |-> 0] /\ iStaged = [s \in Sources |-> 0]
  /\ iNote = [s \in Sources |-> [status |-> "never_run", version |-> 0]]
  /\ iScratch = [f \in Airframes |-> Nothing] /\ iResolved = [f \in Airframes |-> Nothing]
  /\ iRun = NoRun /\ iClear = NotClearing
  /\ iLive = {} /\ iSub = NewSubscription /\ iEntries = <<>> /\ iTracked = <<>> /\ iLock = Free
  /\ iBudget \in MetadataBudgets
  /\ iMissed = {} /\ iUntold = FALSE /\ iMet = FALSE /\ iTorn = {}

MetadataNext ==
  \/ StartImport \/ Attempt \/ DownloadSource \/ StageRows \/ (\E usable \in BOOLEAN : CountStaged(usable))
  \/ (\E f \in Airframes : BuildPage(f)) \/ Promote \/ ImportFails \/ RecordFailure \/ RunRaises
  \/ ClearTables \/ ClearOther \/ ClearFails
  \/ (\E f \in Visitors : Enter(f) \/ Depart(f))
  \/ CollectEvents \/ (\E who \in {"import", "clear"} : Invalidate(who))
  \/ ReadCounts \/ ReadViews \/ InstallViews \/ PopulateFails
  \/ RestartMetadata

MetadataSpec == MetadataInit /\ [][MetadataNext]_iVars

(* ------------------------------ properties ------------------------------ *)

MetadataTypeOK ==
  /\ {iInstalled, iStaged} \subseteq [Sources -> Versions \cup {0}]
  /\ iNote \in [Sources -> [status : {"never_run", "ok", "failed"}, version : Versions \cup {0}]]
  /\ iLive \subseteq Visitors /\ DOMAIN iEntries \subseteq Visitors /\ DOMAIN iTracked \subseteq Visitors
  /\ iRun.at \in 0 .. Len(Order) /\ iRun.left \subseteq Airframes /\ iClear.left \subseteq OwnTable

\* What a source installed says of an airframe.
Says(s, f) == IF s \in OwnTable \/ iInstalled[s] = 0 THEN {} ELSE Supplies[s][iInstalled[s]][f]

\* The resolved row of every airframe carries, for each field, the value of the best-ranked source
\* installed that supplies it, and nothing no source supplies: through failed imports, restarts and
\* clears, unless a clear met an import in the middle ("One transaction covers the entire visible change").
ResolvedIsInstalled ==
  ~iMet => \A f \in Airframes, name \in Fields :
    LET said == {s \in Sources : name \in Says(s, f)}
        w    == iResolved[f][name][1]
    IN  IF said = {} THEN iResolved[f][name] = <<NoSource, 0>>
        ELSE /\ w \in said /\ iResolved[f][name][2] = iInstalled[w]
             /\ \A s \in said : FieldRank[w][name] <= FieldRank[s][name]

\* The status row names the version that is installed, also after a failed import of another one; a
\* clear cut short before it reached a table of its own aside.
NoteTellsInstalled ==
  ~iMet /\ iClear.pc # "others" => \A s \in Sources \ iTorn :
    iNote[s].version = iInstalled[s] /\ (iNote[s].status = "ok" => iInstalled[s] # 0)

\* "leaving a stale ok status beside a dataset that no longer exists would misreport ..."
\* (metadata/repository.py:748).
OkMeansInstalled == iClear.pc = "idle" => \A s \in Sources : iNote[s].status = "ok" => iInstalled[s] # 0

\* At rest the cache holds a current view of every live aircraft, unless its population failed or the
\* change was never followed by an invalidation: no view of the previous dataset survives an import
\* (the lock around collect and populate).
EntriesAreCurrent ==
  iRun.pc = "idle" /\ iClear.pc = "idle" /\ iLock.pc = "free" /\ iSub.queue = <<>> /\ ~iUntold =>
    /\ DOMAIN iEntries = iLive \ iMissed
    /\ \A f \in DOMAIN iEntries : iEntries[f] = iResolved[f]

\* The observer's view of an aircraft is the cache's.
ObserverAgrees == \A f \in DOMAIN iEntries : f \in DOMAIN iTracked /\ iTracked[f] = iEntries[f]

\* "keeps live_count ... bounded by the live set rather than growing over a process's lifetime"
\* (watchlists/matcher.py:235): at rest the observer holds live aircraft only.
ObserverForgets ==
  iLock.pc = "free" /\ iSub.queue = <<>> => DOMAIN iTracked \subseteq iLive

\* What the metadata services promise in every state.
MetadataInvariant ==
  /\ MetadataTypeOK
  /\ ResolvedIsInstalled
  /\ NoteTellsInstalled
  /\ EntriesAreCurrent
  /\ ObserverAgrees
=============================================================================
