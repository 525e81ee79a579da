--------------------------- MODULE RouteEnrichment ---------------------------
(***************************************************************************)
(* The enrichment worker (enrichment/service.py) with its route cache      *)
(* (cache.py), offline directory (directory.py), token bucket and circuit  *)
(* breaker (limits.py): a reader that queues the callsigns it observes, a  *)
(* worker that walks one queued callsign at a time through cache,          *)
(* directory, budget, breaker and limiter to the provider, and a Settings  *)
(* save that swaps the provider or the economy under both of them.         *)
(*                                                                         *)
(* A route is its path; a callsign its cache key.  The remembered answers, *)
(* the skip list and the backoff list are bounded at 4096 entries in the   *)
(* code, which no instance here reaches.                                   *)
(***************************************************************************)
EXTENDS Integers, Sequences, SequencesExt, FiniteSets, TLC

CONSTANTS Flights, Callsigns, CallsignOf,      \* aircraft, cache keys, the key each aircraft flies
          Paths,                               \* routes
          Tier,                                \* aircraft -> 0 alerting, 1 within the display radius, 2 neither
          RouteDay, Ttls, LearnedTtl, StaleFor, Backoff, LearnAt,   \* in ticks; LEARNED_CONFIRMATIONS
          Threshold, Cooldown, Burst, PendingLimit,
          Limits,                              \* daily_lookup_budget values a save may set; 0 is uncapped
          MaxRouteClock,
          RouteBudgets    \* bounds: failed calls, settings saves, restarts and contradictions an instance has

ASSUME RouteConstants ==
  /\ CallsignOf \in [Flights -> Callsigns] /\ Tier \in [Flights -> 0 .. 2]
  /\ {RouteDay, LearnedTtl, StaleFor, Backoff, LearnAt, Threshold, Cooldown, Burst, PendingLimit} \subseteq Nat \ {0}
  /\ Ttls \subseteq Nat /\ Limits \subseteq Nat /\ MaxRouteClock \in Nat
  /\ \A ttl \in Ttls \cup {LearnedTtl} : ttl >= RouteDay          \* route_ttl_days is at least 1
  /\ IsFiniteSet(Callsigns) /\ Paths # {}
  /\ RouteBudgets \subseteq [faults : Nat, saves : Nat, ends : Nat, contexts : Nat]

VARIABLES
  eClock,
  eRow,            \* route_cache: key -> row
  eDirectory,      \* route_directory: key -> path or NoPath
  eContext,        \* airport context: aircraft -> the path it is seen to fly, or NoPath
  eKeyed,          \* a provider is configured
  eTtl, eLimit,    \* the economy
  ePending,        \* _pending: sequence of [key, flights, refresh]
  eAnswers,        \* _answers: key -> [route, expires]
  eInvalidating, eInvalidated, eSkip, eUnanswered,
  eWork,           \* drain_once, across its awaits
  eSave,           \* a settings save re-reading the ledger
  eBreaker, eTokens,
  eUsed, eDay,     \* _budget_used, _budget_day_ms
  eApplied,        \* sightings: aircraft -> the route last applied
  eBudget,
  eReported,       \* history: <<key, path>> some source reported
  eDisproved,      \* history: <<key, path>> of the directory that an aircraft disproved in this process
  eBought,         \* history: provider answers today
  eSpoiled         \* history: a row bought today was deleted, or a save touched the ledger, today

eVars == <<eClock, eRow, eDirectory, eContext, eKeyed, eTtl, eLimit, ePending, eAnswers, eInvalidating,
           eInvalidated, eSkip, eUnanswered, eWork, eSave, eBreaker, eTokens, eUsed, eDay, eApplied, eBudget,
           eReported, eDisproved, eBought, eSpoiled>>
eConfig  == <<eKeyed, eTtl, eLimit>>
eTables  == <<eRow, eDirectory>>
eMarks   == <<eInvalidating, eInvalidated, eSkip, eUnanswered>>
eLedger  == <<eUsed, eDay>>
ePastE   == <<eReported, eDisproved, eBought, eSpoiled>>

NoPath     == "no path"
NoRow      == [status |-> "absent", path |-> NoPath, src |-> "none", fetched |-> 0, expires |-> 0, count |-> 0]
NoRoute    == [path |-> NoPath, src |-> "none"]
AtRest     == [pc |-> "idle", key |-> NoPath, now |-> 0, path |-> NoPath, src |-> "none", ttl |-> 0, why |-> "none"]
NotSaving  == [pc |-> "idle", count |-> 0]
Closed     == [failures |-> 0, opened |-> -1, probing |-> FALSE]
Today(t)   == t \div RouteDay
Drop(f, k) == [x \in DOMAIN f \ {k} |-> f[x]]
Waiting(k) == {i \in DOMAIN ePending : ePending[i].key = k}
WaitingFlights(k) == UNION {ePending[i].flights : i \in Waiting(k)}
Unqueued(k) == IF Waiting(k) = {} THEN ePending ELSE RemoveAt(ePending, CHOOSE i \in Waiting(k) : TRUE)

(* ------------------------------ the cache ------------------------------- *)

\* _confirm: the same route reported again on a later UTC day confirms it.
Confirm(row, path, now) ==
  IF row.status # "ok" \/ row.path # path THEN 0
  ELSE row.count + (IF Today(row.fetched) = Today(now) THEN 0 ELSE 1)

\* store_route: a route confirmed often enough is learned, and kept longer.
StoreRoute(row, path, src, now, ttl) ==
  LET n == Confirm(row, path, now)
  IN  [status |-> "ok", path |-> path, src |-> src, fetched |-> now, count |-> n,
       expires |-> now + (IF n >= LearnAt THEN LearnedTtl ELSE ttl)]

\* store_not_found and store_restricted, through _write.
StoreNothing(src, now, ttl) ==
  [status |-> "none", path |-> NoPath, src |-> src, fetched |-> now, count |-> 0, expires |-> now + ttl]

\* serve_stale: an expired row that has a route.
StaleRow(k, now) == eRow[k].status = "ok" /\ eRow[k].expires <= now

\* count_fetched_since: every row written today, whoever reported it.
CountFetched(now) == Cardinality({k \in Callsigns : eRow[k].status # "absent" /\ eRow[k].fetched >= Today(now) * RouteDay})

(* ------------------------------- the reader ----------------------------- *)

\* contradicts_route, and _contradicted: once per key and process.
Contradicted(k, flights, path) ==
  path # NoPath /\ k \notin eInvalidated /\ \E p \in flights : eContext[p] \notin {NoPath, path}

\* What an aircraft has disproved, when the directory is its source (history).
Disproved(k, route) == IF route.src = "vrs" THEN eDisproved \cup {<<k, route.path>>} ELSE eDisproved

\* Mutant: nothing is ever skipped.
SkipNothing(k, src) == eSkip

\* _skip_directory: only what the directory itself reported is skipped.
SkipDirectory(k, src) == IF src = "vrs" THEN [eSkip EXCEPT ![k] = eClock + eTtl] ELSE eSkip

\* _shed_if_full: the oldest queued key goes.
ShedIfFull(q) == SubSeq(q, IF Len(q) > PendingLimit THEN Len(q) - PendingLimit + 1 ELSE 1, Len(q))

\* A flight joins the queued lookup of its key, or queues it.
Queued(k, p, refresh) ==
  IF Waiting(k) # {}
  THEN [i \in DOMAIN ePending |-> IF ePending[i].key = k
                                  THEN [ePending[i] EXCEPT !.flights = @ \cup {p}] ELSE ePending[i]]
  ELSE ShedIfFull(Append(ePending, [key |-> k, flights |-> {p}, refresh |-> refresh]))

\* Mutant: an answer reaches every flight, whatever it flies.
AppliedToAll(route, flights) ==
  [p \in Flights |-> IF route.path # NoPath /\ route.src # "none" THEN route ELSE eApplied[p]]

\* _apply: the provenance is the answer's own, or the name of the provider held now.
Applied(route, flights) ==
  LET src == IF route.src = "none" /\ eKeyed THEN "provider" ELSE route.src
  IN  [p \in Flights |-> IF p \in flights /\ route.path # NoPath /\ src # "none"
                         THEN [path |-> route.path, src |-> src] ELSE eApplied[p]]

\* consider, through _enqueue.  A held answer is applied at once, unless the aircraft disproves it
\* (_invalidate_later); anything else is queued.
Consider(p) ==
  LET k     == CallsignOf[p]
      held  == k \in DOMAIN eAnswers
      fresh == held /\ eAnswers[k].expires > eClock
      bad   == fresh /\ Contradicted(k, {p}, eAnswers[k].route.path)
  IN  /\ eUnanswered[k] <= eClock
      /\ IF fresh /\ ~bad
         THEN /\ eApplied' = Applied(eAnswers[k].route, {p})
              /\ UNCHANGED <<ePending, eAnswers, eMarks, eDisproved>>
         ELSE /\ ePending' = Queued(k, p, held)
              /\ eAnswers' = Drop(eAnswers, k)
              /\ eInvalidating' = IF bad THEN eInvalidating \cup {k} ELSE eInvalidating
              /\ eInvalidated' = IF bad THEN eInvalidated \cup {k} ELSE eInvalidated
              /\ eSkip' = IF bad THEN SkipDirectory(k, eAnswers[k].route.src) ELSE eSkip
              /\ eDisproved' = IF bad THEN Disproved(k, eAnswers[k].route) ELSE eDisproved
              /\ UNCHANGED <<eUnanswered, eApplied>>
      /\ UNCHANGED <<eClock, eTables, eContext, eConfig, eWork, eSave, eBreaker, eTokens, eLedger, eBudget,
                     eReported, eBought, eSpoiled>>

\* The airport-context service latches what an aircraft is doing.
Latch(p, path) ==
  /\ eBudget.contexts > 0 /\ eContext[p] # path
  /\ eBudget' = [eBudget EXCEPT !.contexts = @ - 1]
  /\ eContext' = [eContext EXCEPT ![p] = path]
  /\ UNCHANGED <<eClock, eTables, eConfig, ePending, eAnswers, eMarks, eWork, eSave, eBreaker, eTokens, eLedger,
                 eApplied, ePastE>>

(* ------------------------------- the worker ----------------------------- *)

\* allow: closed, or cooled down with no probe out; the latter makes this request the probe.
Cooled  == eBreaker.opened # -1 /\ eClock - eBreaker.opened >= Cooldown
Allow   == eBreaker.opened = -1 \/ (Cooled /\ ~eBreaker.probing)
Probing == [eBreaker EXCEPT !.probing = eBreaker.opened # -1]

\* record_failure: the run is long enough, or the probe failed.
RecordProviderFailure(b) ==
  IF b.probing \/ b.failures + 1 >= Threshold
  THEN [failures |-> IF b.failures < Threshold THEN b.failures + 1 ELSE b.failures, opened |-> eClock, probing |-> FALSE]
  ELSE [b EXCEPT !.failures = @ + 1]

\* _priority, and _select: the first of the most deserving tier.
Priority(lookup) ==
  LET tiers == {Tier[p] : p \in lookup.flights}
  IN  IF 0 \in tiers THEN 0 ELSE IF 1 \in tiers THEN 1 ELSE IF lookup.refresh THEN 3 ELSE 2
Select == CHOOSE i \in DOMAIN ePending : \A j \in DOMAIN ePending :
            Priority(ePending[i]) < Priority(ePending[j])
              \/ (Priority(ePending[i]) = Priority(ePending[j]) /\ i <= j)

\* _finish with _remember: the answer is held and reaches every flight waiting for it.
Finish(k, route, expires) ==
  /\ eAnswers' = [x \in DOMAIN eAnswers \cup {k} |-> IF x = k THEN [route |-> route, expires |-> expires] ELSE eAnswers[x]]
  /\ eApplied' = Applied(route, WaitingFlights(k))
  /\ ePending' = Unqueued(k)
  /\ eWork' = AtRest

\* drain_once, to its first await.
DrainBegin ==
  /\ eWork.pc = "idle" /\ ePending # <<>>
  /\ eWork' = [AtRest EXCEPT !.pc = "cache", !.key = ePending[Select].key, !.now = eClock]
  /\ UNCHANGED <<eClock, eTables, eContext, eConfig, ePending, eAnswers, eMarks, eSave, eBreaker, eTokens, eLedger,
                 eApplied, eBudget, ePastE>>

\* _advance at the cache: a disproved row is deleted first, and one disproved only now is deleted too.
ReadCache ==
  LET k     == eWork.key
      row   == IF k \in eInvalidating THEN NoRow ELSE eRow[k]
      fresh == row.status # "absent" /\ row.expires > eWork.now
      bad   == fresh /\ Contradicted(k, WaitingFlights(k), row.path)
      kept  == IF bad THEN NoRow ELSE row
  IN  /\ eWork.pc = "cache"
      /\ eInvalidating' = eInvalidating \ {k}
      /\ eRow' = [eRow EXCEPT ![k] = kept]
      /\ eSpoiled' = (eSpoiled \/ kept # eRow[k])
      /\ IF fresh /\ ~bad
         THEN /\ Finish(k, [path |-> row.path, src |-> row.src], row.expires)
              /\ UNCHANGED <<eInvalidated, eSkip, eDisproved>>
         ELSE /\ eWork' = [eWork EXCEPT !.pc = "directory"]
              /\ eInvalidated' = IF bad THEN eInvalidated \cup {k} ELSE eInvalidated
              /\ eSkip' = IF bad THEN SkipDirectory(k, row.src) ELSE eSkip
              /\ eDisproved' = IF bad THEN Disproved(k, row) ELSE eDisproved
              /\ UNCHANGED <<ePending, eAnswers, eApplied>>
      /\ UNCHANGED <<eClock, eDirectory, eContext, eConfig, eUnanswered, eSave, eBreaker, eTokens, eLedger, eBudget,
                     eReported, eBought>>

\* A drain that got nowhere: the loop sleeps, the key keeps its place.
Fruitless == eWork' = AtRest

\* _advance past the budget: the circuit, then the limiter, then the request, with no await between.
AskProvider(used) ==
  \/ /\ eLimit > 0 /\ used >= eLimit                        \* _may_spend refuses
     /\ eWork' = [eWork EXCEPT !.pc = "stale", !.why = "budget"]
     /\ UNCHANGED <<eBreaker, eTokens>>
  \/ /\ eLimit = 0 \/ used < eLimit
     /\ \/ /\ ~Allow
           /\ eWork' = [eWork EXCEPT !.pc = "stale", !.why = "circuit"]
           /\ UNCHANGED <<eBreaker, eTokens>>
        \/ /\ Allow /\ eTokens = 0
           /\ eBreaker' = Probing
           /\ Fruitless
           /\ UNCHANGED eTokens
        \/ /\ Allow /\ eTokens > 0
           /\ eBreaker' = Probing
           /\ eTokens' = eTokens - 1
           /\ eWork' = [eWork EXCEPT !.pc = "ask"]

\* _answer_from_directory, and what follows a miss up to the next await.
ReadDirectory ==
  LET k     == eWork.key
      found == IF eSkip[k] > eWork.now THEN NoPath ELSE eDirectory[k]
      bad   == Contradicted(k, WaitingFlights(k), found)
  IN  /\ eWork.pc = "directory"
      /\ eInvalidated' = IF bad THEN eInvalidated \cup {k} ELSE eInvalidated
      /\ eSkip' = IF bad THEN SkipDirectory(k, "vrs") ELSE eSkip
      /\ eDisproved' = IF bad THEN eDisproved \cup {<<k, found>>} ELSE eDisproved
      /\ eReported' = IF found = NoPath THEN eReported ELSE eReported \cup {<<k, found>>}
      /\ \/ /\ found # NoPath /\ ~bad
            /\ eWork' = [eWork EXCEPT !.pc = "store", !.path = found, !.src = "vrs", !.ttl = eTtl]
            /\ UNCHANGED <<eBreaker, eTokens>>
         \/ /\ found = NoPath \/ bad
            /\ \/ /\ ~eKeyed
                  /\ eWork' = [eWork EXCEPT !.pc = "stale", !.why = "keyless"]
                  /\ UNCHANGED <<eBreaker, eTokens>>
               \/ /\ eKeyed /\ eLimit > 0 /\ eDay # Today(eWork.now)
                  /\ eWork' = [eWork EXCEPT !.pc = "ledger"]
                  /\ UNCHANGED <<eBreaker, eTokens>>
               \/ /\ eKeyed /\ (eLimit = 0 \/ eDay = Today(eWork.now))
                  /\ AskProvider(eUsed)
      /\ UNCHANGED <<eClock, eTables, eContext, eConfig, ePending, eAnswers, eInvalidating, eUnanswered, eSave, eLedger,
                     eApplied, eBudget, eBought, eSpoiled>>

\* _refresh_ledger, from _may_spend or from _spend.
ReadLedger ==
  /\ eWork.pc \in {"ledger", "spend"}
  /\ eDay' = Today(eWork.now)
  /\ IF eWork.pc = "ledger"
     THEN /\ eUsed' = CountFetched(eWork.now)
          /\ IF eKeyed THEN AskProvider(eUsed')           \* _request reads the provider when it asks
             ELSE Fruitless /\ UNCHANGED <<eBreaker, eTokens>>
     ELSE /\ eUsed' = CountFetched(eWork.now) + 1
          /\ eWork' = [eWork EXCEPT !.pc = "store", !.ttl = eTtl]
          /\ UNCHANGED <<eBreaker, eTokens>>
  /\ UNCHANGED <<eClock, eTables, eContext, eConfig, ePending, eAnswers, eMarks, eSave, eApplied, eBudget,
                 eReported, eDisproved, eBought, eSpoiled>>

\* _request, when the provider answers: an outage feeds the breaker, an answer closes it and is spent.
ProviderAnswers(path) ==
  LET k == eWork.key
      w == [eWork EXCEPT !.now = eClock, !.path = path, !.src = "provider"]
  IN  /\ eWork.pc = "ask"
      /\ eBreaker' = Closed
      /\ eReported' = IF path = NoPath THEN eReported ELSE eReported \cup {<<k, path>>}
      /\ eBought' = eBought + 1
      /\ IF eDay # Today(eClock) THEN eWork' = [w EXCEPT !.pc = "spend"] /\ UNCHANGED eUsed
         ELSE eWork' = [w EXCEPT !.pc = "store", !.ttl = eTtl] /\ eUsed' = eUsed + 1
      /\ UNCHANGED <<eClock, eTables, eContext, eConfig, ePending, eAnswers, eMarks, eSave, eTokens, eDay, eApplied,
                     eBudget, eDisproved, eSpoiled>>

ProviderFails ==
  /\ eWork.pc = "ask" /\ eBudget.faults > 0
  /\ eBudget' = [eBudget EXCEPT !.faults = @ - 1]
  /\ eBreaker' = RecordProviderFailure(eBreaker)
  /\ eWork' = [eWork EXCEPT !.pc = "stale", !.now = eClock, !.why = "outage"]
  /\ UNCHANGED <<eClock, eTables, eContext, eConfig, ePending, eAnswers, eMarks, eSave, eTokens, eLedger, eApplied, ePastE>>

\* The cache write of an answer, then _finish with the expiry the row carries (_stored_ttl_s).
StoreAnswer ==
  LET k    == eWork.key
      row  == IF eWork.path = NoPath THEN StoreNothing(eWork.src, eWork.now, RouteDay)
              ELSE StoreRoute(eRow[k], eWork.path, eWork.src, eWork.now, eWork.ttl)
      held == IF eWork.path = NoPath THEN RouteDay ELSE IF row.count >= LearnAt THEN LearnedTtl ELSE eTtl
      src  == IF eWork.src = "vrs" THEN "vrs" ELSE "none"          \* a provider's RouteInfo names no source
  IN  /\ eWork.pc = "store"
      /\ eRow' = [eRow EXCEPT ![k] = row]
      /\ Finish(k, [path |-> eWork.path, src |-> src], eWork.now + held)
      /\ UNCHANGED <<eClock, eDirectory, eContext, eConfig, eMarks, eSave, eBreaker, eTokens, eLedger, eBudget,
                     eReported, eDisproved, eBought, eSpoiled>>

\* _serve_stale, and what each of its callers does when there is nothing to serve.
ServeStale ==
  LET k      == eWork.key
      served == StaleRow(k, eWork.now)
  IN  /\ eWork.pc = "stale"
      /\ IF served
         THEN /\ eRow' = [eRow EXCEPT ![k].expires = eWork.now + StaleFor]
              /\ Finish(k, [path |-> eRow[k].path, src |-> eRow[k].src], eWork.now + StaleFor)
              /\ UNCHANGED eUnanswered
         ELSE /\ IF eWork.why = "budget" THEN Fruitless /\ UNCHANGED ePending
                 ELSE eWork' = AtRest /\ ePending' = Unqueued(k)
              /\ eUnanswered' = IF eWork.why = "keyless" THEN [eUnanswered EXCEPT ![k] = eWork.now + Backoff] ELSE eUnanswered
              /\ UNCHANGED <<eRow, eAnswers, eApplied>>
      /\ UNCHANGED <<eClock, eDirectory, eContext, eConfig, eInvalidating, eInvalidated, eSkip, eSave, eBreaker,
                     eTokens, eLedger, eBudget, eReported, eDisproved, eBought, eSpoiled>>

(* ------------------------------- settings ------------------------------- *)

\* apply_provider, _swap_provider, _reset_provider_state: in place, under the running worker.
SwapProvider ==
  /\ eBudget.saves > 0 /\ eSave.pc = "idle"
  /\ eBudget' = [eBudget EXCEPT !.saves = @ - 1]
  /\ eKeyed' = ~eKeyed
  /\ eBreaker' = Closed
  /\ ePending' = <<>> /\ eInvalidating' = {} /\ eUnanswered' = [k \in Callsigns |-> 0]
  /\ UNCHANGED <<eClock, eTables, eContext, eTtl, eLimit, eAnswers, eInvalidated, eSkip, eWork, eSave, eTokens,
                 eLedger, eApplied, eReported, eDisproved, eBought, eSpoiled>>

\* _adopt_economy: new numbers at once, the ledger re-read behind them in two awaits.
AdoptEconomy(limit, ttl) ==
  /\ eBudget.saves > 0 /\ eSave.pc = "idle" /\ <<limit, ttl>> # <<eLimit, eTtl>>
  /\ eBudget' = [eBudget EXCEPT !.saves = @ - 1]
  /\ eLimit' = limit /\ eTtl' = ttl /\ eDay' = -1
  /\ eSave' = [pc |-> "ledger", count |-> 0]
  /\ eSpoiled' = TRUE
  /\ UNCHANGED <<eClock, eTables, eContext, eKeyed, ePending, eAnswers, eMarks, eWork, eBreaker, eTokens, eUsed, eApplied,
                 eReported, eDisproved, eBought>>

SaveLedger ==
  /\ \/ /\ eSave.pc = "ledger"
        /\ eSave' = [pc |-> "set", count |-> CountFetched(eClock)]
        /\ UNCHANGED eLedger
     \/ /\ eSave.pc = "set"
        /\ eSave' = NotSaving
        /\ eUsed' = eSave.count /\ eDay' = Today(eClock)
  /\ UNCHANGED <<eClock, eTables, eContext, eConfig, ePending, eAnswers, eMarks, eWork, eBreaker, eTokens, eApplied,
                 eBudget, ePastE>>

(* ------------------------------- the world ------------------------------ *)

\* promote: an import replaces the directory.
ImportDirectory(k, path) ==
  /\ eBudget.saves > 0 /\ eDirectory[k] # path
  /\ eBudget' = [eBudget EXCEPT !.saves = @ - 1]
  /\ eDirectory' = [eDirectory EXCEPT ![k] = path]
  /\ UNCHANGED <<eClock, eRow, eContext, eConfig, ePending, eAnswers, eMarks, eWork, eSave, eBreaker, eTokens, eLedger,
                 eApplied, ePastE>>

\* prune: maintenance deletes the expired rows.
PruneCache ==
  LET expired == {k \in Callsigns : eRow[k].status # "absent" /\ eRow[k].expires <= eClock}
  IN  /\ expired # {}
      /\ eRow' = [k \in Callsigns |-> IF k \in expired THEN NoRow ELSE eRow[k]]
      /\ UNCHANGED <<eClock, eDirectory, eContext, eConfig, ePending, eAnswers, eMarks, eWork, eSave, eBreaker, eTokens,
                     eLedger, eApplied, eBudget, ePastE>>

\* The process ends, at any await, and another starts: only the tables stay; start re-reads the ledger.
RestartEnrichment ==
  /\ eBudget.ends > 0
  /\ eBudget' = [eBudget EXCEPT !.ends = @ - 1]
  /\ ePending' = <<>> /\ eAnswers' = <<>> /\ eInvalidating' = {} /\ eInvalidated' = {}
  /\ eSkip' = [k \in Callsigns |-> 0] /\ eUnanswered' = [k \in Callsigns |-> 0]
  /\ eWork' = AtRest /\ eSave' = NotSaving /\ eBreaker' = Closed /\ eTokens' = Burst
  /\ eUsed' = CountFetched(eClock) /\ eDay' = Today(eClock)
  /\ eDisproved' = {}
  /\ eSpoiled' = (eSpoiled \/ eWork.pc \in {"ask", "spend", "store"})
  /\ UNCHANGED <<eClock, eTables, eContext, eConfig, eApplied, eReported, eBought>>

\* Time passes: a token accrues, and a request answers within one tick (REQUEST_TIMEOUT_S).
RouteTick ==
  /\ eClock < MaxRouteClock
  /\ eWork.pc # "idle" => eClock = eWork.now
  /\ eClock' = eClock + 1
  /\ eTokens' = IF eTokens < Burst THEN eTokens + 1 ELSE eTokens
  /\ eBought' = IF Today(eClock + 1) # Today(eClock) THEN 0 ELSE eBought
  /\ eSpoiled' = (eSpoiled /\ (Today(eClock + 1) = Today(eClock) \/ eSave.pc # "idle"))
  /\ UNCHANGED <<eTables, eContext, eConfig, ePending, eAnswers, eMarks, eWork, eSave, eBreaker, eLedger, eApplied,
                 eBudget, eReported, eDisproved>>

RouteInit ==
  /\ eClock = 0 /\ eRow = [k \in Callsigns |-> NoRow]
  /\ eDirectory \in [Callsigns -> {NoPath, CHOOSE r \in Paths : TRUE}]
  /\ eContext = [p \in Flights |-> NoPath]
  /\ eKeyed \in BOOLEAN /\ eTtl \in Ttls /\ eLimit \in Limits
  /\ ePending = <<>> /\ eAnswers = <<>> /\ eInvalidating = {} /\ eInvalidated = {}
  /\ eSkip = [k \in Callsigns |-> 0] /\ eUnanswered = [k \in Callsigns |-> 0]
  /\ eWork = AtRest /\ eSave = NotSaving /\ eBreaker = Closed /\ eTokens = Burst
  /\ eUsed = 0 /\ eDay = 0 /\ eApplied = [p \in Flights |-> NoRoute]
  /\ eBudget \in RouteBudgets
  /\ eReported = {} /\ eDisproved = {} /\ eBought = 0 /\ eSpoiled = FALSE

RouteNext ==
  \/ \E p \in Flights : Consider(p) \/ (\E r \in Paths : Latch(p, r))
  \/ DrainBegin \/ ReadCache \/ ReadDirectory \/ ReadLedger \/ ProviderFails \/ StoreAnswer \/ ServeStale
  \/ \E r \in Paths \cup {NoPath} : ProviderAnswers(r)
  \/ SwapProvider \/ (\E l \in Limits, t \in Ttls : AdoptEconomy(l, t)) \/ SaveLedger
  \/ (\E k \in Callsigns, r \in Paths : ImportDirectory(k, r))
  \/ PruneCache \/ RestartEnrichment \/ RouteTick

RouteSpec == RouteInit /\ [][RouteNext]_eVars

(* ------------------------------ properties ------------------------------ *)

RouteTypeOK ==
  /\ eClock \in 0 .. MaxRouteClock /\ eTokens \in 0 .. Burst /\ Len(ePending) <= PendingLimit
  /\ eRow \in [Callsigns -> [status : {"absent", "ok", "none"}, path : Paths \cup {NoPath}, src : {"none", "vrs", "provider"},
                             fetched : Nat, expires : Nat, count : Nat]]
  /\ eWork.pc \in {"idle", "cache", "directory", "ledger", "ask", "spend", "store", "stale"}
  /\ IsInjective([i \in DOMAIN ePending |-> ePending[i].key])

\* A half-open circuit always has its probe out: nothing can take the one permission and not use it, so
\* the breaker never wedges shut (allow, then the limiter, then _request).
ProbeIsInFlight == eBreaker.probing => eWork.pc = "ask"

\* No route is ever applied or cached that a source did not report for that callsign, and a cached row
\* keeps the provenance of its reporter ("never re-attributed, never invented").
NothingInvented ==
  /\ \A p \in Flights : eApplied[p].path # NoPath => <<CallsignOf[p], eApplied[p].path>> \in eReported
  /\ \A k \in Callsigns : eRow[k].status = "ok" => <<k, eRow[k].path>> \in eReported /\ eRow[k].src # "none"

\* A capped day never buys more answers than the cap, through restarts and midnights; a settings save, a
\* deleted row and a request cut short by a restart are excepted.
BudgetHeld == eLimit > 0 /\ ~eSpoiled => eBought <= eLimit

\* A route of the directory that an aircraft disproved is not taken from it again until the skip placed
\* on its callsign has run out, whatever failed meanwhile (_contradicted, _skip_directory).
DisprovedIsSkipped ==
  eWork.pc = "store" /\ eWork.src = "vrs" /\ <<eWork.key, eWork.path>> \in eDisproved
    => eSkip[eWork.key] > 0 /\ eSkip[eWork.key] <= eWork.now

\* "a directory hit is free and is unaffected by a spent budget" (docs/API.md:1190): a drain the budget
\* turns away leaves nothing queued that the directory could have answered.
BudgetBlocksProviderOnly ==
  [][eWork.pc = "stale" /\ eWork.why = "budget" /\ eWork'.pc = "idle" /\ ePending' = ePending =>
       \A i \in DOMAIN ePending : LET k == ePending[i].key IN eDirectory[k] = NoPath \/ eSkip[k] > eClock]_eVars

\* "directory hits are free and uncounted" (docs/CONFIGURATION.md:275).
DirectoryIsUncounted == eDay = Today(eClock) /\ ~eSpoiled => eUsed <= eBought

\* What the enrichment worker promises in every state: honest provenance, a budget that holds, a breaker
\* that cannot wedge, and no disproved answer served again.
RouteInvariant ==
  /\ RouteTypeOK
  /\ ProbeIsInFlight
  /\ NothingInvented
  /\ BudgetHeld
  /\ DisprovedIsSkipped
=============================================================================
