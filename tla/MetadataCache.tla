---------------------------- MODULE MetadataCache ---------------------------
(***************************************************************************)
(* The cache of the metadata component: lookups by the workers of the      *)
(* outlet, calls to the providers that are coalesced, refreshes in the     *)
(* background, expiration, the breaker, and the file the cache survives a  *)
(* restart in.                                                             *)
(*                                                                         *)
(*  - All the queries are for the same exporter, hence one breaker.        *)
(*  - An answer is a version: what the providers say changes with time,    *)
(*    version 0 is the one where all of them skip the query.               *)
(*  - A tick is the interval between two checks of the cache.              *)
(***************************************************************************)
EXTENDS Integers

CONSTANTS Queries,
          Lookers,          \* workers of the outlet
          CacheDuration,
          CacheRefresh,
          QueryTimeout,
          ErrorThreshold,   \* of the breaker
          BreakerTimeout,
          MaxVersion,       \* bound on the versions
          MaxClock,         \* bound on time
          MaxCacheEvents    \* bound on the errors and on the restarts

(* New refuses a refresh before the expiration of what is not used, and    *)
(* an expiration that is sooner than a check.                              *)
ASSUME CacheAssumption ==
  /\ CacheDuration \in Nat \ {0} /\ CacheRefresh \in Nat /\ CacheDuration <= CacheRefresh
  /\ {QueryTimeout, BreakerTimeout, MaxVersion, MaxClock, MaxCacheEvents} \subseteq Nat
  /\ ErrorThreshold \in Nat \ {0}

(* A call for a lookup, and a refresh for each check that may be pending.  *)
Slots == 0..(QueryTimeout + 1)

Missing == [object |-> -1, accessed |-> -1, updated |-> -1]
NoCall == [now |-> -1, answer |-> -1]
Pending == -2

VARIABLES
  clock,
  checked,   \* whether the cache was checked in this tick
  up,        \* whether the component is started
  started,   \* when it started
  items,     \* entry of each query
  calls,     \* calls of queryProviders for each query
  waiting,   \* stage of the lookup of each worker
  breaker,
  file,      \* what is in CachePersistFile
  truth,     \* version of what the providers answer for each query
  changed,   \* when it last changed
  used,      \* when each query was last looked up
  cacheEvents

cacheVars == <<clock, checked, up, started, items, calls, waiting, breaker, file,
               truth, changed, used, cacheEvents>>

NoLookup == [query |-> "none", stage |-> "idle"]

Closed == [state |-> "closed", errors |-> 0, since |-> 0]

CacheInit ==
  /\ clock = 0
  /\ checked = TRUE
  /\ up = TRUE
  /\ started = 0
  /\ items = [q \in Queries |-> Missing]
  /\ calls = [q \in Queries |-> [i \in Slots |-> NoCall]]
  /\ waiting = [w \in Lookers |-> NoLookup]
  /\ breaker = Closed
  /\ file = items
  /\ truth = [q \in Queries |-> 0]
  /\ changed = [q \in Queries |-> 0]
  /\ used = [q \in Queries |-> 0]
  /\ cacheEvents = 0

CacheEvent == cacheEvents < MaxCacheEvents /\ cacheEvents' = cacheEvents + 1

(* Mistake: the entry has the time at which it is put.                     *)
PutLate(now, q, object) ==
  items' = [items EXCEPT ![q] = [object |-> object, accessed |-> clock, updated |-> clock]]

(***************************************************************************)
(* The cache.                                                              *)
(***************************************************************************)
Put(now, q, object) ==
  items' = [items EXCEPT ![q] = [object |-> object, accessed |-> now, updated |-> now]]

DeleteLastAccessedBefore(before) ==
  [q \in Queries |-> IF items[q].accessed < before THEN Missing ELSE items[q]]

ItemsLastUpdatedBefore(entries, before) ==
  {q \in Queries : entries[q] # Missing /\ entries[q].updated < before}

(***************************************************************************)
(* Lookups and calls to the providers.                                     *)
(***************************************************************************)
LookupHit(w, q) ==
  /\ up /\ waiting[w] = NoLookup /\ items[q] # Missing
  /\ items' = [items EXCEPT ![q].accessed = clock]
  /\ used' = [used EXCEPT ![q] = clock]
  /\ UNCHANGED <<clock, checked, up, started, calls, waiting, breaker, file, truth,
                 changed, cacheEvents>>

LookupMiss(w, q) ==
  /\ up /\ waiting[w] = NoLookup /\ items[q] = Missing
  /\ waiting' = [waiting EXCEPT ![w] = [query |-> q, stage |-> "missed"]]
  /\ used' = [used EXCEPT ![q] = clock]
  /\ UNCHANGED <<clock, checked, up, started, items, calls, breaker, file, truth,
                 changed, cacheEvents>>

Begin(now) == [now |-> now, answer |-> Pending]

(* singleflight: a worker joins the call in flight, or starts one, which   *)
(* ends at once with the breaker open.                                     *)
Do(w) ==
  /\ waiting[w].stage = "missed"
  /\ LET q == waiting[w].query
     IN  IF calls[q][0] = NoCall /\ breaker.state = "open"
         THEN waiting' = [waiting EXCEPT ![w] = NoLookup] /\ UNCHANGED calls
         ELSE /\ waiting' = [waiting EXCEPT ![w].stage = "waiting"]
              /\ calls' = IF calls[q][0] = NoCall
                          THEN [calls EXCEPT ![q][0] = Begin(clock)] ELSE calls
  /\ UNCHANGED <<clock, checked, up, started, items, breaker, file, truth, changed,
                 used, cacheEvents>>

(* A provider answers with what it knows at this time.                     *)
ProviderAnswers(q, i) ==
  /\ calls[q][i].answer = Pending
  /\ calls' = [calls EXCEPT ![q][i].answer = truth[q]]
  /\ UNCHANGED <<clock, checked, up, started, items, waiting, breaker, file, truth,
                 changed, used, cacheEvents>>

EndCall(q, i) ==
  /\ calls' = [calls EXCEPT ![q][i] = NoCall]
  /\ waiting' = IF i # 0 THEN waiting
                ELSE [w \in Lookers |->
                        IF waiting[w] = [query |-> q, stage |-> "waiting"]
                        THEN NoLookup ELSE waiting[w]]

(* What no provider handles is cached as well, as a negative answer.       *)
queryProviders(q, i) ==
  /\ calls[q][i].answer >= 0
  /\ Put(calls[q][i].now, q, calls[q][i].answer)
  /\ EndCall(q, i)
  /\ breaker' = IF breaker.state = "halfOpen" THEN Closed ELSE breaker
  /\ UNCHANGED <<clock, checked, up, started, file, truth, changed, used, cacheEvents>>

Opened == [state |-> "open", errors |-> 0, since |-> clock]

(* An error of a provider, its timeout included: nothing is cached.        *)
queryProvidersFails(q, i) ==
  /\ calls[q][i] # NoCall /\ calls[q][i].answer = Pending
  /\ CacheEvent
  /\ EndCall(q, i)
  /\ LET errors == IF clock > breaker.since + BreakerTimeout THEN 1
                   ELSE breaker.errors + 1
     IN  breaker' = IF breaker.state = "open" THEN breaker
                    ELSE IF breaker.state = "halfOpen" \/ errors >= ErrorThreshold THEN Opened
                    ELSE [state |-> "closed", errors |-> errors, since |-> clock]
  /\ UNCHANGED <<clock, checked, up, started, items, file, truth, changed, used>>

(* The timer of the breaker.                                               *)
BreakerTimer ==
  /\ breaker.state = "open" /\ clock >= breaker.since + BreakerTimeout
  /\ breaker' = [breaker EXCEPT !.state = "halfOpen"]
  /\ UNCHANGED <<clock, checked, up, started, items, calls, waiting, file, truth,
                 changed, used, cacheEvents>>

(***************************************************************************)
(* Expiration and refresh.                                                 *)
(***************************************************************************)
FreeSlot(q) == CHOOSE i \in Slots \ {0} : calls[q][i] = NoCall

expireCache ==
  /\ up /\ ~ checked
  /\ checked' = TRUE
  /\ items' = DeleteLastAccessedBefore(clock - CacheDuration)
  /\ calls' = [q \in Queries |->
                 IF /\ q \in ItemsLastUpdatedBefore(items', clock - CacheRefresh)
                    /\ breaker.state # "open"
                 THEN [calls[q] EXCEPT ![FreeSlot(q)] = Begin(clock)] ELSE calls[q]]
  /\ UNCHANGED <<clock, up, started, waiting, breaker, file, truth, changed, used,
                 cacheEvents>>

(* Time passes when the check is done and no call is out of time.          *)
ClockTick ==
  /\ clock < MaxClock
  /\ checked \/ ~ up
  /\ \A q \in Queries, i \in Slots :
       calls[q][i] # NoCall => clock < calls[q][i].now + QueryTimeout
  /\ \A w \in Lookers : waiting[w].stage # "missed"
  /\ clock' = clock + 1
  /\ checked' = FALSE
  /\ UNCHANGED <<up, started, items, calls, waiting, breaker, file, truth, changed, used,
                 cacheEvents>>

ProvidersChange(q) ==
  /\ truth[q] < MaxVersion
  /\ truth' = [truth EXCEPT ![q] = @ + 1]
  /\ changed' = [changed EXCEPT ![q] = clock]
  /\ UNCHANGED <<clock, checked, up, started, items, calls, waiting, breaker, file, used,
                 cacheEvents>>

(***************************************************************************)
(* Stop saves the cache, a crash does not.  Start loads what is there,     *)
(* unless the file is of another version, and forgets the breaker.         *)
(***************************************************************************)
CacheStop ==
  /\ up
  /\ CacheEvent
  /\ up' = FALSE
  /\ file' \in {items, file}
  /\ items' = [q \in Queries |-> Missing]
  /\ calls' = [q \in Queries |-> [i \in Slots |-> NoCall]]
  /\ waiting' = [w \in Lookers |-> NoLookup]
  /\ breaker' = Closed
  /\ UNCHANGED <<clock, checked, started, truth, changed, used>>

CacheStart ==
  /\ ~ up
  /\ up' = TRUE
  /\ started' = clock
  /\ checked' = TRUE
  /\ items' \in {file, [q \in Queries |-> Missing]}
  /\ UNCHANGED <<clock, calls, waiting, breaker, file, truth, changed, used,
                 cacheEvents>>

CacheNext ==
  \/ \E w \in Lookers :
       Do(w) \/ \E q \in Queries : LookupHit(w, q) \/ LookupMiss(w, q)
  \/ \E q \in Queries :
       \/ ProvidersChange(q)
       \/ \E i \in Slots :
            ProviderAnswers(q, i) \/ queryProviders(q, i) \/ queryProvidersFails(q, i)
  \/ expireCache \/ ClockTick \/ BreakerTimer
  \/ CacheStop \/ CacheStart

CacheSpec == CacheInit /\ [][CacheNext]_cacheVars

-----------------------------------------------------------------------------
CacheTypeOK ==
  LET Item == [object : 0..MaxVersion, accessed : 0..MaxClock, updated : 0..MaxClock]
  IN  /\ clock \in 0..MaxClock
      /\ items \in [Queries -> Item \cup {Missing}]
      /\ file \in [Queries -> Item \cup {Missing}]
      /\ calls \in [Queries -> [Slots -> {NoCall} \cup
                     [now : 0..MaxClock, answer : {Pending} \cup 0..MaxVersion]]]
      /\ breaker \in [state : {"closed", "open", "halfOpen"},
                      errors : 0..(ErrorThreshold - 1), since : 0..MaxClock]
      /\ \A q \in Queries : items[q].accessed >= items[q].updated

(* What is cached was true after the time of its update, even when a       *)
(* lookup and a refresh of the same entry overtake each other: the age of  *)
(* an entry is never underestimated.                                       *)
UpdatedIsTrue ==
  \A q \in Queries :
    items[q] # Missing /\ items[q].object = truth[q] - 1 =>
      items[q].updated <= changed[q]

Longer(a, b) == IF a > b THEN a ELSE b

(* As long as providers answer, a change is in the cache after the refresh *)
(* interval, a tick and a timeout, a negative answer being like another,   *)
(* even when a refresh is overtaken by one that began before it.           *)
StaleBounded ==
  \A q \in Queries :
    cacheEvents = 0 /\ items[q] # Missing /\ items[q].object # truth[q] =>
      clock <= changed[q] + Longer(CacheRefresh, QueryTimeout) + 1 + QueryTimeout

(* Refreshes do not keep alive an entry that is not looked up any more,    *)
(* not even one that ends after the entry was expired.                     *)
UnusedLeaves ==
  \A q \in Queries :
    up /\ checked /\ clock > started /\ items[q] # Missing =>
      clock <= used[q] + CacheDuration + Longer(CacheDuration, QueryTimeout)

(* The cache at every step: true when it was updated, updated again before *)
(* it is too old, and gone when it is not used.                            *)
CacheRight == CacheTypeOK /\ UpdatedIsTrue /\ StaleBounded /\ UnusedLeaves
=============================================================================
