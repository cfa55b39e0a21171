----------------------------- MODULE Completion -----------------------------
(***************************************************************************)
(* console/filter.go: filterCompleteHandlerFunc, what the editor of        *)
(* filters offers for a column, an operator or a value.  The queries match *)
(* the prefix themselves, often on a text that is not the one that is      *)
(* inserted; what is left is matched on the label.  When the database does *)
(* not answer, the handler goes on with what it has and answers 200.       *)
(***************************************************************************)
EXTENDS Integers, Sequences, SequencesExt

CONSTANTS
  FilterColumns,          \* the columns of the schema in the order of their names,
                          \* [name, parser, disabled, kind]
  RowsOf,                 \* per kind of column, what the flows and the dictionaries have,
                          \* [flows, dictionary], the most used first
  FixedValues,            \* per column of a fixed kind, its values
  Operators,              \* per type of the parser, the operators of the grammar
  Starts,                 \* per text, what it starts with, whatever the case
  StartsExactly,          \* per text, what it starts with, the case included
  Occurs,                 \* per text, what occurs in it, whatever the case
  CompletionRequests,     \* requests of the editor, [what, column, operator, prefix]
  Limit

VARIABLE completed        \* the last request, whether the database was up, and what was offered

(* Labels and details, the empty prefix is in all of them.                 *)
Entry(label, detail) == [label |-> label, detail |-> detail]
Begins(text, prefix) == prefix = "" \/ prefix \in Starts[text]
BeginsExactly(text, prefix) == prefix = "" \/ prefix \in StartsExactly[text]
Mentions(text, prefix) == prefix = "" \/ prefix \in Occurs[text]

ColumnNamed(name) == SelectSeq(FilterColumns, LAMBDA c : c.name = name)[1]

Labelled(texts, detail) == [i \in DOMAIN texts |-> Entry(texts[i], detail)]

NamesOf(columns) == [i \in DOMAIN columns |-> columns[i].name]

ColumnCompletions ==
  Labelled(NamesOf(SelectSeq(FilterColumns, LAMBDA c : ~c.disabled /\ c.parser # "")), "column name")

(* What the parser of the filters expects after the column.                *)
OperatorCompletions(name) == Labelled(Operators[ColumnNamed(name).parser], "comparison operator")

ComparedWith(parser) ==
  CASE parser = "uint" -> {"=", "!=", "<", "<=", ">", ">="}
    [] parser \in {"asn", "string"} -> {"=", "!="}
    [] OTHER -> {}

filterComparableColumns(name, operator, prefix) ==
  LET parser == ColumnNamed(name).parser
  IN IF operator \notin ComparedWith(parser) THEN <<>>
     ELSE Labelled(NamesOf(SelectSeq(FilterColumns, LAMBDA c :
            /\ ~c.disabled /\ c.parser = parser /\ c.name # name
            /\ Begins(c.name, prefix))), "column name")

First(rows) == SubSeq(rows, 1, IF Len(rows) < Limit THEN Len(rows) ELSE Limit)

(* matchPrefix, whatever the case, or startsWith.  The names of the AS and *)
(* of the ports are looked for, their numbers are inserted.                *)
Matching(kind, prefix, rows) ==
  SelectSeq(rows, LAMBDA e :
    CASE kind \in {"as", "port"} -> Mentions(e.detail, prefix)
      [] kind \in {"mac", "network", "icmp", "exporters"} -> Mentions(e.label, prefix)
      [] kind \in {"communities", "custom"} -> BeginsExactly(e.label, prefix))

(* Only some queries leave out the flows with nothing to look into, none   *)
(* does so for the dictionaries.                                           *)
NotEmpty(kind, rows) ==
  SelectSeq(rows, LAMBDA e : /\ kind \in {"as", "port"} => e.detail # ""
                             /\ kind = "network" => e.label # "")

(* fromFlows and fromDictionary, the flows are the first ones.  The ports  *)
(* are grouped on their rank too: the ones of the flows come again.        *)
QueryValues(kind, prefix) ==
  LET seen == First(Matching(kind, prefix, NotEmpty(kind, RowsOf[kind].flows)))
      known == First(Matching(kind, prefix, RowsOf[kind].dictionary))
      others == SelectSeq(known, LAMBDA e : kind = "port" \/ \A i \in DOMAIN seen : seen[i] # e)
  IN First(seen \o others)

(* "We have handled this internally", once there is an answer.             *)
PrefixLeft(kind, prefix, answered) ==
  IF answered /\ kind \notin {"fixed", "custom", "none"} THEN "" ELSE prefix

Comparable(asked, prefix) ==
  filterComparableColumns(asked.column, asked.operator, asked.prefix)

(* The break of a query that fails leaves the switch on the column, or the *)
(* loop on the custom columns, and the columns follow.  The one of the     *)
(* exporters is in neither: it leaves the switch on what is completed.     *)
ValueCompletions(asked, up) ==
  LET kind == ColumnNamed(asked.column).kind
      answered == up \/ kind \in {"fixed", "none"}
      values == IF kind = "fixed" THEN FixedValues[asked.column]
                ELSE IF kind = "none" \/ ~answered THEN <<>>
                ELSE QueryValues(kind, asked.prefix)
      left == PrefixLeft(kind, asked.prefix, answered)
      columns == IF kind = "exporters" /\ ~answered THEN <<>> ELSE Comparable(asked, left)
  IN SelectSeq(values \o columns, LAMBDA e : Begins(e.label, left))

filterCompleteHandlerFunc(asked, up) ==
  [status |-> 200, panics |-> FALSE,
   body |-> CASE asked.what = "column" ->
                   SelectSeq(ColumnCompletions, LAMBDA e : Begins(e.label, asked.prefix))
              [] asked.what = "operator" ->
                   SelectSeq(OperatorCompletions(asked.column), LAMBDA e : Begins(e.label, asked.prefix))
              [] asked.what = "value" -> ValueCompletions(asked, up)]

NothingCompleted == [request |-> [what |-> "nothing"], up |-> TRUE, offered |-> <<>>]

CompletionInit == completed = NothingCompleted

Complete ==
  \E asked \in CompletionRequests, up \in BOOLEAN :
    completed' = [request |-> asked, up |-> up,
                  offered |-> filterCompleteHandlerFunc(asked, up).body]

----------------------------------------------------------------------------
(* Properties                                                              *)

(* What may be inserted for a value: the columns it can be compared with,  *)
(* its rows and its fixed values.                                          *)
IsColumn(e, asked) ==
  \E i \in DOMAIN FilterColumns :
    /\ e.label = FilterColumns[i].name
    /\ ~FilterColumns[i].disabled /\ FilterColumns[i].name # asked.column

KnownRows(kind) ==
  ToSet(NotEmpty(kind, RowsOf[kind].flows)) \cup ToSet(RowsOf[kind].dictionary)

(* A text has what was typed in it, whatever the case; a custom column and *)
(* a community start with it as it was typed.                              *)
RowsTyped(kind, prefix) ==
  {e \in KnownRows(kind) :
     CASE kind \in {"as", "port"} -> Mentions(e.detail, prefix)
       [] kind \in {"communities", "custom"} -> BeginsExactly(e.label, prefix)
       [] OTHER -> Mentions(e.label, prefix)}

(* filterCompleteHandlerFunc, for the value of a column: what is offered   *)
(* goes on with what was typed, in the name of a column or in the label or *)
(* the detail of a row, and as long as the limit is not reached no column  *)
(* nor any row that does is missing, those of a custom column being        *)
(* looked for with their case.  The columns are there even without the     *)
(* database, but for the columns of the exporters.                         *)
OffersRight ==
  completed.request.what = "value" =>
    LET asked == completed.request
        offered == completed.offered
        self == ColumnNamed(asked.column)
        rows == IF self.kind \in DOMAIN RowsOf /\ completed.up
                THEN RowsTyped(self.kind, asked.prefix) ELSE {}
    IN /\ \A e \in ToSet(offered) :
            \/ e \in rows
            \/ Begins(e.label, asked.prefix) /\ (self.kind = "fixed" \/ IsColumn(e, asked))
       /\ \/ rows \subseteq ToSet(offered)
          \/ Len(SelectSeq(offered, LAMBDA e : e \in rows)) >= Limit
       /\ (completed.up \/ self.kind # "exporters") /\ asked.operator = "=" =>
            \A c \in ToSet(FilterColumns) :
              /\ ~c.disabled /\ c.parser # "" /\ c.parser = self.parser
              /\ c.name # self.name /\ Begins(c.name, asked.prefix)
              => Entry(c.name, "column name") \in ToSet(offered)

----------------------------------------------------------------------------
(* common/httpserver/cache.go and cachestore/memory.go: the answers of     *)
(* some handlers of the console, this one and those of the graphs among    *)
(* them, are kept for a while.  A client looks into the store, runs the    *)
(* handler on a miss and stores what it got: two of them may do it         *)
(* together.  The sweeper reads the clock before it takes the lock.        *)

CONSTANTS
  Endpoint(_, _),         \* what the handler answers to a request, the database being up or not
  HttpRequests,           \* requests, [endpoint, body]
  HttpClients,            \* clients, each with one request at a time
  Ttl,                    \* for how long an answer is kept
  MaxTime                 \* bound: the end of the time

VARIABLES
  now, databaseUp,
  store,                  \* the entries of the store, by key
  clients,                \* per client, the request it makes and its answer
  sweepAt,                \* the time the sweeper read, -1 when it sleeps
  hit                     \* the last response out of the store since the clock moved, and its request

cacheVars == <<now, databaseUp, store, clients, sweepAt, hit>>

NoHit == [status |-> 0]
AtRest == [step |-> "idle"]

CacheInit ==
  /\ now = 0 /\ databaseUp \in BOOLEAN
  /\ store = [k \in {} |-> 0] /\ sweepAt = -1
  /\ clients = [c \in HttpClients |-> AtRest]
  /\ hit = NoHit

Tick ==
  /\ now < MaxTime /\ now' = now + 1 /\ databaseUp' \in BOOLEAN /\ hit' = NoHit
  /\ UNCHANGED <<store, clients, sweepAt>>

(* CacheByRequestBody: the method and the path are the endpoint.           *)
CacheKey(asked) == <<asked.endpoint, asked.body>>

ASSUME CacheAssumption ==
  /\ Ttl \in Nat
  /\ \A asked \in HttpRequests : asked = [endpoint |-> asked.endpoint, body |-> asked.body]

(* Mistake: only the sweeper looks at the time.                            *)
StoreGetSwept(key) == key \in DOMAIN store

(* Memory.Get.                                                             *)
StoreGet(key) == key \in DOMAIN store /\ now <= store[key].expires

(* Memory.Set.                                                             *)
StoreSet(key, answer) ==
  store' = [k \in DOMAIN store \cup {key} |->
              IF k = key THEN [response |-> answer, expires |-> now + Ttl] ELSE store[k]]

(* cacheMiddleware, up to the handler.  The key of a body that cannot be   *)
(* read is not known, and an error of the store is a miss.                 *)
Ask(c, asked) ==
  /\ clients[c].step = "idle"
  /\ \E readable, storeWorks \in BOOLEAN :
       LET key == CacheKey(asked)
       IN IF readable /\ storeWorks /\ StoreGet(key)
          THEN /\ hit' = [status |-> store[key].response.status,
                          body |-> store[key].response.body, to |-> asked]
               /\ UNCHANGED clients
          ELSE /\ clients' = [clients EXCEPT ![c] =
                    [step |-> "handler", request |-> asked, readable |-> readable]]
               /\ UNCHANGED hit
  /\ UNCHANGED <<now, databaseUp, store, sweepAt>>

(* The handler answers, or panics: recoveryMiddleware answers 500 for it   *)
(* and the middleware of the cache does not go on.                         *)
Compute(c) ==
  /\ clients[c].step = "handler"
  /\ LET answer == Endpoint(clients[c].request, databaseUp)
     IN clients' = [clients EXCEPT ![c] =
          IF answer.panics \/ ~clients[c].readable THEN AtRest
          ELSE [step |-> "answered", request |-> clients[c].request,
                response |-> [status |-> answer.status, body |-> answer.body]]]
  /\ UNCHANGED <<now, databaseUp, store, sweepAt, hit>>

Cacheable(status) == status \in 200..299

(* What follows the response: Set, that may fail.                          *)
Remember(c) ==
  /\ clients[c].step = "answered"
  /\ clients' = [clients EXCEPT ![c] = AtRest]
  /\ IF Cacheable(clients[c].response.status)
     THEN StoreSet(CacheKey(clients[c].request), clients[c].response) \/ UNCHANGED store
     ELSE UNCHANGED store
  /\ UNCHANGED <<now, databaseUp, sweepAt, hit>>

SweepStarts ==
  /\ sweepAt = -1 /\ sweepAt' = now
  /\ UNCHANGED <<now, databaseUp, store, clients, hit>>

Sweep ==
  /\ sweepAt # -1 /\ sweepAt' = -1
  /\ store' = [k \in {k \in DOMAIN store : sweepAt <= store[k].expires} |-> store[k]]
  /\ UNCHANGED <<now, databaseUp, clients, hit>>

CacheNext ==
  \/ Tick \/ SweepStarts \/ Sweep
  \/ \E c \in HttpClients :
       \/ \E asked \in HttpRequests : Ask(c, asked)
       \/ Compute(c) \/ Remember(c)

CacheSpec == CacheInit /\ [][CacheNext]_cacheVars

----------------------------------------------------------------------------
(* Properties                                                              *)

(* cacheMiddleware: what a client gets from the store is a success, of the *)
(* handler for this very request, whoever else runs the handler, stores    *)
(* its answer or sweeps the store meanwhile.                               *)
HitsRight ==
  hit # NoHit =>
    /\ hit.status \in 200..299
    /\ \E up \in BOOLEAN :
         LET answer == Endpoint(hit.to, up)
         IN hit.status = answer.status /\ hit.body = answer.body

(* Memory: an entry that is read is not older than its time to live.  It   *)
(* counts from Set: what the handler took comes on top.                    *)
HitsFresh ==
  [][hit' \notin {hit, NoHit} =>
       \E k \in DOMAIN store :
         /\ store[k].response.body = hit'.body
         /\ store[k].expires - Ttl <= now /\ now <= store[k].expires]_cacheVars

(* What is answered from the store is what the handler said of the same    *)
(* request, not longer ago than it may.                                    *)
AnswersRight == []HitsRight /\ HitsFresh
=============================================================================
