------------------------------- MODULE Charts -------------------------------
(***************************************************************************)
(* console: the line and the Sankey graphs.  A request is checked, a table *)
(* is chosen among those the console knows of, the axes are queried in one *)
(* statement, and the rows ClickHouse returns are put together.            *)
(*                                                                         *)
(* The direction of a flow is reversed by swapping its source and its      *)
(* destination.  Axis 1 is the main one, axis 2 the reverse direction, and *)
(* axes 3 and 4 are the same ones during the previous period.              *)
(*                                                                         *)
(* Times are seconds since the Unix epoch, intervals and resolutions are   *)
(* in seconds too.                                                         *)
(***************************************************************************)
EXTENDS Integers, Sequences, FiniteSets, SequencesExt, FiniteSetsExt, TLC

CONSTANTS
  ZeroTime,               \* the epoch, in seconds since the zero time of Go
  FlowsSent,              \* flows: [time, SrcAS, DstAS, SrcPort, bytes], with distinct times
  Inventories,            \* what the database may have: sequences of tables
  Requests                \* what users may ask for

VARIABLES
  database,               \* the tables of the database
  flowsTables,            \* those the console knows of
  request, resolution,    \* the request, and its table and interval
  selected,               \* the CTE "rows"
  results,                \* per axis, the rows of ClickHouse
  output                  \* what the user gets

chartVars == <<database, flowsTables, request, resolution, selected, results, output>>

Nothing == [kind |-> "none"]
Panic == [kind |-> "panic"]
BadRequest == [kind |-> "bad request"]
DatabaseError == [kind |-> "error"]

ChartsInit ==
  /\ database \in Inventories
  /\ flowsTables = <<[name |-> "flows", resolution |-> 0, oldest |-> 0]>>
  /\ request = Nothing /\ resolution = Nothing /\ selected = {} /\ results = {}
  /\ output = Nothing

Idle == request = Nothing

(* Data expire and tables are created while nobody looks; nothing depends  *)
(* on the database once it has answered.                                   *)
DatabaseChanges ==
  /\ results = {} /\ database' \in Inventories
  /\ UNCHANGED <<flowsTables, request, resolution, selected, results, output>>

(* An error, or no table at all, keeps what is known.                      *)
refreshFlowsTables ==
  /\ flowsTables' = database /\ database # <<>>
  /\ UNCHANGED <<database, request, resolution, selected, results, output>>

----------------------------------------------------------------------------
(* console/clickhouse.go: the table and the interval that fit a query, and *)
(* the range it covers                                                     *)

(* time.Truncate is about the zero time, ClickHouse counts from the epoch.  *)
Truncate(at, unit) == at - ((at + ZeroTime) % unit)

Oldest(table) == table.oldest + table.resolution

(* With no table that has the start of the range, the one with the oldest  *)
(* data and those that are almost as old.                                  *)
Fallbacks(tables) ==
  LET best == FoldLeft(LAMBDA b, t : IF b.oldest > Oldest(t) THEN t ELSE b, tables[1], tables)
  IN {best} \cup {t \in Range(tables) : best.oldest > t.oldest}

Candidates(tables, start) ==
  IF \E t \in Range(tables) : start > Oldest(t)
  THEN {t \in Range(tables) : start > Oldest(t)} ELSE Fallbacks(tables)

(* The coarsest table that is not coarser than the target.                 *)
getBestTable(tables, start, target) ==
  LET candidates == Candidates(tables, start)
      fine == {t \in candidates : t.resolution <= target}
  IN IF fine = {} THEN CHOOSE t \in candidates : \A u \in candidates : t.resolution <= u.resolution
     ELSE CHOOSE t \in fine : \A u \in fine : t.resolution >= u.resolution

targetInterval(input) == Max({1, (input.end - input.start) \div input.points})

(* resolve, the resolution all the axes of a query share.  The tables that *)
(* were known then are a ghost.                                            *)
resolve(input, tables) ==
  LET target == targetInterval(input)
      best == getBestTable(tables, input.start, target)
      tableInterval == IF input.main THEN 1 ELSE Max({1, best.resolution})
  IN [table |-> IF input.main THEN "flows" ELSE best.name,
      tableInterval |-> tableInterval,
      interval |-> IF target > tableInterval THEN target - (target % tableInterval) ELSE tableInterval,
      known |-> tables]

(* The shift that makes the buckets of toStartOfInterval start with the    *)
(* range.                                                                  *)
intervalOffset(start, interval) == interval - (start % interval)

forRange(res, start, end) ==
  LET from == Truncate(start, res.tableInterval)
      length == Truncate(end, res.tableInterval) - from
  IN [interval |-> res.interval, start |-> from, end |-> from + length - (length % res.interval),
      offset |-> intervalOffset(from, res.interval)]

(* Mistake: the buckets keep the shift of the main period.                 *)
shiftBackRange(r, shift) == [r EXCEPT !.start = @ - shift, !.end = @ - shift]

shiftBack(r, shift) ==
  [r EXCEPT !.start = @ - shift, !.end = @ - shift,
            !.offset = intervalOffset(r.start - shift, r.interval)]

(* ClickHouse: toStartOfInterval(time + offset) - offset.                  *)
toStartOfInterval(r, at) == at - ((at + r.offset) % r.interval)

timefilter(r, at) == r.start <= at /\ at <= r.end

(* ClickHouse: WITH FILL FROM start TO end + 1 STEP interval.              *)
Fill(r) == {r.start + k * r.interval : k \in 0..((r.end - r.start) \div r.interval)}

----------------------------------------------------------------------------
(* Columns and filters                                                     *)

Columns == {"SrcAS", "DstAS", "SrcPort"}

(* A column whose reverse is not enabled (DstPort) stays as it is.         *)
ReverseColumn(column) ==
  CASE column = "SrcAS" -> "DstAS" [] column = "DstAS" -> "SrcAS" [] OTHER -> column

MainOnly(column) == column = "SrcPort"

ReverseColumns(dimensions) == [i \in DOMAIN dimensions |-> ReverseColumn(dimensions[i])]

(* A filter is a column and a value; Swap() keeps the value.               *)
Matches(filter, reversed, flow) ==
  filter = <<>> \/ flow[IF reversed THEN ReverseColumn(filter[1]) ELSE filter[1]] = filter[2]

requireMainTable(input) ==
  \/ \E i \in DOMAIN input.dimensions : MainOnly(input.dimensions[i])
  \/ input.filter # <<>> /\ MainOnly(input.filter[1])

Known(input) == \A i \in DOMAIN input.dimensions : input.dimensions[i] \in Columns

----------------------------------------------------------------------------
(* What ClickHouse has                                                     *)

(* A consolidated table has one row for the flows of an interval.          *)
StoredTime(table, flow) ==
  IF table.resolution = 0 THEN flow.time ELSE flow.time - (flow.time % table.resolution)

Rows(name) ==
  UNION {{[flow EXCEPT !.time = StoredTime(t, flow)] @@ [id |-> flow.time] :
            flow \in {f \in FlowsSent : StoredTime(t, f) >= t.oldest}} :
         t \in {t \in Range(database) : t.name = name}}

Values(dimensions, flow) == [i \in DOMAIN dimensions |-> flow[dimensions[i]]]

Bytes(flows) == MapThenSumSet(LAMBDA f : f.bytes, flows)

(* Sets of the best values, of those that are as good any may be taken.    *)
Best(values, limit, weight) ==
  {s \in SUBSET values :
     /\ Cardinality(s) = Min({limit, Cardinality(values)})
     /\ \A v \in s, w \in values \ s : weight[v] >= weight[w]}

(* selectRowsByLimitType, and selectRowsByTopK, an approximation.          *)
SelectRows(input, r, rows) ==
  LET dims(f) == Values(input.dimensions, f)
      flows == {f \in rows : timefilter(r, f.time) /\ Matches(input.filter, FALSE, f)}
      values == {dims(f) : f \in flows}
      last == {f \in flows : f.time >= r.end - r.interval}
      peak == [v \in values |->
                 Max({Bytes({f \in flows : dims(f) = v /\ toStartOfInterval(r, f.time) = t}) :
                        t \in {toStartOfInterval(r, f.time) : f \in flows}})]
      sum == [v \in values |-> Bytes({f \in flows : dims(f) = v})]
      recent == [v \in values |-> Bytes({f \in last : dims(f) = v})]
  IN IF input.dimensions = <<>> THEN {{}}
     ELSE IF input.limitType = "max" THEN Best(values, input.limit, peak)
     ELSE IF input.limitType = "last" THEN Best({dims(f) : f \in last}, input.limit, recent)
     ELSE IF resolution.table = "flows"
                   THEN {s \in SUBSET values : Cardinality(s) = Min({input.limit, Cardinality(values)})}
                   ELSE Best(values, input.limit, sum)

----------------------------------------------------------------------------
(* Requests                                                                *)

Submit(input) ==
  /\ Idle /\ request' = input
  /\ UNCHANGED <<database, flowsTables, resolution, selected, results, output>>

(* A Sankey graph needs a dimension.                                       *)
ValidRequest(input) == Known(input) /\ (input.kind = "sankey" => input.dimensions # <<>>)

RefuseRequest ==
  /\ ~Idle /\ output = Nothing /\ resolution = Nothing /\ ~ValidRequest(request)
  /\ output' = BadRequest
  /\ UNCHANGED <<database, flowsTables, request, resolution, selected, results>>

Context(input) ==
  [start |-> input.start, end |-> input.end, main |-> requireMainTable(input),
   points |-> IF input.kind = "sankey" THEN 20 ELSE input.points]

Resolve ==
  /\ ~Idle /\ output = Nothing /\ resolution = Nothing /\ ValidRequest(request)
  /\ resolution' = resolve(Context(request), flowsTables)
  /\ UNCHANGED <<database, flowsTables, request, selected, results, output>>

(* previousPeriod: the lengths of the periods are those of the model.      *)
Period(input) ==
  LET length == input.end - input.start
  IN IF length < 10 THEN 8 ELSE IF length < 20 THEN 16 ELSE 21

Main == forRange(resolution, request.start, request.end)

Axes(input) ==
  {1} \cup (IF input.bidirectional THEN {2} ELSE {})
      \cup (IF input.previousPeriod THEN {3} ELSE {})
      \cup (IF input.bidirectional /\ input.previousPeriod THEN {4} ELSE {})

Previous(axis) == axis \in {3, 4}
Reversed(axis) == axis \in {2, 4}

(* The dimensions of the previous period are stripped.                     *)
DimensionsOf(axis) ==
  IF Previous(axis) THEN <<>>
  ELSE IF Reversed(axis) THEN ReverseColumns(request.dimensions) ELSE request.dimensions

Shift(axis) == IF Previous(axis) THEN Period(request) ELSE 0
RangeOf(axis) == IF Previous(axis) THEN shiftBack(Main, Period(request)) ELSE Main

Others(dimensions) == [i \in DOMAIN dimensions |-> <<"Other">>]

(* A value out of the selected ones is folded with the others.             *)
Folded(dimensions, rows, flow) ==
  IF Values(dimensions, flow) \in rows THEN Values(dimensions, flow) ELSE Others(dimensions)

(* The rows of an axis: the traffic per second of each interval and each   *)
(* row, and nothing where there is none.  ClickHouse returns them in the   *)
(* order of their times, which is all that matters.  The statement of an   *)
(* axis compares its own values with the rows of the main one.             *)
LineRows(axis, rows) ==
  LET r == RangeOf(axis)
      dims == DimensionsOf(axis)
      flows == {f \in Rows(resolution.table) :
                  timefilter(r, f.time) /\ Matches(request.filter, Reversed(axis), f)}
      key(f) == [time |-> toStartOfInterval(r, f.time), row |-> Folded(dims, rows, f)]
      found == {[key(f) EXCEPT !.time = @ + Shift(axis)] @@
                [xps |-> Bytes({g \in flows : key(g) = key(f)}) \div r.interval] : f \in flows}
      filled == {[time |-> t + Shift(axis), row |-> Others(dims), xps |-> 0] :
                   t \in Fill(r) \ {key(f).time : f \in flows}}
  IN found \cup filled

(* The axes come in any order, nothing depends on it.                      *)
QueryLine ==
  /\ \E rows \in SelectRows(request, Main, Rows(resolution.table)) :
       /\ selected' = rows
       /\ results' = {[axis |-> a, rows |-> LineRows(a, rows)] : a \in Axes(request)}

(* An infinity is turned into the smallest integer.                        *)
Rate(bytes, span) == IF span = 0 THEN -1000 ELSE bytes \div span

(* The traffic is that of a second of the period from the first flow of    *)
(* the main direction to the last one.                                     *)
Span ==
  LET times == {f.time : f \in {g \in Rows(resolution.table) :
                  timefilter(Main, g.time) /\ Matches(request.filter, FALSE, g)}}
  IN IF times = {} THEN 0 ELSE Max(times) - Min(times)

(* Each dimension on its own: a value is folded when no selected row has   *)
(* it at the same place.                                                   *)
SankeyRows(axis, rows) ==
  LET dims == DimensionsOf(axis)
      flows == {f \in Rows(resolution.table) :
                  timefilter(Main, f.time) /\ Matches(request.filter, Reversed(axis), f)}
      key(f) == [i \in DOMAIN dims |-> IF \E v \in rows : v[i] = f[dims[i]] THEN f[dims[i]] ELSE <<"Other">>]
      keys == {key(f) : f \in flows}
  IN {[row |-> k, xps |-> Rate(Bytes({f \in flows : key(f) = k}), Span)] : k \in keys}

QuerySankey ==
  \E rows \in SelectRows(request, Main, Rows(resolution.table)) :
    /\ selected' = rows
    /\ results' = {[axis |-> a, rows |-> SankeyRows(a, rows)] : a \in Axes(request)}

Query ==
  /\ output = Nothing /\ resolution # Nothing /\ results = {}
  /\ \E t \in Range(database) : t.name = resolution.table
  /\ IF request.kind = "line" THEN QueryLine ELSE QuerySankey
  /\ UNCHANGED <<database, flowsTables, request, resolution, output>>

(* ClickHouse does not answer, or the table is no more.                    *)
QueryFails ==
  /\ output = Nothing /\ resolution # Nothing /\ results = {}
  /\ output' = DatabaseError
  /\ UNCHANGED <<database, flowsTables, request, resolution, selected, results>>

----------------------------------------------------------------------------
(* graphLineHandlerFunc                                                    *)

(* An empty list of dimensions is put back in the rows of the previous     *)
(* period.                                                                 *)
Restored(row) == IF row = <<>> THEN Others(request.dimensions) ELSE row

Times(rows) ==
  LET times == {r.time : r \in rows}
  IN [k \in 1..Cardinality(times) |->
        CHOOSE t \in times : Cardinality({u \in times : u < t}) = k - 1]

TimeAxis == Times((CHOOSE a \in results : a.axis = 1).rows)

(* fmt.Sprintf("%s"): the values one after the other.  A value is the      *)
(* sequence of its words.                                                  *)
rowKey(row) == FlattenSeq(row)

TimeIndex(rows, r) == CHOOSE k \in DOMAIN Times(rows) : Times(rows)[k] = r.time

(* Of the rows that have the key and the time, the last one.               *)
Points(rows, key) ==
  [k \in DOMAIN TimeAxis |->
     LET found == {r \in rows : rowKey(r.row) = key /\ TimeIndex(rows, r) = k}
     IN IF found = {} THEN 0 ELSE (CHOOSE r \in found : TRUE).xps]

(* The dimensions are those of the first row that has the key.             *)
Series(a) ==
  LET rows == {[r EXCEPT !.row = Restored(@)] : r \in a.rows}
      dims(key) == (CHOOSE r \in rows : rowKey(r.row) = key).row
  IN {[axis |-> a.axis, row |-> dims(key), points |-> Points(rows, key)] :
        key \in {rowKey(r.row) : r \in rows}}

Ranked(points) == SortSeq(points, <)

(* Linear interpolation between two points, to the nearest integer.        *)
NinetyFivePercentile(points) ==
  LET index == 19 * (Len(points) - 1)
      j == index \div 20
      ranked == Ranked(points)
  IN IF j + 1 >= Len(points) THEN ranked[Len(points)]
     ELSE (ranked[j + 1] * (20 - (index % 20)) + ranked[j + 2] * (index % 20) + 10) \div 20

(* The minimum is the one of the points that are not zero.                 *)
Statistics(points) ==
  LET values == Range(points)
  IN [min |-> IF values = {0} THEN 0 ELSE Min(values \ {0}), max |-> Max(values),
      average |-> FoldSeq(+, 0, points) \div Len(points), last |-> points[Len(points) - 1],
      percentile |-> NinetyFivePercentile(points)]

(* The value before the last one is the one to show.                       *)
LastIndex == Len(TimeAxis) - 1

(* A division by zero, an index out of range.                              *)
OutOfRange ==
  \/ TimeAxis = <<>>
  \/ \E a \in results : Len(Times(a.rows)) > Len(TimeAxis)
  \/ LastIndex < 1

RenderLine ==
  IF OutOfRange THEN Panic
  ELSE [kind |-> "line", time |-> TimeAxis,
        series |-> {s @@ [statistics |-> Statistics(s.points)] : s \in UNION {Series(a) : a \in results}}]

----------------------------------------------------------------------------
(* graphSankeyHandlerFunc                                                  *)

(* The labels of the dimensions are part of the nodes.                     *)
Label(axis, i) ==
  IF axis = 2 THEN ReverseColumn(request.dimensions[i]) ELSE request.dimensions[i]

NodeOf(axis, row, i) == [axis |-> axis, label |-> Label(axis, i), value |-> row[i]]

RawLinks ==
  UNION {UNION {{[axis |-> a.axis, row |-> r.row, xps |-> r.xps,
                  source |-> NodeOf(a.axis, r.row, i), target |-> NodeOf(a.axis, r.row, i + 1)] :
                   i \in 1..(Len(r.row) - 1)} : r \in a.rows} : a \in results}

LinkXps(same) == MapThenSumSet(LAMBDA l : l.xps, same)

Links ==
  {[axis |-> l.axis, source |-> l.source, target |-> l.target,
    xps |-> LinkXps({m \in RawLinks : m.source = l.source /\ m.target = l.target})] : l \in RawLinks}

RenderSankey ==
  [kind |-> "sankey", rows |-> results, links |-> Links,
   nodes |-> {l.source : l \in Links} \cup {l.target : l \in Links}]

Render ==
  /\ output = Nothing /\ results # {}
  /\ output' = IF request.kind = "line" THEN RenderLine ELSE RenderSankey
  /\ UNCHANGED <<database, flowsTables, request, resolution, selected, results>>

ChartsNext ==
  \/ DatabaseChanges \/ refreshFlowsTables
  \/ \E input \in Requests : Submit(input)
  \/ RefuseRequest \/ Resolve \/ Query \/ QueryFails \/ Render

----------------------------------------------------------------------------
(* Properties                                                              *)

(* The traffic of a row of the graph, from the flows themselves: those of  *)
(* the interval, of the previous period at the same place, and with their  *)
(* source and their destination swapped in the reverse direction.          *)
Swapped(axis, flow) ==
  IF Reversed(axis) THEN [flow EXCEPT !.SrcAS = flow.DstAS, !.DstAS = flow.SrcAS] ELSE flow

RowOf(axis, flow) ==
  IF Values(request.dimensions, flow) \in selected /\ ~Previous(axis)
  THEN Values(request.dimensions, flow) ELSE Others(request.dimensions)

Traffic(axis, row, at) ==
  LET from == at - Shift(axis)
  IN Bytes({f \in {Swapped(axis, f) : f \in Rows(resolution.table)} :
              /\ from <= f.time /\ f.time < from + resolution.interval
              /\ f.time <= Main.end - Shift(axis)
              /\ request.filter # <<>> => f[request.filter[1]] = request.filter[2]
              /\ RowOf(axis, f) = row})

(* Each point of each row of a line graph is the traffic of its interval,  *)
(* and all the traffic is there: the axes are aligned, whatever the table, *)
(* the interval and the period, and no axis has more points than the main  *)
(* one.                                                                    *)
PointsRight ==
  /\ output = Panic => Len(TimeAxis) < 2
  /\ output.kind = "line" =>
       /\ \A s \in output.series : \A k \in DOMAIN output.time :
            s.points[k] = Traffic(s.axis, s.row, output.time[k]) \div resolution.interval
       /\ \A axis \in Axes(request), f \in Rows(resolution.table) :
            timefilter(RangeOf(axis), f.time) /\ Matches(request.filter, Reversed(axis), f) =>
              \E s \in output.series : s.axis = axis /\ s.row = RowOf(axis, Swapped(axis, f))

(* The table has the beginning of the range if one has.  Of those that     *)
(* have it, none is closer to the interval that is asked for; when none    *)
(* has, none has older data by more than its resolution.                   *)
TableFits ==
  ~Idle /\ ValidRequest(request) /\ ~requireMainTable(request) =>
    \A tables \in Inventories \ {<<>>} :
      LET best == getBestTable(tables, request.start, targetInterval(Context(request)))
          whole == {t \in Range(tables) : t.oldest + t.resolution < request.start}
      IN IF whole = {} THEN \A t \in Range(tables) : best.oldest <= t.oldest + t.resolution
         ELSE /\ best \in whole
              /\ \A t \in whole :
                   ~(best.resolution < t.resolution /\ t.resolution <= targetInterval(Context(request)))

(* Data go on expiring after the tables were looked at.  When one of those *)
(* that the console knew of had the whole range, what a graph lacks of it  *)
(* is no longer in its table, and the console was not told so.             *)
LacksWhatExpired ==
  output.kind \in {"line", "sankey"} /\ ~requireMainTable(request) =>
    \/ \A t \in Range(resolution.known) : t.oldest + t.resolution >= request.start
    \/ \A f \in FlowsSent : timefilter(Main, f.time) => \E row \in Rows(resolution.table) : row.id = f.time
    \/ \E t \in Range(resolution.known), current \in Range(database) :
         t.name = resolution.table /\ current.name = t.name /\ t.oldest < current.oldest

(* One point in twenty, the last one of the ranked ones or more, is above  *)
(* the 95th percentile or at the same level, no more are above; the other  *)
(* figures are those of a single row.                                      *)
PercentileRight ==
  output.kind = "line" =>
    \A s \in output.series :
      LET above(p) == Cardinality({k \in DOMAIN s.points : s.points[k] > p})
          top == Max({1, (Len(s.points) + 18) \div 20})
      IN /\ above(s.statistics.percentile) <= top
         /\ above(s.statistics.percentile - 1) >= top
         /\ s.statistics.average <= s.statistics.max /\ s.statistics.min <= s.statistics.max

(* What gets to a node of a Sankey graph leaves it, but at both ends.      *)
LinksConserve ==
  output.kind = "sankey" =>
    \A node \in output.nodes :
      LET in == {l \in output.links : l.target = node}
          out == {l \in output.links : l.source = node}
      IN in # {} /\ out # {} =>
           MapThenSumSet(LAMBDA l : l.xps, in) = MapThenSumSet(LAMBDA l : l.xps, out)

(* Graphs show the flows there are: points, table, what expired,           *)
(* percentiles and links.                                                  *)
GraphsRight ==
  PointsRight /\ TableFits /\ LacksWhatExpired /\ PercentileRight /\ LinksConserve
=============================================================================
