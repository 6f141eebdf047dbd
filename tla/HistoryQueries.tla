---------------------------- MODULE HistoryQueries ----------------------------
(***************************************************************************)
(* Queries over the stored fixes of one device while trackers keep adding  *)
(* to the table, fixes of long ago among them: pages that continue from a  *)
(* cursor, and the route that is reduced to a number of points             *)
(* (HistoryService, HistoryRepository and history.math.ts).                *)
(*                                                                         *)
(* A query is several statements outside any transaction.  What holds it   *)
(* together is the snapshot, an id read first: rows above it are left out  *)
(* of all later statements.  Queries change nothing, so one at a time is   *)
(* enough.  The daily summary, which reads the same batches, is left out.  *)
(* (The names differ from those of DeviceIngestion, which writes the       *)
(* history, so that one module can prove theorems about both.)             *)
(***************************************************************************)
EXTENDS Integers, Sequences, SequencesExt

CONSTANTS Writers,      \* transactions that may be adding a report at once
          Histories,    \* what the table may hold at first: sets of rows
          MaxId,        \* bound: ids ever allocated
          Times,        \* gps_time of the reports added
          Places,       \* of the reports added: on a line, in metres
          GAP,          \* GAP_MS
          MaxSpeed,     \* MAX_SPEED_KMH, in metres per unit of time
          Limit,        \* points per page
          BatchSize,    \* 5000
          Budgets,      \* values of maxPoints
          Absent        \* no transaction, no query

ASSUME SizesAssumption == {GAP, MaxSpeed} \subseteq Nat /\ {Limit, BatchSize} \subseteq Nat \ {0}
ASSUME BudgetsAssumption == Budgets \subseteq Nat \ {0, 1}

(* Tables a database can hold: the ids come from the sequence.             *)
ASSUME TablesAssumption ==
  /\ Times \subseteq Int
  /\ \A table \in Histories :
       /\ IsFiniteSet(table)
       /\ \A r \in table : r.id \in 1..Cardinality(table) /\ r.time \in Int
       /\ \A r, q \in table : r.id = q.id => r = q

VARIABLES rows,     \* gps_history, as committed
          lastId,   \* the sequence the ids come from
          adding,   \* Writer -> rows of its open transaction, or Absent
          query     \* the running or last query

queriesVars == <<rows, lastId, adding, query>>

(* A row is in the range, of the device and of quality valid, or is not.   *)
Row(id, time, place, inRange) ==
  [id |-> id, time |-> time, place |-> place, inRange |-> inRange]

QueriesInit ==
  /\ rows \in Histories
  /\ lastId = Cardinality(rows)
  /\ adding = [w \in Writers |-> Absent]
  /\ query = Absent

-----------------------------------------------------------------------------
(* Reports are added                                                       *)

(* Mutation: ids are allocated without the lock.                           *)
UnlockedAlways == TRUE
(* The lock that is held from before an id is allocated to the commit.     *)
Unlocked == \A w \in Writers : adding[w] = Absent

(* A report known already uses up an id and no more.                       *)
Insert(w, new) ==
  /\ adding[w] = Absent /\ Unlocked
  /\ lastId < MaxId
  /\ lastId' = lastId + 1
  /\ adding' = [adding EXCEPT ![w] = new]
  /\ UNCHANGED <<rows, query>>

Commit(w) ==
  /\ adding[w] # Absent
  /\ rows' = rows \cup adding[w]
  /\ adding' = [adding EXCEPT ![w] = Absent]
  /\ UNCHANGED <<lastId, query>>

Rollback(w) ==
  /\ adding[w] # Absent
  /\ adding' = [adding EXCEPT ![w] = Absent]
  /\ UNCHANGED <<rows, lastId, query>>

-----------------------------------------------------------------------------
(* The statements of a query                                               *)

Before(a, b) == a.time < b.time \/ (a.time = b.time /\ a.id < b.id)

(* The rows of S in this order.                                            *)
Ordered(S) ==
  [i \in 1..Cardinality(S) |-> CHOOSE r \in S : Cardinality({q \in S : Before(q, r)}) = i - 1]

snapshot == Max({r.id : r \in rows} \cup {0})

InSnapshot(id) == {r \in rows : r.inRange /\ r.id <= id}

points(id, limit, after) ==
  LET found == {r \in InSnapshot(id) : after = <<>> \/ Before(after[1], r)}
  IN SubSeq(Ordered(found), 1, Min({limit, Cardinality(found)}))

(* Pages.  A cursor is the last row of the page before.                    *)
OpenPages ==
  /\ query = Absent
  /\ query' = [at |-> "paging", snapshot |-> snapshot, after |-> <<>>, got |-> <<>>]
  /\ UNCHANGED <<rows, lastId, adding>>

ReadPage ==
  /\ query # Absent
  /\ query.at = "paging"
  /\ LET values == points(query.snapshot, Limit + 1, query.after)
         page == SubSeq(values, 1, Min({Limit, Len(values)}))
         more == Len(values) > Limit
     IN query' = [query EXCEPT !.got = @ \o page,
                               !.at = IF more THEN "paging" ELSE "paged",
                               !.after = IF more THEN <<Last(page)>> ELSE <<>>]
  /\ UNCHANGED <<rows, lastId, adding>>

-----------------------------------------------------------------------------
(* The route                                                               *)

(* Too long, or too far for the time: the line is interrupted.             *)
disconnected(a, b) ==
  LET elapsed == b.time - a.time
      distance == IF a.place < b.place THEN b.place - a.place ELSE a.place - b.place
  IN elapsed > GAP \/ distance > MaxSpeed * elapsed

(* Mutation: the end of a segment is dropped when the stride passes over.  *)
KeepNothing(segments, previous) == segments
(* The last point of a segment is kept whatever the stride.                *)
keepPrevious(segments, previous) ==
  IF previous = <<>> \/ Last(Last(segments)).id = previous[1].id THEN segments
  ELSE Front(segments) \o <<Append(Last(segments), previous[1])>>

(* One point of the stream.                                                *)
Take(route, point) ==
  LET isNew == IF route.previous = <<>> THEN TRUE ELSE disconnected(route.previous[1], point)
      segments ==
        IF isNew THEN Append(keepPrevious(route.segments, route.previous), <<point>>)
        ELSE IF route.count % route.stride = 0
        THEN Front(route.segments) \o <<Append(Last(route.segments), point)>>
        ELSE route.segments
  IN [route EXCEPT !.segments = segments, !.previous = <<point>>, !.count = @ + 1]

Sum(segments, Value(_)) == FoldLeft(LAMBDA sum, s : sum + Value(s), 0, segments)
Mandatory(segment) == Min({2, Len(segment)})
Interior(segment) == Len(segment) - Mandatory(segment)

(* Its ends and n points in between.                                       *)
Thinned(segment, n) ==
  IF n = Interior(segment) THEN segment
  ELSE <<segment[1]>>
         \o [i \in 1..n |-> segment[1 + (i * (Len(segment) - 1)) \div (n + 1)]]
         \o <<Last(segment)>>

(* The points between the ends share what the ends leave of the budget.    *)
Sample(done, segment) ==
  LET n == IF done.interior = 0 THEN 0
           ELSE Min({Interior(segment), (done.budget * Interior(segment)) \div done.interior})
  IN [budget |-> done.budget - n, interior |-> done.interior - Interior(segment),
      segments |-> Append(done.segments, Thinned(segment, n))]

sampleSegments(segments, budget) ==
  FoldLeft(Sample, [budget |-> budget - Sum(segments, Mandatory),
                    interior |-> Sum(segments, Interior),
                    segments |-> <<>>], segments).segments

OpenRoute(maxPoints) ==
  /\ query = Absent
  /\ query' = [at |-> "counting", snapshot |-> snapshot, maxPoints |-> maxPoints]
  /\ UNCHANGED <<rows, lastId, adding>>

CountRoute ==
  /\ query # Absent
  /\ query.at = "counting"
  /\ LET count == Cardinality(InSnapshot(query.snapshot))
     IN query' = [at |-> "reading", snapshot |-> query.snapshot, maxPoints |-> query.maxPoints,
                  stride |-> Max({1, (count + query.maxPoints - 1) \div query.maxPoints}),
                  segments |-> <<>>, previous |-> <<>>, count |-> 0]
  /\ UNCHANGED <<rows, lastId, adding>>

(* The stream is read in batches and ends with one that is not full; more  *)
(* segments, or more ends of segments, than may be shown are refused.      *)
ReadBatch ==
  /\ query # Absent
  /\ query.at = "reading"
  /\ LET batch == points(query.snapshot, BatchSize, query.previous)
         route == FoldLeft(Take, query, batch)
         whole == keepPrevious(route.segments, route.previous)
     IN query' =
          IF Len(route.segments) > query.maxPoints THEN [route EXCEPT !.at = "refused"]
          ELSE IF Len(batch) = BatchSize THEN route
          ELSE IF Sum(whole, Mandatory) > query.maxPoints THEN [route EXCEPT !.at = "refused"]
          ELSE [route EXCEPT !.at = "drawn", !.segments = sampleSegments(whole, query.maxPoints)]
  /\ UNCHANGED <<rows, lastId, adding>>

EndQuery ==
  /\ query # Absent
  /\ query.at \in {"paged", "drawn", "refused"}
  /\ query' = Absent
  /\ UNCHANGED <<rows, lastId, adding>>

-----------------------------------------------------------------------------
Add == \E w \in Writers :
  \/ \E t \in Times, p \in Places, in \in BOOLEAN : Insert(w, {Row(lastId + 1, t, p, in)})
  \/ Insert(w, {})
  \/ Commit(w) \/ Rollback(w)

Ask ==
  \/ OpenPages \/ ReadPage
  \/ (\E maxPoints \in Budgets : OpenRoute(maxPoints)) \/ CountRoute \/ ReadBatch
  \/ EndQuery

QueriesNext == Add \/ Ask

QueriesSpec == QueriesInit /\ [][QueriesNext]_queriesVars

-----------------------------------------------------------------------------
(* All rows of the snapshot, in the order of the pages.                    *)
Whole(id) == Ordered(InSnapshot(id))

(* The pages read so far are the beginning of the snapshot, and those up   *)
(* to the last are all of it: nothing that is committed in the meantime    *)
(* shows up, and nothing is missing or repeated                            *)
(* (docs/HISTORY_API.md:84).                                               *)
PagesMatchSnapshot ==
  query # Absent =>
    /\ query.at = "paging" => IsPrefix(query.got, Whole(query.snapshot))
    /\ query.at = "paged" => query.got = Whole(query.snapshot)

(* The points where a segment of the snapshot begins or ends.              *)
Ends(all) ==
  {i \in 1..Len(all) :
     \/ i \in {1, Len(all)}
     \/ i > 1 /\ disconnected(all[i - 1], all[i])
     \/ i < Len(all) /\ disconnected(all[i], all[i + 1])}

(* A route is drawn with at most the points asked for, each once and in    *)
(* order, among them both ends of every segment, and no line crosses a     *)
(* gap; it is refused only if the ends alone are too many                  *)
(* (docs/HISTORY_API.md:108-116).                                          *)
RouteKeepsEnds ==
  query # Absent /\ query.at \in {"drawn", "refused"} =>
    LET all == Whole(query.snapshot)
        shown == FlattenSeq(query.segments)
        ends == {all[i] : i \in Ends(all)}
    IN IF query.at = "refused" THEN Cardinality(ends) > query.maxPoints
       ELSE /\ query.count = Len(all)
            /\ Len(shown) <= query.maxPoints
            /\ \A i \in 1..Len(shown) - 1 : Before(shown[i], shown[i + 1])
            /\ ends \subseteq ToSet(shown) /\ ToSet(shown) \subseteq ToSet(all)
            /\ \A s \in ToSet(query.segments) : {s[1], Last(s)} \subseteq ends
            /\ Len(query.segments) =
                 Cardinality({i \in 1..Len(all) : i = 1 \/ disconnected(all[i - 1], all[i])})

===============================================================================
