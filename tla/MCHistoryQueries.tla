--------------------------- MODULE MCHistoryQueries ---------------------------
(***************************************************************************)
(* Instance of HistoryQueries for TLC: six stored fixes, one after the     *)
(* other or apart, and two reports that are added while a query runs.      *)
(***************************************************************************)
EXTENDS HistoryQueries

CONSTANT MaxStored

(* Fix i is one unit of time after fix i - 1, or so much that a new        *)
(* segment begins; the first of them are in the range of the query.        *)
Track(inRange, apart) ==
  {Row(i, i + GAP * Cardinality({j \in apart : j <= i}), 0, i <= inRange) : i \in 1..MaxStored}

StoredTracks == {Track(MaxStored, apart) : apart \in SUBSET (2..MaxStored)} \cup {Track(1, {})}
===============================================================================
