----------------------------- MODULE Pagination -----------------------------
(***************************************************************************)
(* Keyset pages, newest first (pagination.rs and the queries of the lists).*)
(* Ids are UUIDv7s, here numbers.                                          *)
(***************************************************************************)
EXTENDS Integers, FiniteSets

CONSTANTS DefaultLimit, MaxLimit,
          Null            \* a parameter that is not given

ASSUME LimitsAreLimits == DefaultLimit \in 1 .. MaxLimit /\ Null \notin Int

(* {}: a validation error. *)
ResolveLimit(requested) ==
    (IF requested = Null THEN {DefaultLimit} ELSE {requested}) \cap 1 .. MaxLimit

(* Seeded fault: the row of the cursor is on the next page again. *)
FaultBefore(ids, cursor) == {i \in ids : cursor # Null => i <= cursor}

(* starting_after IS NULL OR id < starting_after *)
Before(ids, cursor) == {i \in ids : cursor # Null => i < cursor}

(* ORDER BY id DESC LIMIT n *)
Newest(ids, n) == {i \in ids : Cardinality({j \in ids : j > i}) < n}

(* Seeded fault: the query fetches no row beyond the page. *)
FaultFetch(ids, cursor, limit) == Newest(Before(ids, cursor), limit)

Fetch(ids, cursor, limit) == Newest(Before(ids, cursor), limit + 1)

(* from_overfetch: the extra row only tells that there is more. *)
FromOverfetch(rows, limit) ==
    [data |-> Newest(rows, limit), hasMore |-> Cardinality(rows) > limit]

Page(ids, cursor, limit) == FromOverfetch(Fetch(ids, cursor, limit), limit)

=============================================================================
