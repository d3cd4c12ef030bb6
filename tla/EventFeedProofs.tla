-------------------------- MODULE EventFeedProofs --------------------------
(***************************************************************************)
(* Webhooks implements EventFeed: the committed events in seq order are a  *)
(* log that grows at its end, and a page of list_events takes a client to  *)
(* the end of a prefix of it.  First what putting rows in order gives,     *)
(* whatever the rows; then the steps.                                      *)
(***************************************************************************)
EXTENDS WebhooksProofs, SequenceTheorems

(* Rows that have different numbers, finitely many: what may be put in     *)
(* order by the numbers.                                                   *)
Sortable(rows, f) ==
    /\ IsFiniteSet(rows)
    /\ \A v \in rows : f[v] \in Nat
    /\ \A u, v \in rows : f[u] = f[v] => u = v

(* A place is a number from 1 to the number of rows. *)
LEMMA PlaceIsIndex ==
  ASSUME NEW rows, NEW f, Sortable(rows, f), NEW v \in rows
  PROVE  /\ Place(rows, f, v) \in 1..Cardinality(rows)
         /\ Cardinality(rows) \in Nat
  <1> DEFINE upto == {u \in rows : f[u] <= f[v]}
  <1>1. IsFiniteSet(rows) /\ upto \in SUBSET rows
    BY DEF Sortable
  <1>2. IsFiniteSet(upto) /\ Cardinality(upto) <= Cardinality(rows)
    BY <1>1, FS_Subset
  <1>3. Cardinality(upto) \in Nat /\ Cardinality(rows) \in Nat
    BY <1>1, <1>2, FS_CardinalityType
  <1>4. v \in upto
    BY DEF Sortable
  <1>5. Cardinality(upto) # 0
    BY <1>2, <1>4, FS_EmptySet
  <1> QED BY <1>2, <1>3, <1>5 DEF Place

(* The higher number has the higher place. *)
LEMMA PlacesFollowNumbers ==
  ASSUME NEW rows, NEW f, Sortable(rows, f), NEW u \in rows, NEW v \in rows, f[u] < f[v]
  PROVE  Place(rows, f, u) < Place(rows, f, v)
  <1> DEFINE Upto(x) == {y \in rows : f[y] <= f[x]}
  <1>1. IsFiniteSet(rows) /\ \A y \in rows : f[y] \in Nat
    BY DEF Sortable
  <1>2. Upto(u) \in SUBSET Upto(v) /\ v \in Upto(v) /\ v \notin Upto(u)
    BY <1>1
  <1>3. IsFiniteSet(Upto(v)) /\ IsFiniteSet(Upto(u))
    BY <1>1, FS_Subset
  <1>4. Cardinality(Upto(u)) <= Cardinality(Upto(v)) /\ Cardinality(Upto(v)) # Cardinality(Upto(u))
    BY <1>2, <1>3, FS_Subset
  <1>5. Cardinality(Upto(u)) \in Nat /\ Cardinality(Upto(v)) \in Nat
    BY <1>3, FS_CardinalityType
  <1> QED BY <1>4, <1>5 DEF Place

(* So places order rows as the numbers do. *)
LEMMA PlacesOrder ==
  ASSUME NEW rows, NEW f, Sortable(rows, f), NEW u \in rows, NEW v \in rows
  PROVE  /\ Place(rows, f, u) <= Place(rows, f, v) <=> f[u] <= f[v]
         /\ Place(rows, f, u) = Place(rows, f, v) => u = v
  <1>1. f[u] \in Nat /\ f[v] \in Nat /\ (f[u] = f[v] => u = v)
    BY DEF Sortable
  <1>2. Place(rows, f, u) \in Nat /\ Place(rows, f, v) \in Nat
    BY PlaceIsIndex
  <1>3. CASE f[u] = f[v]
    BY <1>1, <1>2, <1>3
  <1>4. CASE f[u] < f[v]
    BY <1>1, <1>2, <1>4, PlacesFollowNumbers
  <1>5. CASE f[v] < f[u]
    BY <1>1, <1>2, <1>5, PlacesFollowNumbers
  <1> QED BY <1>1, <1>3, <1>4, <1>5

(* Every place is taken: as many different places as rows. *)
LEMMA EveryPlaceIsTaken ==
  ASSUME NEW rows, NEW f, Sortable(rows, f), NEW n \in 1..Cardinality(rows)
  PROVE  \E v \in rows : Place(rows, f, v) = n
  <1> DEFINE N == Cardinality(rows)
             place == [v \in rows |-> Place(rows, f, v)]
  <1>1. IsFiniteSet(rows) /\ N \in Nat
    BY FS_CardinalityType DEF Sortable
  <1>2. IsFiniteSet(1..N) /\ Cardinality(1..N) = N
    BY <1>1, FS_Interval
  <1>3. place \in [rows -> 1..N]
    BY PlaceIsIndex
  <1>4. \A u, v \in rows : place[u] = place[v] => u = v
    BY PlacesOrder
  <1>5. place \in Injection(rows, 1..N)
    BY <1>3, <1>4 DEF Injection, IsInjective
  <1>6. place \in Surjection(rows, 1..N)
    BY <1>1, <1>2, <1>5, FS_Injection
  <1> QED BY <1>6 DEF Surjection

(* The rows in order are a sequence in which each row is at its place.     *)
LEMMA RowsAtTheirPlaces ==
  ASSUME NEW rows, NEW f, Sortable(rows, f)
  PROVE  LET s == InOrder(rows, f) IN
         /\ s \in Seq(rows) /\ Len(s) = Cardinality(rows) /\ Cardinality(rows) \in Nat
         /\ DOMAIN s = 1..Cardinality(rows)
         /\ \A n \in DOMAIN s : s[n] \in rows /\ Place(rows, f, s[n]) = n
         /\ \A v \in rows : Place(rows, f, v) \in DOMAIN s /\ s[Place(rows, f, v)] = v
  <1> DEFINE s == InOrder(rows, f)
             N == Cardinality(rows)
  <1>1. N \in Nat
    BY FS_CardinalityType DEF Sortable
  <1>2. \A n \in 1..N : s[n] = CHOOSE v \in rows : Place(rows, f, v) = n
    BY DEF InOrder
  <1>3. DOMAIN s = 1..N
    BY DEF InOrder
  <1>4. \A n \in 1..N : s[n] \in rows /\ Place(rows, f, s[n]) = n
    BY <1>2, EveryPlaceIsTaken
  <1>5. s \in [1..N -> rows]
    BY <1>3, <1>4 DEF InOrder
  <1>6. s \in Seq(rows)
    BY <1>1, <1>5
  <1>7. Len(s) = N
    BY <1>1, <1>3, <1>6, LenProperties
  <1>8. \A v \in rows : Place(rows, f, v) \in 1..N
    BY PlaceIsIndex
  <1>9. \A v \in rows : s[Place(rows, f, v)] = v
    BY <1>4, <1>8, PlacesOrder
  <1> QED BY <1>1, <1>3, <1>4, <1>6, <1>7, <1>8, <1>9

(* Only the rows' own numbers matter. *)
LEMMA OrderIsOfTheRows ==
  ASSUME NEW rows, NEW f, NEW g, \A v \in rows : f[v] = g[v]
  PROVE  InOrder(rows, f) = InOrder(rows, g)
  <1>1. \A v \in rows : Place(rows, f, v) = Place(rows, g, v)
    <2> SUFFICES ASSUME NEW v \in rows PROVE Place(rows, f, v) = Place(rows, g, v)
      OBVIOUS
    <2>1. {u \in rows : f[u] <= f[v]} = {u \in rows : g[u] <= g[v]}
      OBVIOUS
    <2> QED BY <2>1 DEF Place
  <1>2. \A n : (CHOOSE v \in rows : Place(rows, f, v) = n) = (CHOOSE v \in rows : Place(rows, g, v) = n)
    BY <1>1
  <1> QED BY <1>2 DEF InOrder

(* A row with a number above all others goes to the end. *)
LEMMA LastRowIsAppended ==
  ASSUME NEW rows, NEW f, Sortable(rows, f), NEW v, v \notin rows, f[v] \in Nat,
         \A u \in rows : f[u] < f[v]
  PROVE  InOrder(rows \cup {v}, f) = Append(InOrder(rows, f), v)
  <1> DEFINE more == rows \cup {v}
             s == InOrder(rows, f)
             t == InOrder(more, f)
             N == Cardinality(rows)
  <1>1. IsFiniteSet(rows) /\ \A u \in rows : f[u] \in Nat
    BY DEF Sortable
  <1>2. IsFiniteSet(more) /\ Cardinality(more) = N + 1
    BY <1>1, FS_AddElement
  <1>3. Sortable(more, f)
    BY <1>1, <1>2 DEF Sortable
  <1>4. \A u \in rows : Place(more, f, u) = Place(rows, f, u)
    <2> SUFFICES ASSUME NEW u \in rows PROVE Place(more, f, u) = Place(rows, f, u)
      OBVIOUS
    <2>1. {x \in more : f[x] <= f[u]} = {x \in rows : f[x] <= f[u]}
      BY <1>1
    <2> QED BY <2>1 DEF Place
  <1>5. Place(more, f, v) = N + 1
    <2>1. {x \in more : f[x] <= f[v]} = more
      BY <1>1
    <2> QED BY <1>2, <2>1 DEF Place
  <1>6. /\ s \in Seq(rows) /\ Len(s) = N /\ N \in Nat /\ DOMAIN s = 1..N
        /\ \A n \in 1..N : s[n] \in rows /\ Place(rows, f, s[n]) = n
    BY RowsAtTheirPlaces
  <1>7. /\ t \in Seq(more) /\ Len(t) = N + 1 /\ DOMAIN t = 1..(N + 1)
        /\ \A u \in more : t[Place(more, f, u)] = u
    BY <1>2, <1>3, RowsAtTheirPlaces
  <1> HIDE DEF s, t, N
  <1>8. \A n \in 1..N : t[n] = s[n]
    BY <1>4, <1>6, <1>7
  <1>9. t[N + 1] = v
    BY <1>5, <1>7
  <1>10. /\ Append(s, v) \in Seq(more) /\ Len(Append(s, v)) = N + 1
         /\ \A n \in 1..N : Append(s, v)[n] = s[n]
         /\ Append(s, v)[N + 1] = v
    <2>1. s \in Seq(more)
      BY <1>6
    <2> QED BY <1>6, <2>1, AppendProperties
  <1>11. \A n \in 1..(N + 1) : t[n] = Append(s, v)[n]
    BY <1>6, <1>8, <1>9, <1>10
  <1>12. DOMAIN Append(s, v) = 1..(N + 1)
    BY <1>10, LenProperties
  <1>13. t = Append(s, v)
    BY <1>7, <1>10, <1>11, <1>12
  <1> QED BY <1>13 DEF s, t

(* A prefix is the rows up to a number. *)
LEMMA PrefixIsUpTo ==
  ASSUME NEW rows, NEW f, Sortable(rows, f), NEW v \in rows
  PROVE  Feed!Entries(SubSeq(InOrder(rows, f), 1, Place(rows, f, v))) = {u \in rows : f[u] <= f[v]}
  <1> DEFINE s == InOrder(rows, f)
             k == Place(rows, f, v)
             p == SubSeq(s, 1, k)
  <1>1. /\ s \in Seq(rows) /\ DOMAIN s = 1..Len(s) /\ Len(s) \in Nat
        /\ \A n \in DOMAIN s : s[n] \in rows /\ Place(rows, f, s[n]) = n
        /\ \A u \in rows : Place(rows, f, u) \in DOMAIN s /\ s[Place(rows, f, u)] = u
    BY RowsAtTheirPlaces
  <1>2. k \in 1..Len(s)
    BY <1>1
  <1> HIDE DEF s, k
  <1>3. DOMAIN p = 1..k /\ \A n \in 1..k : p[n] = s[n]
    BY <1>1, <1>2
  <1>4. \A u \in rows : Place(rows, f, u) <= k <=> f[u] <= f[v]
    BY PlacesOrder DEF k
  <1>5. Feed!Entries(p) = {u \in rows : f[u] <= f[v]}
    <2>1. ASSUME NEW n \in DOMAIN p PROVE p[n] \in rows /\ f[p[n]] <= f[v]
      BY <1>1, <1>2, <1>3, <1>4
    <2>2. ASSUME NEW u \in rows, f[u] <= f[v] PROVE \E n \in DOMAIN p : p[n] = u
      BY <1>1, <1>2, <1>3, <1>4, <2>2
    <2> QED BY <2>1, <2>2 DEF Feed!Entries
  <1> QED BY <1>5 DEF s, k

-----------------------------------------------------------------------------
(* The steps *)

(* The committed events can be put in order of seq. *)
LEMMA FeedIsSortable == IInv => Sortable(Committed, seq)
  <1> SUFFICES ASSUME IInv PROVE Sortable(Committed, seq)
    OBVIOUS
  <1>1. Committed \in SUBSET Event
    BY DEF Committed
  <1>2. IsFiniteSet(Committed)
    BY <1>1, EventsAreFinite, FS_Subset
  <1> QED BY <1>1, <1>2 DEF Sortable, IInv, TypeOK, StoreTypeOK, ReadsInv, SeqsAreDistinct

(* A transaction publishes its event when it commits, and at no other step. *)
LEMMA RecordingIsPublishing ==
  ASSUME IInv, NEW v \in Event, RecordStep(v) \/ AbortEvent(v)
  PROVE  Feed!Publish(v) \/ UNCHANGED Feed!feed
  <1> USE DEF IInv, TypeOK, StoreTypeOK
  <1> DEFINE log == InOrder(Committed, seq)
  <1>1. seen' = seen
    BY DEF RecordStep, LockBusiness, InsertEvent, FanOut, CommitEvent, AbortEvent, feedVars
  <1>2. CASE CommitEvent(v)
    <2>0. Sortable(Committed, seq) /\ seq[v] \in Nat
      BY FeedIsSortable
    <2>1. Committed' = Committed \cup {v} /\ v \notin Committed /\ seq' = seq
      BY <1>2 DEF CommitEvent, Committed
    <2>2. \A u \in Committed : seq[u] < seq[v]
      BY <1>2 DEF CommitEvent, FeedInv, CommittedComeFirst, Committed
    <2>3. InOrder(Committed \cup {v}, seq) = Append(log, v)
      BY ONLY <2>0, <2>1, <2>2, LastRowIsAppended
    <2>4. v \notin Feed!Entries(log)
      BY <2>1, FeedIsSortable, RowsAtTheirPlaces DEF Feed!Entries
    <2> QED BY <1>1, <2>1, <2>3, <2>4 DEF Feed!Publish
  <1>3. CASE ~CommitEvent(v)
    <2>1. Committed' = Committed /\ \A u \in Committed : seq'[u] = seq[u]
      BY <1>3 DEF RecordStep, LockBusiness, InsertEvent, FanOut, AbortEvent, Committed
    <2>2. InOrder(Committed, seq') = InOrder(Committed, seq)
      BY <2>1, OrderIsOfTheRows
    <2> QED BY <1>1, <2>1, <2>2 DEF Feed!feed
  <1> QED BY <1>2, <1>3

(* A page is what a client lacks of a longer prefix. *)
LEMMA ListingIsReading ==
  ASSUME IInv, NEW c \in Client, ListEvents(c)
  PROVE  Feed!Read(c)
  <1> USE DEF IInv, TypeOK, StoreTypeOK
  <1> DEFINE page == FirstPage(After(c))
             log == InOrder(Committed, seq)
  <1>1. PICK last \in page :
           /\ \A v \in page : seq[v] <= seq[last]
           /\ seen' = [seen EXCEPT ![c] = @ \cup page]
           /\ UNCHANGED <<txn, seq>>
    BY DEF ListEvents, eventVars
  <1>2. page \subseteq After(c) /\ After(c) \subseteq Committed /\ Committed \subseteq Event
    BY DEF FirstPage, After, Committed
  <1> DEFINE upto == {v \in Committed : seq[v] <= seq[last]}
             n == Place(Committed, seq, last)
  <1>3. n \in DOMAIN log /\ Feed!Entries(SubSeq(log, 1, n)) = upto
    BY <1>2, FeedIsSortable, RowsAtTheirPlaces, PrefixIsUpTo
  <1>4. Checkpoint(c) < seq[last] /\ Checkpoint(c) \in Nat
    BY <1>2 DEF After, Checkpoint, FeedInv, CursorIsCommitted, Committed
  <1>5. seen[c] \subseteq upto
    BY <1>2, <1>4 DEF ReadsInv, SeenIsBehindCheckpoint
  <1>6. page \subseteq upto
    BY <1>1, <1>2
  <1>7. upto \subseteq seen[c] \cup page
    <2> SUFFICES ASSUME NEW v \in Committed, seq[v] <= seq[last] PROVE v \in seen[c] \cup page
      OBVIOUS
    <2>1. CASE seq[v] <= Checkpoint(c)
      BY <2>1 DEF FeedInv, NothingBehindCheckpoint
    <2>2. CASE v \in After(c)
      <3>1. After(c) \in SUBSET Event
        BY <1>2
      <3> QED BY <2>2, <3>1, PageIsPrefix
    <2>3. seq[v] \in Nat
      BY <1>2
    <2> QED BY <1>4, <2>1, <2>2, <2>3 DEF After
  <1>8. seen' = [seen EXCEPT ![c] = upto]
    BY <1>1, <1>5, <1>6, <1>7
  <1>9. log' = log
    BY <1>1 DEF Committed
  <1> HIDE DEF log, n, upto
  <1>10. /\ n \in DOMAIN log
         /\ seen[c] \subseteq Feed!Entries(SubSeq(log, 1, n))
         /\ seen' = [seen EXCEPT ![c] = Feed!Entries(SubSeq(log, 1, n))]
    BY <1>3, <1>5, <1>8
  <1> QED BY <1>9, <1>10 DEF Feed!Read, log

(* The events API implements the feed that EventFeed promises: one log     *)
(* that only grows at its end, in whatever order transactions begin, fan   *)
(* out, roll back and commit, read by every client in prefixes, with no    *)
(* gap (events.rs, record and list_events).                                *)
THEOREM ImplementsFeed == Spec => RefinesFeed
  <1>1. Init => Feed!FeedInit
    <2> SUFFICES ASSUME Init PROVE Feed!FeedInit
      OBVIOUS
    <2>1. Committed = {} /\ seen = [c \in Client |-> {}]
      BY DEF Init, StoreInit, Committed
    <2>2. Cardinality({}) = 0 /\ 1..0 = {}
      BY FS_EmptySet
    <2>3. InOrder({}, seq) = <<>>
      BY <2>2 DEF InOrder
    <2> QED BY <2>1, <2>3 DEF Feed!FeedInit
  <1>2. IInv /\ [Next]_vars => [Feed!FeedNext]_(Feed!feed)
    <2> SUFFICES ASSUME IInv, [Next]_vars PROVE Feed!FeedNext \/ UNCHANGED Feed!feed
      OBVIOUS
    <2>1. ASSUME NEW v \in Event, RecordStep(v) \/ AbortEvent(v)
          PROVE  Feed!FeedNext \/ UNCHANGED Feed!feed
      BY <2>1, RecordingIsPublishing DEF Feed!FeedNext
    <2>2. ASSUME NEW c \in Client, ListEvents(c) PROVE Feed!FeedNext
      BY <2>2, ListingIsReading DEF Feed!FeedNext
    <2>3. ASSUME UNCHANGED <<txn, seq, seen>> PROVE UNCHANGED Feed!feed
      BY <2>3 DEF Feed!feed, Committed
    <2>4. CASE \/ \E e \in Endpoint : EndpointStep(e)
               \/ DispatcherStep
               \/ UNCHANGED vars
      <3>1. UNCHANGED <<txn, seq, seen>>
        BY <2>4 DEF EndpointStep, DispatcherStep, Alone, eventVars, feedVars, vars
      <3> QED BY <2>3, <3>1
    <2> QED BY <2>1, <2>2, <2>4 DEF Next
  <1> QED BY <1>1, <1>2, Invariance, PTL DEF Spec, RefinesFeed, Feed!FeedSpec

=============================================================================
