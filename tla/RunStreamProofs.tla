-------------------------- MODULE RunStreamProofs --------------------------
(* Proofs about RunStream, for every number of attempts, generations,      *)
(* chunks and entries, and every length of the stream and of a page.       *)
EXTENDS RunStream, FiniteSetTheorems, SequenceTheorems, WellFoundedInduction, TLAPS

-----------------------------------------------------------------------------
(* Entries in the order of their ids                                       *)

(* A nonempty set of numbers has a least one.                              *)
LEMMA Least ==
  ASSUME NEW T, T \subseteq Nat, T # {}
  PROVE  \E x \in T : \A y \in T : x <= y
<1> DEFINE Below(x) == 1..x
           U == {Below(x) : x \in T}
<1>1. U # {} /\ U \subseteq FiniteSubsetsOf(Nat)
  <2>1. \A x \in T : x \in Nat /\ IsFiniteSet(Below(x)) /\ Below(x) \subseteq Nat
    BY FS_Interval
  <2>2. QED
    BY <2>1 DEF FiniteSubsetsOf
<1>2. IsWellFoundedOn(StrictSubsetOrdering(Nat), FiniteSubsetsOf(Nat))
  BY FS_StrictSubsetOrderingWellFounded
<1> HIDE DEF U
<1>3. PICK S \in U : \A V \in U : ~ (<<V, S>> \in StrictSubsetOrdering(Nat))
  BY <1>1, <1>2, WFMin
<1>4. PICK x \in T : S = Below(x)
  BY DEF U
<1>5. ASSUME NEW y \in T PROVE x <= y
  <2>1. <<Below(y), Below(x)>> \notin StrictSubsetOrdering(Nat)
    BY <1>3, <1>4 DEF U
  <2>2. CASE y < x
    <3>1. Below(y) \subseteq Below(x) /\ x \in Below(x) /\ x \notin Below(y)
      BY <2>2
    <3>2. Below(y) \subseteq Nat /\ Below(x) \subseteq Nat
      OBVIOUS
    <3>3. <<Below(y), Below(x)>> \in StrictSubsetOrdering(Nat)
      BY <3>1, <3>2 DEF StrictSubsetOrdering
    <3>4. QED
      BY <2>1, <3>3
  <2>3. QED
    BY <2>2
<1>6. QED
  BY <1>5

(* A nonempty bounded set of numbers has a greatest one.                   *)
LEMMA Greatest ==
  ASSUME NEW T, NEW bound \in Nat, T \subseteq 0..bound, T # {}
  PROVE  \E x \in T : \A y \in T : y <= x
<1> DEFINE U == {bound - y : y \in T}
<1>0. \A y \in T : y \in Nat /\ y <= bound /\ bound - y \in Nat
  OBVIOUS
<1>1. U \subseteq Nat /\ U # {}
  BY <1>0
<1>2. PICK u \in U : \A v \in U : u <= v
  <2> HIDE DEF U
  <2>1. QED
    BY <1>1, Least
<1>3. PICK x \in T : u = bound - x
  OBVIOUS
<1>4. \A y \in T : bound - x <= bound - y
  BY <1>2, <1>3
<1> HIDE DEF U
<1>5. ASSUME NEW y \in T PROVE y <= x
  <2>1. x \in Nat /\ y \in Nat /\ bound - x <= bound - y
    BY <1>0, <1>4
  <2>2. QED
    BY <2>1
<1>6. QED
  BY <1>5

(* Entries that differ in their ids.                                       *)
Ordered(S) == S \subseteq Entries /\ \A x, y \in S : x.id = y.id => x = y

LEMMA OrderedIds ==
  ASSUME RunStreamAssumption, NEW S, Ordered(S)
  PROVE  /\ \A x \in S : x.id \in 1..MaxId
         /\ MaxId \in Nat
         /\ \A T : T \subseteq S => Ordered(T)
BY DEF Ordered, Entries, RunStreamAssumption

LEMMA FirstIsLeast ==
  ASSUME RunStreamAssumption, NEW S, Ordered(S), S # {}
  PROVE  First(S) \in S /\ \A y \in S : First(S).id <= y.id
<1> DEFINE ids == {x.id : x \in S}
<1>1. ids \subseteq Nat /\ ids # {}
  BY OrderedIds
<1>2. PICK i \in ids : \A j \in ids : i <= j
  <2> HIDE DEF ids
  <2>1. QED
    BY <1>1, Least
<1>3. PICK x \in S : i = x.id
  OBVIOUS
<1>4. \A y \in S : x.id <= y.id
  BY <1>2, <1>3
<1>5. QED
  BY <1>4 DEF First

LEMMA LastIsGreatest ==
  ASSUME RunStreamAssumption, NEW S, Ordered(S), S # {}, NEW cursor
  PROVE  /\ \E x \in S : LastId(S, cursor) = x.id
         /\ \A y \in S : y.id <= LastId(S, cursor)
<1> DEFINE ids == {x.id : x \in S}
<1>1. ids \subseteq 0..MaxId /\ ids # {} /\ MaxId \in Nat
  BY OrderedIds
<1>2. PICK i \in ids : \A j \in ids : j <= i
  <2> HIDE DEF ids
  <2>1. QED
    BY <1>1, Greatest
<1>3. \A y \in S : y.id <= i
  BY <1>2
<1>4. LastId(S, cursor) \in ids /\ \A y \in S : y.id <= LastId(S, cursor)
  BY <1>2, <1>3 DEF LastId
<1>5. QED
  BY <1>4

LEMMA OrderedIsFinite ==
  ASSUME RunStreamAssumption, NEW S, Ordered(S)
  PROVE  IsFiniteSet(S)
<1>1. IsFiniteSet(1..MaxId)
  BY OrderedIds, FS_Interval
<1> DEFINE f == [x \in S |-> x.id]
<1>2. f \in Injection(S, 1..MaxId)
  BY OrderedIds DEF Ordered, Injection, IsInjective
<1>3. QED
  <2> HIDE DEF f
  <2>1. QED
    BY <1>1, <1>2, FS_Injection

(* The n oldest entries: a prefix of at most n, all if there are no more,  *)
(* and not empty unless there are none.                                    *)
LEMMA OldestIsPrefix ==
  ASSUME RunStreamAssumption, NEW S, Ordered(S), NEW n \in Nat \ {0}
  PROVE  /\ Oldest(S, n) \subseteq S
         /\ \A x \in Oldest(S, n), y \in S : y.id <= x.id => y \in Oldest(S, n)
         /\ Cardinality(Oldest(S, n)) <= n
         /\ Cardinality(S) < n => Oldest(S, n) = S
         /\ S # {} => Oldest(S, n) # {}
<1> DEFINE Before(x) == {y \in S : y.id < x.id}
           page == Oldest(S, n)
<1>1. \A x \in S : x.id \in Nat
  BY OrderedIds
<1>2. IsFiniteSet(S) /\ Cardinality(S) \in Nat
  BY OrderedIsFinite, FS_CardinalityType
<1>3. \A x \in S : /\ IsFiniteSet(Before(x)) /\ Cardinality(Before(x)) \in Nat
                   /\ Cardinality(Before(x)) <= Cardinality(S)
  <2>1. TAKE x \in S
  <2>2. Before(x) \in SUBSET S
    OBVIOUS
  <2> HIDE DEF Before
  <2>3. QED
    BY <1>2, <2>2, FS_Subset, FS_CardinalityType
<1>4. page = {x \in S : Cardinality(Before(x)) < n}
  BY DEF Oldest
<1>5. page \subseteq S
  BY <1>4
<1>6. ASSUME NEW x \in page, NEW y \in S, y.id <= x.id PROVE y \in page
  <2>1. Before(y) \in SUBSET Before(x) /\ x \in S /\ y.id \in Nat /\ x.id \in Nat
    BY <1>1, <1>5, <1>6
  <2>2. Cardinality(Before(y)) <= Cardinality(Before(x)) /\ Cardinality(Before(x)) < n
    <3> HIDE DEF Before, page
    <3>1. IsFiniteSet(Before(x)) /\ x \in page
      BY <2>1, <1>3
    <3>2. QED
      BY <2>1, <3>1, <1>4, FS_Subset
  <2>3. QED
    <3> HIDE DEF Before, page
    <3>1. Cardinality(Before(y)) \in Nat /\ Cardinality(Before(x)) \in Nat
      BY <2>1, <1>3
    <3>2. QED
      BY <2>2, <3>1, <1>4
<1>7. Cardinality(page) <= n
  <2>1. CASE page = {}
    <3> HIDE DEF page
    <3>1. QED
      BY <2>1, FS_EmptySet
  <2>2. CASE page # {}
    <3>1. Ordered(page)
      <4> HIDE DEF page
      <4>1. QED
        BY <1>5, OrderedIds
    <3>2. PICK m \in page : \A y \in page : y.id <= m.id
      <4> HIDE DEF page
      <4>1. PICK m \in page : LastId(page, 0) = m.id
        BY <2>2, <3>1, LastIsGreatest
      <4>2. \A y \in page : y.id <= LastId(page, 0)
        BY <2>2, <3>1, LastIsGreatest
      <4>3. QED
        BY <4>1, <4>2
    <3>3. page \ {m} \subseteq Before(m)
      <4>1. ASSUME NEW y \in page \ {m} PROVE y \in Before(m)
        <5>1. y \in S /\ m \in S /\ y.id # m.id /\ y.id <= m.id
          <6> HIDE DEF page
          <6>1. QED
            BY <3>2, <1>5 DEF Ordered
        <5>2. QED
          BY <5>1, <1>1
      <4>2. QED
        BY <4>1
    <3> HIDE DEF page, Before
    <3>4. m \in S /\ Cardinality(Before(m)) < n /\ Cardinality(Before(m)) \in Nat
            /\ IsFiniteSet(Before(m))
      BY <1>3, <1>4, <1>5
    <3>5. Cardinality(page \ {m}) <= Cardinality(Before(m)) /\ IsFiniteSet(page \ {m})
      BY <3>3, <3>4, FS_Subset
    <3>6. IsFiniteSet(page) /\ Cardinality(page) \in Nat
      BY <3>1, OrderedIsFinite, FS_CardinalityType
    <3>7. Cardinality(page \ {m}) = Cardinality(page) - 1
      BY <3>6, FS_RemoveElement
    <3>8. QED
      BY <3>4, <3>5, <3>6, <3>7
  <2>3. QED
    BY <2>1, <2>2
<1>8. ASSUME Cardinality(S) < n PROVE page = S
  <2> HIDE DEF Before, page
  <2>1. \A x \in S : Cardinality(Before(x)) < n
    BY <1>2, <1>3, <1>8
  <2>2. QED
    BY <2>1, <1>4
<1>9. ASSUME S # {} PROVE page # {}
  <2>1. First(S) \in S /\ \A y \in S : First(S).id <= y.id
    BY <1>9, FirstIsLeast
  <2>2. Before(First(S)) = {}
    BY <2>1, <1>1
  <2> HIDE DEF Before, page
  <2>3. Cardinality(Before(First(S))) < n
    BY <2>2, FS_EmptySet
  <2>4. QED
    BY <2>1, <2>3, <1>4
<1>10. QED
  BY <1>5, <1>6, <1>7, <1>8, <1>9
-----------------------------------------------------------------------------
(* Reading                                                                 *)

Logged == {log[i] : i \in 1..Len(log)}

LogOrder ==
  /\ log \in Seq(Entries) /\ Len(log) <= MaxId
  /\ \A i \in 1..Len(log) : log[i].id = i

LEMMA LoggedOrdered ==
  ASSUME LogOrder
  PROVE  /\ Ordered(Logged)
         /\ \A x \in Logged : x.id \in 1..Len(log) /\ log[x.id] = x
         /\ \A i \in 1..Len(log) : log[i] \in Logged
<1>1. \A i \in 1..Len(log) : log[i] \in Entries
  BY DEF LogOrder
<1>2. QED
  BY <1>1 DEF LogOrder, Ordered, Logged

(* What a page returns of what was fetched after a cursor, and how far it  *)
(* moves that cursor.  Whole: what the new cursor has passed is in the     *)
(* page, or of an older attempt than the one that is followed then.        *)
Follows(r, e) == IF r.status = "attempt_advanced" THEN r.epoch ELSE e

WholePage(r, raw, cursor, e) ==
  /\ r.status \in {"events", "attempt_advanced", "attempt_absent"}
  /\ r.cursor = cursor \/ \E x \in raw : r.cursor = x.id
  /\ r.events \subseteq raw /\ Cardinality(r.events) <= PageSize
  /\ r.status = "events" <=> r.events # {}
  /\ \A x \in r.events : x.epoch = e /\ x.id <= r.cursor
  /\ r.status = "attempt_advanced" => r.epoch > e /\ \E x \in raw : r.epoch = x.epoch
  /\ \A x \in raw : x.id <= r.cursor /\ x.epoch >= Follows(r, e) => x \in r.events

LEMMA EntriesResultIsWhole ==
  ASSUME NEW raw, Ordered(raw), raw # {}, NEW e \in 0..MaxEpoch, NEW cursor \in Nat,
         \A x \in raw : x.id > cursor, NEW r, r = EntriesResult(raw, e, cursor)
  PROVE  WholePage(r, raw, cursor, e)
<1> DEFINE newer    == Newer(raw, e)
           readable == Readable(raw, e)
           events   == Events(raw, e)
           page     == Oldest(events, PageSize)
<1> USE RunStreamAssumption, PageAssumption
<1>1. \A x \in raw : x.id \in Nat /\ x.epoch \in Epochs /\ x.epoch \in Nat
  BY DEF Ordered, Entries, Epochs
<1>2. newer \subseteq raw /\ readable \subseteq raw /\ events \subseteq readable
  BY DEF Newer, Readable, Events
<1>3. Ordered(newer) /\ Ordered(readable) /\ Ordered(events)
  <2> HIDE DEF newer, readable, events
  <2>1. events \subseteq raw
    BY <1>2
  <2>2. QED
    BY <1>2, <2>1, OrderedIds
<1>4. \A x \in readable : x.epoch <= e
  BY <1>1 DEF Newer, Readable
<1>5. \A x \in readable, y \in raw : y.id <= x.id => y \in readable
  BY <1>1 DEF Readable, Newer
<1>6. \A x \in readable : x.epoch >= e => x \in events
  BY <1>1, <1>4 DEF Events, Readable
<1>7. \A x \in events : x.epoch = e
  BY DEF Events
<1> HIDE DEF newer, readable, events
<1>8. CASE events # {}
  <2>1. /\ page \subseteq events /\ Cardinality(page) <= PageSize /\ page # {}
        /\ \A x \in page, y \in events : y.id <= x.id => y \in page
        /\ Cardinality(events) < PageSize => page = events
    BY <1>3, <1>8, OldestIsPrefix
  <2> HIDE DEF page
  <2> DEFINE upTo == IF Cardinality(events) < PageSize THEN readable ELSE page
  <2>2. r = Read("events", page, LastId(upTo, cursor), 0)
    BY <1>8 DEF EntriesResult, events, page, readable
  <2>3. /\ page \subseteq upTo /\ upTo \subseteq readable /\ upTo # {} /\ Ordered(upTo)
        /\ \A x \in upTo, y \in raw : y.id <= x.id /\ y.epoch >= e => y \in page
    <3>1. CASE Cardinality(events) < PageSize
      <4>1. upTo = readable /\ page = events
        BY <2>1, <3>1
      <4> HIDE DEF upTo
      <4>2. QED
        BY <4>1, <2>1, <1>2, <1>3, <1>5, <1>6
    <3>2. CASE ~(Cardinality(events) < PageSize)
      <4>1. upTo = page
        BY <3>2
      <4>2. Ordered(page)
        BY <2>1, <1>3, OrderedIds
      <4> HIDE DEF upTo
      <4>3. ASSUME NEW x \in page, NEW y \in raw, y.id <= x.id, y.epoch >= e
            PROVE  y \in page
        <5>1. x \in readable
          BY <2>1, <1>2
        <5>2. y \in events
          BY <5>1, <4>3, <1>5, <1>6
        <5>3. QED
          BY <5>2, <4>3, <2>1
      <4>4. QED
        BY <4>1, <4>2, <4>3, <2>1, <1>2
    <3>3. QED
      BY <3>1, <3>2
  <2> HIDE DEF upTo
  <2>4. PICK last \in upTo : LastId(upTo, cursor) = last.id
    BY <2>3, LastIsGreatest
  <2>5. \A x \in upTo : x.id <= last.id
    BY <2>3, <2>4, LastIsGreatest
  <2>6. r.status = "events" /\ r.events = page /\ r.cursor = last.id
    BY <2>2, <2>4 DEF Read
  <2>7. last \in raw /\ page \subseteq raw
    BY <2>3, <1>2
  <2>8. QED
    BY <2>1, <2>3, <2>5, <2>6, <2>7, <1>7 DEF WholePage, Follows
<1>9. CASE events = {} /\ newer # {}
  <2>1. First(newer) \in newer /\ \A y \in newer : First(newer).id <= y.id
    BY <1>9, <1>3, FirstIsLeast
  <2>2. r = Read("attempt_advanced", {}, LastId(readable, cursor), First(newer).epoch)
    BY <1>9 DEF EntriesResult, events, readable, newer
  <2>3. First(newer).epoch > e /\ First(newer) \in raw
    BY <2>1, <1>2 DEF newer, Newer
  <2>4. /\ LastId(readable, cursor) = cursor \/ \E x \in raw : LastId(readable, cursor) = x.id
        /\ \A x \in raw : x.id <= LastId(readable, cursor) => x.epoch <= e
    <3>1. CASE readable = {}
      <4>1. LastId(readable, cursor) = cursor
        BY <3>1 DEF LastId
      <4>2. QED
        BY <4>1, <1>1
    <3>2. CASE readable # {}
      <4>1. PICK last \in readable : LastId(readable, cursor) = last.id
        BY <3>2, <1>3, LastIsGreatest
      <4>2. QED
        BY <4>1, <1>2, <1>4, <1>5
    <3>3. QED
      BY <3>1, <3>2
  <2>5. /\ r.status = "attempt_advanced" /\ r.events = {}
        /\ r.cursor = LastId(readable, cursor) /\ r.epoch = First(newer).epoch
    BY <2>2 DEF Read
  <2>6. \A x \in raw : ~(x.id <= r.cursor /\ x.epoch >= r.epoch)
    <3>1. r.epoch > e /\ r.epoch \in Nat
      BY <2>3, <2>5, <1>1
    <3>2. QED
      BY <3>1, <2>4, <2>5, <1>1
  <2>7. Cardinality({}) <= PageSize
    BY FS_EmptySet
  <2>8. QED
    BY <2>3, <2>4, <2>5, <2>6, <2>7 DEF WholePage, Follows
<1>10. CASE events = {} /\ newer = {}
  <2>1. r = Read("attempt_absent", {}, LastId(raw, cursor), 0)
    BY <1>10 DEF EntriesResult, events, newer
  <2>2. PICK last \in raw : LastId(raw, cursor) = last.id
    BY LastIsGreatest
  <2>3. r.status = "attempt_absent" /\ r.events = {} /\ r.cursor = last.id
    BY <2>1, <2>2 DEF Read
  <2>4. \A x \in raw : x \in readable
    BY <1>10 DEF newer, readable, Readable
  <2>5. \A x \in raw : ~(x.epoch >= e)
    BY <1>10, <2>4, <1>6
  <2>6. Cardinality({}) <= PageSize
    BY FS_EmptySet
  <2>7. QED
    BY <2>2, <2>3, <2>5, <2>6 DEF WholePage, Follows
<1>11. QED
  BY <1>8, <1>9, <1>10

(* The same of a whole read, with the stream it reads.                     *)
LEMMA PageIsWhole ==
  ASSUME LogOrder, gone \in 0..Len(log), NEW e \in 0..MaxEpoch, NEW cursor \in 0..Len(log),
         NEW r, r = PageAfter(cursor, e)
  PROVE  \/ r = StreamMissing /\ cursor = NoCursor
         \/ r = Empty(cursor) /\ cursor # NoCursor
         \/ /\ r.status \in {"events", "attempt_advanced", "attempt_absent"}
            /\ r.cursor \in cursor..Len(log)
            /\ r.events \subseteq Logged /\ Cardinality(r.events) <= PageSize
            /\ r.status = "events" <=> r.events # {}
            /\ \A x \in r.events : /\ x.epoch = e /\ x.id \in cursor + 1 .. r.cursor
                                   /\ x.id > gone
            /\ r.status = "attempt_advanced" => r.epoch > e /\ r.epoch \in Epochs
            /\ \A i \in gone + 1 .. Len(log) :
                 cursor < i /\ i <= r.cursor /\ log[i].epoch >= Follows(r, e)
                   => log[i] \in r.events
<1> DEFINE raw == IF cursor = NoCursor THEN stream ELSE Oldest(After(cursor), PageSize)
<1> USE RunStreamAssumption, PageAssumption
<1>1. /\ stream \subseteq Logged /\ After(cursor) \subseteq Logged
      /\ \A x \in stream : x.id \in gone + 1 .. Len(log)
      /\ \A i \in gone + 1 .. Len(log) : log[i] \in stream /\ log[i].id = i
      /\ \A i \in gone + 1 .. Len(log) : i > cursor => log[i] \in After(cursor)
      /\ \A x \in After(cursor) : x \in stream /\ x.id > cursor
  <2>1. Len(log) \in Nat
    BY DEF LogOrder
  <2>2. \A i \in gone + 1 .. Len(log) : i \in 1..Len(log) /\ log[i].id = i
    BY <2>1 DEF LogOrder
  <2>3. \A x \in stream : \E i \in gone + 1 .. Len(log) : x = log[i]
    BY DEF stream, Held
  <2>4. /\ stream \subseteq Logged
        /\ \A x \in stream : x.id \in gone + 1 .. Len(log)
    BY <2>2, <2>3 DEF Logged
  <2>5. \A i \in gone + 1 .. Len(log) : log[i] \in stream
    BY DEF stream, Held
  <2>6. \A x : x \in After(cursor) <=> x \in stream /\ x.id > cursor
    BY DEF After
  <2>7. \A i \in gone + 1 .. Len(log) : i > cursor => log[i] \in After(cursor)
    BY <2>2, <2>5, <2>6
  <2>8. QED
    BY <2>2, <2>4, <2>5, <2>6, <2>7
<1>2. Ordered(stream) /\ Ordered(After(cursor))
  BY <1>1, LoggedOrdered, OrderedIds
<1>3. /\ raw \subseteq stream /\ Ordered(raw)
      /\ \A x \in raw : x.id > cursor
      /\ \A x \in raw, i \in gone + 1 .. Len(log) : cursor < i /\ i <= x.id => log[i] \in raw
  <2>1. CASE cursor = NoCursor
    BY <2>1, <1>1, <1>2 DEF NoCursor
  <2>2. CASE cursor # NoCursor
    <3>1. /\ Oldest(After(cursor), PageSize) \subseteq After(cursor)
          /\ \A x \in Oldest(After(cursor), PageSize), y \in After(cursor) :
               y.id <= x.id => y \in Oldest(After(cursor), PageSize)
      BY <1>2, OldestIsPrefix
    <3>2. raw = Oldest(After(cursor), PageSize)
      BY <2>2
    <3> HIDE DEF raw
    <3>3. Ordered(raw)
      BY <3>1, <3>2, <1>2, OrderedIds
    <3>4. QED
      BY <3>1, <3>2, <3>3, <1>1
  <2>3. QED
    BY <2>1, <2>2
<1>4. r = IF raw # {} THEN EntriesResult(raw, e, cursor)
          ELSE IF cursor = NoCursor THEN StreamMissing ELSE Empty(cursor)
  BY DEF PageAfter
<1> HIDE DEF raw
<1>5. CASE raw = {}
  BY <1>4, <1>5
<1>6. CASE raw # {}
  <2>1. WholePage(r, raw, cursor, e)
    BY <1>3, <1>4, <1>6, EntriesResultIsWhole
  <2>2. \A x \in raw : /\ x \in Logged /\ x.id \in cursor + 1 .. Len(log) /\ x.id > gone
                       /\ x.epoch \in Epochs
    <3>1. \A x \in raw : x \in Logged /\ x.id \in gone + 1 .. Len(log) /\ x.id > cursor
      BY <1>1, <1>3
    <3>2. \A x \in raw : x.epoch \in Epochs
      BY <1>3 DEF Ordered, Entries
    <3>3. QED
      BY <3>1, <3>2
  <2>3. r.cursor \in cursor..Len(log)
    BY <2>1, <2>2 DEF WholePage
  <2>4. \A x \in r.events : x.epoch = e /\ x.id \in cursor + 1 .. r.cursor /\ x.id > gone
    BY <2>1, <2>2, <2>3 DEF WholePage
  <2>5. r.status = "attempt_advanced" => r.epoch > e /\ r.epoch \in Epochs
    BY <2>1, <2>2 DEF WholePage
  <2>6. ASSUME NEW i \in gone + 1 .. Len(log), cursor < i, i <= r.cursor,
               log[i].epoch >= Follows(r, e)
        PROVE  log[i] \in r.events
    <3>1. \E x \in raw : r.cursor = x.id
      BY <2>1, <2>3, <2>6 DEF WholePage
    <3>2. log[i] \in raw /\ log[i].id = i
      BY <3>1, <2>6, <1>1, <1>3
    <3>3. QED
      BY <3>2, <2>1, <2>6 DEF WholePage
  <2>7. /\ r.events \subseteq Logged /\ Cardinality(r.events) <= PageSize
        /\ r.status = "events" <=> r.events # {}
        /\ r.status \in {"events", "attempt_advanced", "attempt_absent"}
    BY <2>1, <2>2 DEF WholePage
  <2>8. QED
    BY <2>3, <2>4, <2>5, <2>6, <2>7
<1>7. QED
  BY <1>5, <1>6
-----------------------------------------------------------------------------
(* Publishing                                                              *)

RunTypes ==
  /\ run \in [status : RunStatus, epoch : 0..MaxEpoch]
  /\ worker \in [Epochs -> [on : BOOLEAN, confirmed : BOOLEAN, gen : 1..MaxGen, n : 0..MaxChunk]]
  /\ notice \in [epoch : 0..MaxEpoch, status : RunStatus, confirmed : BOOLEAN]
  /\ gone \in 0..Len(log) /\ losses \in 0..MaxLosses

IsDelta(x) == x.type = "answer.delta"
Earlier(x, y) == x.gen < y.gen \/ (x.gen = y.gen /\ x.n < y.n)
NoLater(x, y) == x.gen < y.gen \/ (x.gen = y.gen /\ x.n <= y.n)

(* Entries are of attempts that have begun.  The text of an attempt is in  *)
(* the log in the order of its generations and chunks, none of it twice,   *)
(* and nothing beyond what its worker has published.                       *)
LogInv ==
  /\ \A i \in 1..Len(log) :
       log[i].epoch <= run.epoch /\ (IsDelta(log[i]) => log[i].gen # 0 /\ log[i].n # 0)
  /\ \A e \in Epochs : worker[e].on => e <= run.epoch
  /\ \A i, j \in 1..Len(log) :
       i < j /\ IsDelta(log[i]) /\ IsDelta(log[j]) /\ log[i].epoch = log[j].epoch
         => Earlier(log[i], log[j])
  /\ \A i \in 1..Len(log) : IsDelta(log[i]) => NoLater(log[i], worker[log[i].epoch])

(* What was or will be announced is how the run has ended.                 *)
EndsWith(status) == status \in Finished /\ run.status \in {status, "deleted"}
EndInv ==
  /\ run.status = "running" => run.epoch # 0
  /\ notice # NoNotice => notice.epoch \in 1..run.epoch /\ EndsWith(notice.status)
  /\ \A i \in 1..Len(log) : log[i].type = "terminal" => EndsWith(log[i].status)

StreamInv == RunTypes /\ LogOrder /\ LogInv /\ EndInv

(* What every step of the run and of its publishers leaves as it was.      *)
LogGrows ==
  /\ Len(log') \in Len(log)..MaxId /\ \A i \in 1..Len(log) : log'[i] = log[i]
  /\ gone <= gone'
RunMoves ==
  /\ run.epoch <= run'.epoch
  /\ \A st \in Finished : run.status \in {st, "deleted"} => run'.status \in {st, "deleted"}

EventsOf == [epoch : Epochs, type : EventTypes, gen : 0..MaxGen, n : 0..MaxChunk,
             status : RunStatus]
Placed(ev, i) == [id |-> i, epoch |-> ev.epoch, type |-> ev.type, gen |-> ev.gen,
                  n |-> ev.n, status |-> ev.status]

LEMMA EventTypesOf ==
  ASSUME NEW e \in Epochs
  PROVE  /\ Started(e) \in EventsOf
         /\ \A gen \in 1..MaxGen, n \in 1..MaxChunk : Delta(e, gen, n) \in EventsOf
         /\ \A gen \in 1..MaxGen : Reset(e, gen) \in EventsOf
         /\ \A st \in RunStatus : TerminalEvent(e, st) \in EventsOf
BY RunStreamAssumption
   DEF EventsOf, Started, Delta, Reset, TerminalEvent, Event, EventTypes, RunStatus

LEMMA AppendEffect ==
  ASSUME LogOrder, gone \in 0..Len(log), NEW evs \in Seq(EventsOf), AppendEvents(evs)
  PROVE  /\ LogOrder' /\ gone' \in gone..Len(log')
         /\ Len(log') = Len(log) + Len(evs)
         /\ \A i \in 1..Len(log) : log'[i] = log[i]
         /\ \A i \in Len(log) + 1 .. Len(log') : log'[i] = Placed(evs[i - Len(log)], i)
<1> DEFINE new == [i \in 1..Len(evs) |-> Entry(evs[i], i)]
<1>1. /\ Len(log) \in Nat /\ Len(evs) \in Nat /\ MaxId \in Nat /\ MaxLen \in Nat \ {0}
      /\ Len(log) + Len(evs) <= MaxId
  BY RunStreamAssumption DEF LogOrder, AppendEvents
<1>2. \A i \in 1..Len(evs) : /\ Entry(evs[i], i) = Placed(evs[i], Len(log) + i)
                             /\ Entry(evs[i], i) \in Entries
  <2>1. ASSUME NEW i \in 1..Len(evs)
        PROVE  evs[i] \in EventsOf /\ Len(log) + i \in 1..MaxId
    BY <1>1
  <2>2. QED
    BY <2>1 DEF Entry, Placed, EventsOf, Entries
<1>3. new \in Seq(Entries) /\ Len(new) = Len(evs)
  BY <1>1, <1>2
<1>4. log' = log \o new
  BY DEF AppendEvents
<1>5. \A i \in 1..Len(evs) : new[i] = Placed(evs[i], Len(log) + i)
  BY <1>2
<1> HIDE DEF new
<1>6. /\ log' \in Seq(Entries) /\ Len(log') = Len(log) + Len(evs)
      /\ \A i \in 1..Len(log) : log'[i] = log[i]
      /\ \A i \in Len(log) + 1 .. Len(log') : log'[i] = new[i - Len(log)]
  <2>1. log \in Seq(Entries)
    BY DEF LogOrder
  <2>2. /\ log' \in Seq(Entries) /\ Len(log') = Len(log) + Len(evs)
        /\ \A i \in 1..Len(log) + Len(evs) :
             log'[i] = IF i <= Len(log) THEN log[i] ELSE new[i - Len(log)]
    <3>1. /\ log \o new \in Seq(Entries) /\ Len(log \o new) = Len(log) + Len(new)
          /\ \A i \in 1..Len(log) + Len(new) :
               (log \o new)[i] = IF i <= Len(log) THEN log[i] ELSE new[i - Len(log)]
      <4> HIDE DEF new
      <4>1. QED
        BY <2>1, <1>3, ConcatProperties
    <3>2. QED
      BY <3>1, <1>3, <1>4
  <2>3. ASSUME NEW i \in Len(log) + 1 .. Len(log') PROVE log'[i] = new[i - Len(log)]
    <3>1. i \in 1..Len(log) + Len(evs) /\ ~(i <= Len(log))
      BY <2>2, <1>1
    <3>2. QED
      BY <3>1, <2>2
  <2>4. ASSUME NEW i \in 1..Len(log) PROVE log'[i] = log[i]
    <3>1. i \in 1..Len(log) + Len(evs) /\ i <= Len(log)
      BY <1>1
    <3>2. QED
      BY <3>1, <2>2
  <2>5. QED
    BY <2>2, <2>3, <2>4
<1>7. \A i \in Len(log) + 1 .. Len(log') : log'[i] = Placed(evs[i - Len(log)], i)
  <2>1. ASSUME NEW i \in Len(log) + 1 .. Len(log')
        PROVE  log'[i] = Placed(evs[i - Len(log)], i)
    <3>1. i - Len(log) \in 1..Len(evs) /\ Len(log) + (i - Len(log)) = i
      BY <1>1, <1>6
    <3>2. QED
      BY <3>1, <1>5, <1>6
  <2>2. QED
    BY <2>1
<1>8. \A i \in 1..Len(log') : log'[i].id = i
  <2>1. ASSUME NEW i \in 1..Len(log') PROVE log'[i].id = i
    <3>1. CASE i \in 1..Len(log)
      BY <3>1, <1>6 DEF LogOrder
    <3>2. CASE i \in Len(log) + 1 .. Len(log')
      <4>1. log'[i] = Placed(evs[i - Len(log)], i)
        BY <3>2, <1>7
      <4>2. QED
        BY <4>1 DEF Placed
    <3>3. QED
      BY <3>1, <3>2, <1>1, <1>6
  <2>2. QED
    BY <2>1
<1>9. gone' \in gone..Len(log')
  BY <1>1, <1>6 DEF AppendEvents, Overflow
<1>10. QED
  BY <1>1, <1>6, <1>7, <1>8, <1>9 DEF LogOrder

(* A publish appends the event, at the end, after no more than a marker.   *)
Appended(ev) ==
  /\ LogOrder' /\ LogGrows /\ gone' \in 0..Len(log') /\ losses' \in 0..MaxLosses
  /\ \A i \in Len(log) + 1 .. Len(log') :
       \/ log'[i] = Placed(ev, i) /\ i = Len(log')
       \/ log'[i] = Placed(Started(ev.epoch), i)

LEMMA PublishEffect ==
  ASSUME RunTypes, LogOrder, NEW ev \in EventsOf, NEW confirmed, NEW outcome \in Outcomes,
         Publish(WithMarker(confirmed, ev), outcome)
  PROVE  Appended(ev)
<1> DEFINE evs == WithMarker(confirmed, ev)
<1>1. losses' \in 0..MaxLosses
  BY RunStreamAssumption DEF Publish, RunTypes
<1>2. Len(log) \in Nat /\ gone \in 0..Len(log)
  BY DEF LogOrder, RunTypes
<1>3. CASE outcome = "lost"
  <2>1. log' = log /\ gone' = gone
    BY <1>3 DEF Publish
  <2>2. QED
    BY <2>1, <1>1, <1>2 DEF Appended, LogGrows, LogOrder
<1>4. CASE outcome # "lost"
  <2>1. AppendEvents(evs)
    BY <1>4 DEF Publish
  <2>2. /\ evs \in Seq(EventsOf) /\ Len(evs) \in {1, 2} /\ evs[Len(evs)] = ev
        /\ Len(evs) = 2 => evs[1] = Started(ev.epoch)
    <3>1. ev.epoch \in Epochs
      BY DEF EventsOf
    <3>2. Started(ev.epoch) \in EventsOf
      BY <3>1, EventTypesOf
    <3>3. QED
      BY <3>2 DEF WithMarker
  <2> HIDE DEF evs
  <2>3. /\ LogOrder' /\ gone' \in gone..Len(log')
        /\ Len(log') = Len(log) + Len(evs)
        /\ \A i \in 1..Len(log) : log'[i] = log[i]
        /\ \A i \in Len(log) + 1 .. Len(log') : log'[i] = Placed(evs[i - Len(log)], i)
    BY <2>1, <2>2, <1>2, AppendEffect
  <2>4. ASSUME NEW i \in Len(log) + 1 .. Len(log')
        PROVE  \/ log'[i] = Placed(ev, i) /\ i = Len(log')
               \/ log'[i] = Placed(Started(ev.epoch), i)
    <3>1. \/ i - Len(log) = Len(evs) /\ i = Len(log')
          \/ Len(evs) = 2 /\ i - Len(log) = 1
      <4>1. Len(log') = Len(log) + Len(evs) /\ (Len(evs) = 1 \/ Len(evs) = 2)
        BY <2>2, <2>3
      <4>2. Len(log) \in Nat /\ i \in Nat /\ Len(log) + 1 <= i /\ i <= Len(log')
        BY <4>1, <1>2
      <4>3. CASE Len(evs) = 1
        BY <4>1, <4>2, <4>3
      <4>4. CASE Len(evs) = 2
        BY <4>1, <4>2, <4>4
      <4>5. QED
        BY <4>1, <4>3, <4>4
    <3>2. QED
      BY <3>1, <2>2, <2>3
  <2>5. Len(log') \in Len(log)..MaxId /\ gone <= gone' /\ gone' \in 0..Len(log')
    BY <2>2, <2>3, <1>2 DEF LogOrder
  <2>6. QED
    BY <2>3, <2>4, <2>5, <1>1 DEF Appended, LogGrows
<1>5. QED
  BY <1>3, <1>4

(* The order of generations and chunks is transitive.                      *)
LEMMA NoLaterTransitive ==
  ASSUME NEW x, NEW y, NEW z, NoLater(x, y), NoLater(y, z),
         x.gen \in Nat, x.n \in Nat, y.gen \in Nat, y.n \in Nat, z.gen \in Nat, z.n \in Nat
  PROVE  NoLater(x, z)
<1>1. /\ x.gen < y.gen \/ (x.gen = y.gen /\ x.n <= y.n)
      /\ y.gen < z.gen \/ (y.gen = z.gen /\ y.n <= z.n)
  BY DEF NoLater
<1>2. x.gen < z.gen \/ (x.gen = z.gen /\ x.n <= z.n)
  BY <1>1
<1>3. QED
  BY <1>2 DEF NoLater

LEMMA NoLaterThenEarlier ==
  ASSUME NEW x, NEW y, NEW z, NoLater(x, y), Earlier(y, z),
         x.gen \in Nat, x.n \in Nat, y.gen \in Nat, y.n \in Nat, z.gen \in Nat, z.n \in Nat
  PROVE  Earlier(x, z)
<1>1. /\ x.gen < y.gen \/ (x.gen = y.gen /\ x.n <= y.n)
      /\ y.gen < z.gen \/ (y.gen = z.gen /\ y.n < z.n)
  BY DEF NoLater, Earlier
<1>2. x.gen < z.gen \/ (x.gen = z.gen /\ x.n < z.n)
  BY <1>1
<1>3. QED
  BY <1>2 DEF Earlier

(* The order of the text is kept when a new delta is the last entry and    *)
(* beyond what its worker has published so far.                            *)
LEMMA LogInvKept ==
  ASSUME StreamInv, RunTypes', LogOrder', LogGrows, run.epoch <= run'.epoch,
         \A e \in Epochs : worker'[e].on => e <= run'.epoch,
         \A e \in Epochs : e <= run.epoch => NoLater(worker[e], worker'[e]),
         \A i \in Len(log) + 1 .. Len(log') :
           /\ log'[i].epoch <= run'.epoch
           /\ IsDelta(log'[i]) => /\ i = Len(log') /\ log'[i].gen # 0 /\ log'[i].n # 0
                                  /\ log'[i].epoch <= run.epoch
                                  /\ Earlier(worker[log'[i].epoch], log'[i])
                                  /\ NoLater(log'[i], worker'[log'[i].epoch])
  PROVE  LogInv'
<1>1. /\ Len(log) \in Nat /\ Len(log') \in Nat /\ Len(log) <= Len(log')
      /\ \A i \in 1..Len(log) : log'[i] = log[i] /\ log[i] \in Entries
      /\ \A i \in 1..Len(log') : log'[i] \in Entries
  <2>1. log \in Seq(Entries) /\ log' \in Seq(Entries)
    BY DEF StreamInv, LogOrder
  <2>2. QED
    BY <2>1 DEF LogGrows
<1>2. /\ \A x \in Entries : x.gen \in Nat /\ x.n \in Nat /\ x.epoch \in Epochs /\ x.epoch \in Nat
      /\ \A e \in Epochs : /\ worker[e].gen \in Nat /\ worker[e].n \in Nat
                           /\ worker'[e].gen \in Nat /\ worker'[e].n \in Nat
      /\ run.epoch \in Nat /\ run'.epoch \in Nat
  <2>1. \A x \in Entries : x.gen \in Nat /\ x.n \in Nat /\ x.epoch \in Epochs /\ x.epoch \in Nat
    BY DEF Entries, Epochs
  <2>2. \A e \in Epochs : worker[e].gen \in Nat /\ worker[e].n \in Nat
    BY DEF StreamInv, RunTypes
  <2>3. \A e \in Epochs : worker'[e].gen \in Nat /\ worker'[e].n \in Nat
    BY DEF RunTypes
  <2>4. run.epoch \in Nat /\ run'.epoch \in Nat
    BY DEF StreamInv, RunTypes
  <2>5. QED
    BY <2>1, <2>2, <2>3, <2>4
<1>3. ASSUME NEW i \in 1..Len(log')
      PROVE  /\ log'[i].epoch <= run'.epoch
             /\ IsDelta(log'[i]) => log'[i].gen # 0 /\ log'[i].n # 0
             /\ IsDelta(log'[i]) => NoLater(log'[i], worker'[log'[i].epoch])
  <2>1. CASE i \in 1..Len(log)
    <3>1. /\ log'[i] = log[i] /\ log[i] \in Entries /\ log[i].epoch <= run.epoch
          /\ IsDelta(log[i]) => log[i].gen # 0 /\ log[i].n # 0
          /\ IsDelta(log[i]) => NoLater(log[i], worker[log[i].epoch])
      BY <2>1, <1>1 DEF StreamInv, LogInv
    <3>2. NoLater(worker[log[i].epoch], worker'[log[i].epoch])
      BY <3>1, <1>2
    <3>3. /\ log[i].gen \in Nat /\ log[i].n \in Nat /\ log[i].epoch \in Epochs
          /\ log[i].epoch \in Nat /\ run.epoch \in Nat /\ run'.epoch \in Nat
      BY <3>1, <1>2
    <3>4. log'[i].epoch <= run'.epoch
      <4>1. run.epoch <= run'.epoch
        BY <1>1
      <4>2. QED
        BY <3>1, <3>3, <4>1
    <3>5. ASSUME IsDelta(log[i])
          PROVE  NoLater(log[i], worker'[log[i].epoch])
      <4>1. NoLater(log[i], worker[log[i].epoch])
        BY <3>1, <3>5
      <4>2. /\ worker[log[i].epoch].gen \in Nat /\ worker[log[i].epoch].n \in Nat
            /\ worker'[log[i].epoch].gen \in Nat /\ worker'[log[i].epoch].n \in Nat
        BY <3>3, <1>2
      <4>3. QED
        BY <3>2, <3>3, <4>1, <4>2, NoLaterTransitive
    <3>6. QED
      BY <3>1, <3>4, <3>5
  <2>2. CASE i \in Len(log) + 1 .. Len(log')
    BY <2>2
  <2>3. QED
    BY <2>1, <2>2, <1>1
<1>4. ASSUME NEW i \in 1..Len(log'), NEW j \in 1..Len(log'), i < j,
             IsDelta(log'[i]), IsDelta(log'[j]), log'[i].epoch = log'[j].epoch
      PROVE  Earlier(log'[i], log'[j])
  <2>1. CASE j \in 1..Len(log)
    <3>1. i \in 1..Len(log) /\ log'[i] = log[i] /\ log'[j] = log[j]
      BY <2>1, <1>1, <1>4
    <3>2. QED
      BY <2>1, <3>1, <1>4 DEF StreamInv, LogInv
  <2>2. CASE j \in Len(log) + 1 .. Len(log')
    <3>1. j = Len(log') /\ Earlier(worker[log'[j].epoch], log'[j])
      BY <2>2, <1>4
    <3>2. i \in 1..Len(log)
      <4>1. i \notin Len(log) + 1 .. Len(log')
        BY <3>1, <1>4, <1>1
      <4>2. QED
        BY <4>1, <1>1
    <3>3. log'[i] = log[i] /\ NoLater(log[i], worker[log[i].epoch])
      BY <3>2, <1>1, <1>4 DEF StreamInv, LogInv
    <3>4. log'[i] \in Entries /\ log'[j] \in Entries
      BY <1>1
    <3>5. /\ log'[i].gen \in Nat /\ log'[i].n \in Nat /\ log'[j].gen \in Nat /\ log'[j].n \in Nat
          /\ worker[log'[j].epoch].gen \in Nat /\ worker[log'[j].epoch].n \in Nat
      BY <3>4, <1>2
    <3>6. NoLater(log'[i], worker[log'[j].epoch])
      BY <3>3, <1>4
    <3>7. QED
      BY <3>1, <3>5, <3>6, NoLaterThenEarlier
  <2>3. QED
    BY <2>1, <2>2, <1>1
<1>5. QED
  BY <1>3, <1>4 DEF LogInv

LEMMA EndInvKept ==
  ASSUME StreamInv, RunTypes', LogOrder', LogGrows, RunMoves,
         run'.status = "running" => run'.epoch # 0,
         notice' # NoNotice =>
           \/ notice' = notice
           \/ /\ notice'.epoch \in 1..run'.epoch /\ notice'.status \in Finished
              /\ run'.status \in {notice'.status, "deleted"},
         \A i \in Len(log) + 1 .. Len(log') :
           log'[i].type = "terminal" => /\ log'[i].status \in Finished
                                        /\ run'.status \in {log'[i].status, "deleted"}
  PROVE  EndInv'
<1>1. /\ Len(log) \in Nat /\ Len(log') \in Nat /\ Len(log) <= Len(log')
      /\ \A i \in 1..Len(log) : log'[i] = log[i]
  BY DEF StreamInv, LogOrder, LogGrows
<1>2. ASSUME NEW i \in 1..Len(log'), log'[i].type = "terminal"
      PROVE  log'[i].status \in Finished /\ run'.status \in {log'[i].status, "deleted"}
  <2>1. CASE i \in 1..Len(log)
    BY <2>1, <1>1, <1>2 DEF StreamInv, EndInv, EndsWith, RunMoves
  <2>2. CASE i \in Len(log) + 1 .. Len(log')
    BY <2>2, <1>2
  <2>3. QED
    BY <2>1, <2>2, <1>1
<1>3. ASSUME notice' # NoNotice
      PROVE  /\ notice'.epoch \in 1..run'.epoch /\ notice'.status \in Finished
             /\ run'.status \in {notice'.status, "deleted"}
  <2>1. CASE notice' = notice
    <3>1. notice.epoch \in 1..run.epoch /\ EndsWith(notice.status)
      BY <2>1, <1>3 DEF StreamInv, EndInv
    <3>2. run.epoch \in Nat /\ run'.epoch \in Nat /\ run.epoch <= run'.epoch
      BY DEF StreamInv, RunTypes, RunMoves
    <3>3. QED
      BY <2>1, <3>1, <3>2 DEF EndsWith, RunMoves
  <2>2. QED
    BY <2>1, <1>3
<1>4. QED
  BY <1>2, <1>3 DEF EndInv, EndsWith

(* Steps after which the log is what it was.                               *)
LEMMA SameLog ==
  ASSUME StreamInv, log' = log, gone' \in gone..Len(log)
  PROVE  LogOrder' /\ LogGrows /\ Len(log) + 1 .. Len(log') = {}
<1>1. Len(log) \in Nat /\ gone \in Nat /\ Len(log) <= MaxId /\ MaxId \in Nat
  BY RunStreamAssumption DEF StreamInv, RunTypes, LogOrder
<1>2. QED
  BY <1>1 DEF StreamInv, LogOrder, LogGrows

LEMMA SameRun ==
  ASSUME RunTypes, run' = run
  PROVE  RunMoves
BY DEF RunTypes, RunMoves

(* A worker's publisher after one of its fields is set.                    *)
WorkerType == [on : BOOLEAN, confirmed : BOOLEAN, gen : 1..MaxGen, n : 0..MaxChunk]

LEMMA SetOn ==
  ASSUME NEW q \in WorkerType, NEW v \in BOOLEAN
  PROVE  LET r == [q EXCEPT !.on = v]
         IN r \in WorkerType /\ r.on = v /\ r.gen = q.gen /\ r.n = q.n
BY DEF WorkerType

LEMMA SetConfirmed ==
  ASSUME NEW q \in WorkerType, NEW v \in BOOLEAN
  PROVE  LET r == [q EXCEPT !.confirmed = v]
         IN r \in WorkerType /\ r.on = q.on /\ r.gen = q.gen /\ r.n = q.n
BY DEF WorkerType

LEMMA SetGen ==
  ASSUME NEW q \in WorkerType, NEW v \in 1..MaxGen
  PROVE  LET r == [q EXCEPT !.gen = v]
         IN r \in WorkerType /\ r.on = q.on /\ r.gen = v /\ r.n = q.n
BY DEF WorkerType

LEMMA SetN ==
  ASSUME NEW q \in WorkerType, NEW v \in 0..MaxChunk
  PROVE  LET r == [q EXCEPT !.n = v]
         IN r \in WorkerType /\ r.on = q.on /\ r.gen = q.gen /\ r.n = v
BY DEF WorkerType

LEMMA BeginAttemptStep ==
  ASSUME StreamInv, NEW outcome \in Outcomes, BeginAttempt(outcome)
  PROVE  StreamInv' /\ LogGrows /\ RunMoves
<1> DEFINE e == run.epoch + 1
           on == [Idle EXCEPT !.on = TRUE]
           begun == [on EXCEPT !.confirmed = (outcome = "confirmed")]
<1>1. /\ run.status \in {"queued", "running"} /\ run' = [status |-> "running", epoch |-> e]
      /\ Publish(<<Started(e)>>, outcome) /\ notice' = notice
      /\ worker' = [worker EXCEPT ![e] = begun]
  BY DEF BeginAttempt
<1>2. e \in Epochs /\ e \in Nat /\ run.epoch \in Nat /\ run.epoch < e
  BY RunStreamAssumption DEF BeginAttempt, StreamInv, RunTypes, Epochs
<1>3. Appended(Started(e))
  <2>1. WithMarker(TRUE, Started(e)) = <<Started(e)>>
    BY DEF WithMarker
  <2>2. Started(e) \in EventsOf
    BY <1>2, EventTypesOf
  <2>3. QED
    BY <1>1, <2>1, <2>2, PublishEffect DEF StreamInv
<1> HIDE DEF e
<1>4. RunTypes'
  <2>1. begun \in [on : BOOLEAN, confirmed : BOOLEAN, gen : 1..MaxGen, n : 0..MaxChunk]
    <3>1. Idle \in WorkerType
      BY RunStreamAssumption DEF Idle, WorkerType
    <3>2. on \in WorkerType
      BY <3>1, SetOn
    <3> HIDE DEF on
    <3>3. QED
      BY <3>2, SetConfirmed DEF WorkerType
  <2> HIDE DEF begun
  <2>2. worker' \in [Epochs -> [on : BOOLEAN, confirmed : BOOLEAN, gen : 1..MaxGen,
                                n : 0..MaxChunk]]
    BY <1>1, <2>1 DEF StreamInv, RunTypes
  <2>3. run' \in [status : RunStatus, epoch : 0..MaxEpoch]
    BY <1>1, <1>2 DEF RunStatus, Epochs
  <2>4. QED
    BY <2>2, <2>3, <1>1, <1>3 DEF StreamInv, RunTypes, Appended
<1>5. RunMoves
  BY <1>1, <1>2 DEF RunMoves, Finished
<1>6. \A i \in Len(log) + 1 .. Len(log') :
        log'[i].type = "attempt.started" /\ log'[i].epoch = e
  <2>1. /\ Started(e).epoch = e /\ Started(e).type = "attempt.started"
        /\ Started(Started(e).epoch) = Started(e)
    BY DEF Started, Event
  <2>2. \A i \in Len(log) + 1 .. Len(log') : log'[i] = Placed(Started(e), i)
    BY <2>1, <1>3 DEF Appended
  <2>3. \A i : /\ Placed(Started(e), i).type = Started(e).type
                /\ Placed(Started(e), i).epoch = Started(e).epoch
    BY DEF Placed
  <2>4. QED
    BY <2>1, <2>2, <2>3
<1> HIDE DEF begun
<1>7. /\ \A f \in Epochs : worker'[f].on => f <= run'.epoch
      /\ \A f \in Epochs : f <= run.epoch => NoLater(worker[f], worker'[f])
  <2>1. ASSUME NEW f \in Epochs PROVE worker'[f] = IF f = e THEN begun ELSE worker[f]
    BY <1>1, <1>2 DEF StreamInv, RunTypes
  <2>2. \A f \in Epochs : f \in Nat /\ worker[f].gen \in Nat /\ worker[f].n \in Nat
    BY DEF StreamInv, RunTypes, Epochs
  <2>3. \A f \in Epochs : worker[f].on => f <= run.epoch
    BY DEF StreamInv, LogInv
  <2>4. run'.epoch = e
    BY <1>1
  <2>5. ASSUME NEW f \in Epochs
        PROVE  /\ worker'[f].on => f <= run'.epoch
               /\ f <= run.epoch => NoLater(worker[f], worker'[f])
    <3>1. CASE f = e
      BY <3>1, <2>2, <2>4, <1>2
    <3>2. CASE f # e
      <4>1. worker'[f] = worker[f]
        BY <3>2, <2>1
      <4>2. QED
        BY <4>1, <2>2, <2>3, <2>4, <1>2 DEF NoLater
    <3>3. QED
      BY <3>1, <3>2
  <2>6. QED
    BY <2>5
<1>8. LogInv'
  <2>1. \A i \in Len(log) + 1 .. Len(log') : log'[i].epoch <= run'.epoch /\ ~IsDelta(log'[i])
    BY <1>1, <1>2, <1>6 DEF IsDelta
  <2>2. LogOrder' /\ LogGrows /\ run.epoch <= run'.epoch
    BY <1>3, <1>5 DEF Appended, RunMoves
  <2>3. QED
    BY <2>1, <2>2, <1>4, <1>7, LogInvKept
<1>9. EndInv'
  <2>1. \A i \in Len(log) + 1 .. Len(log') : log'[i].type # "terminal"
    BY <1>6
  <2>2. LogOrder' /\ LogGrows /\ run'.epoch # 0
    BY <1>1, <1>2, <1>3 DEF Appended
  <2>3. QED
    BY <2>1, <2>2, <1>1, <1>4, <1>5, EndInvKept
<1>10. QED
  BY <1>3, <1>4, <1>5, <1>8, <1>9 DEF StreamInv, Appended

(* What a worker that publishes, or begins a new generation, does to the   *)
(* log and to itself.                                                      *)
LEMMA WorkerStep ==
  ASSUME StreamInv, NEW e \in Epochs, worker[e].on,
         NEW w \in [on : BOOLEAN, confirmed : BOOLEAN, gen : 1..MaxGen, n : 0..MaxChunk],
         worker' = [worker EXCEPT ![e] = w], NoLater(worker[e], w),
         run' = run, notice' = notice,
         RunTypes', LogOrder', LogGrows,
         \A i \in Len(log) + 1 .. Len(log') :
           /\ log'[i].epoch = e /\ log'[i].type # "terminal"
           /\ IsDelta(log'[i]) => /\ i = Len(log') /\ log'[i].gen # 0 /\ log'[i].n # 0
                                  /\ Earlier(worker[e], log'[i]) /\ NoLater(log'[i], w)
  PROVE  StreamInv' /\ RunMoves
<1>1. e <= run.epoch
  BY DEF StreamInv, LogInv
<1>2. RunMoves
  BY SameRun DEF StreamInv
<1>3. \A f \in Epochs : worker'[f] = IF f = e THEN w ELSE worker[f]
  BY DEF StreamInv, RunTypes
<1>4. LogInv'
  <2>1. \A f \in Epochs : worker'[f].on => f <= run'.epoch
    BY <1>1, <1>3 DEF StreamInv, LogInv
  <2>2. \A f \in Epochs : NoLater(worker[f], worker'[f])
    <3>1. \A f \in Epochs : worker[f].gen \in Nat /\ worker[f].n \in Nat
      BY DEF StreamInv, RunTypes
    <3>2. ASSUME NEW f \in Epochs PROVE NoLater(worker[f], worker'[f])
      <4>1. CASE f = e
        BY <4>1, <1>3
      <4>2. CASE f # e
        BY <4>2, <3>1, <1>3 DEF NoLater
      <4>3. QED
        BY <4>1, <4>2
    <3>3. QED
      BY <3>2
  <2>3. ASSUME NEW i \in Len(log) + 1 .. Len(log')
        PROVE  /\ log'[i].epoch <= run'.epoch
               /\ IsDelta(log'[i]) => /\ i = Len(log') /\ log'[i].gen # 0 /\ log'[i].n # 0
                                      /\ log'[i].epoch <= run.epoch
                                      /\ Earlier(worker[log'[i].epoch], log'[i])
                                      /\ NoLater(log'[i], worker'[log'[i].epoch])
    BY <2>3, <1>1, <1>3
  <2>4. run.epoch <= run'.epoch
    BY <1>2 DEF RunMoves
  <2>5. QED
    BY <2>1, <2>2, <2>3, <2>4, LogInvKept
<1>5. EndInv'
  <2>1. run'.status = "running" => run'.epoch # 0
    BY DEF StreamInv, EndInv
  <2>2. QED
    BY <1>2, <2>1, EndInvKept
<1>6. QED
  BY <1>2, <1>4, <1>5 DEF StreamInv

LEMMA PublishDeltaStep ==
  ASSUME StreamInv, NEW e \in Epochs, NEW outcome \in Outcomes, PublishDelta(e, outcome)
  PROVE  StreamInv' /\ LogGrows /\ RunMoves
<1> DEFINE n == worker[e].n + 1
           counted == [worker[e] EXCEPT !.n = n]
           w == [counted EXCEPT !.confirmed = Confirm(e, outcome)]
           ev == Delta(e, worker[e].gen, n)
<1>1. worker[e] \in [on : BOOLEAN, confirmed : BOOLEAN, gen : 1..MaxGen, n : 0..MaxChunk]
  BY DEF StreamInv, RunTypes
<1>2. /\ worker[e].on /\ n \in 1..MaxChunk /\ n \in Nat /\ worker[e].n < n
      /\ worker[e].gen \in Nat \ {0}
  BY <1>1, RunStreamAssumption DEF PublishDelta
<1>3. worker' = [worker EXCEPT ![e] = w]
  <2>1. worker' = [worker EXCEPT ![e].n = n, ![e].confirmed = Confirm(e, outcome)]
    BY DEF PublishDelta
  <2>2. QED
    BY <2>1 DEF StreamInv, RunTypes
<1>4. /\ w \in [on : BOOLEAN, confirmed : BOOLEAN, gen : 1..MaxGen, n : 0..MaxChunk]
      /\ w.gen = worker[e].gen /\ w.n = n
  <2>1. n \in 0..MaxChunk /\ worker[e] \in WorkerType
    BY <1>1, <1>2 DEF WorkerType
  <2>2. counted \in WorkerType /\ counted.gen = worker[e].gen /\ counted.n = n
    <3> HIDE DEF n
    <3>1. QED
      BY <2>1, SetN
  <2>3. Confirm(e, outcome) \in BOOLEAN
    BY <1>1 DEF Confirm
  <2> HIDE DEF counted, n
  <2>4. QED
    BY <2>2, <2>3, SetConfirmed DEF WorkerType
<1> HIDE DEF w
<1>5. ev \in EventsOf /\ ev = [epoch |-> e, type |-> "answer.delta", gen |-> worker[e].gen,
                              n |-> n, status |-> "running"]
  BY <1>1, <1>2, EventTypesOf DEF Delta, Event
<1>6. Appended(ev)
  <2>1. Publish(WithMarker(worker[e].confirmed, ev), outcome)
    BY DEF PublishDelta
  <2> HIDE DEF ev
  <2>2. QED
    BY <2>1, <1>5, PublishEffect DEF StreamInv
<1>7. NoLater(worker[e], w)
  BY <1>1, <1>2, <1>4 DEF NoLater
<1>8. run' = run /\ notice' = notice
  BY DEF PublishDelta
<1>9. RunTypes'
  <2> HIDE DEF w, n, ev
  <2>1. worker' \in [Epochs -> [on : BOOLEAN, confirmed : BOOLEAN, gen : 1..MaxGen,
                                n : 0..MaxChunk]]
    BY <1>3, <1>4 DEF StreamInv, RunTypes
  <2>2. QED
    BY <2>1, <1>6, <1>8 DEF StreamInv, RunTypes, Appended
<1>10. ASSUME NEW i \in Len(log) + 1 .. Len(log')
       PROVE  /\ log'[i].epoch = e /\ log'[i].type # "terminal"
              /\ IsDelta(log'[i]) => /\ i = Len(log') /\ log'[i].gen # 0 /\ log'[i].n # 0
                                     /\ Earlier(worker[e], log'[i]) /\ NoLater(log'[i], w)
  <2>1. CASE log'[i] = Placed(ev, i) /\ i = Len(log')
    <3>1. /\ log'[i].epoch = e /\ log'[i].type = "answer.delta" /\ log'[i].gen = worker[e].gen
          /\ log'[i].n = n
      BY <2>1, <1>5 DEF Placed
    <3>2. QED
      BY <2>1, <3>1, <1>2, <1>4 DEF IsDelta, Earlier, NoLater
  <2>2. CASE log'[i] = Placed(Started(ev.epoch), i)
    BY <2>2, <1>5 DEF Placed, Started, Event, IsDelta
  <2>3. QED
    BY <2>1, <2>2, <1>6 DEF Appended
<1>11. QED
  <2> HIDE DEF w, n, ev
  <2>1. LogOrder' /\ LogGrows
    BY <1>6 DEF Appended
  <2>2. QED
    BY <2>1, <1>2, <1>3, <1>4, <1>7, <1>8, <1>9, <1>10, WorkerStep

LEMMA ResetAnswerStep ==
  ASSUME StreamInv, NEW e \in Epochs, NEW outcome \in Outcomes, ResetAnswer(e, outcome)
  PROVE  StreamInv' /\ LogGrows /\ RunMoves
<1> DEFINE gen == worker[e].gen + 1
           next == [worker[e] EXCEPT !.gen = gen]
           fresh == [next EXCEPT !.n = 0]
           w == [fresh EXCEPT !.confirmed = Confirm(e, outcome)]
           ev == Reset(e, gen)
<1>1. worker[e] \in [on : BOOLEAN, confirmed : BOOLEAN, gen : 1..MaxGen, n : 0..MaxChunk]
  BY DEF StreamInv, RunTypes
<1>2. worker[e].on /\ gen \in 1..MaxGen /\ gen \in Nat /\ worker[e].gen < gen
  BY <1>1, RunStreamAssumption DEF ResetAnswer, MayRegenerate
<1>3. worker' = [worker EXCEPT ![e] = w]
  <2>1. worker' = [worker EXCEPT ![e].gen = gen, ![e].n = 0,
                                 ![e].confirmed = Confirm(e, outcome)]
    BY DEF ResetAnswer
  <2>2. QED
    BY <2>1 DEF StreamInv, RunTypes
<1>4. /\ w \in [on : BOOLEAN, confirmed : BOOLEAN, gen : 1..MaxGen, n : 0..MaxChunk]
      /\ w.gen = gen
  <2>1. gen \in 1..MaxGen /\ worker[e] \in WorkerType
    BY <1>1, <1>2 DEF WorkerType
  <2>2. next \in WorkerType /\ next.gen = gen
    <3> HIDE DEF gen
    <3>1. QED
      BY <2>1, SetGen
  <2> HIDE DEF next, gen
  <2>3. fresh \in WorkerType /\ fresh.gen = gen
    BY <2>2, SetN, RunStreamAssumption
  <2>4. Confirm(e, outcome) \in BOOLEAN
    BY <1>1 DEF Confirm
  <2> HIDE DEF fresh
  <2>5. QED
    BY <2>3, <2>4, SetConfirmed DEF WorkerType
<1> HIDE DEF w
<1>5. ev \in EventsOf /\ ev = [epoch |-> e, type |-> "answer.reset", gen |-> gen,
                              n |-> 0, status |-> "running"]
  BY <1>1, <1>2, EventTypesOf DEF Reset, Event
<1>6. Appended(ev)
  <2>1. Publish(WithMarker(worker[e].confirmed, ev), outcome)
    BY DEF ResetAnswer
  <2> HIDE DEF ev
  <2>2. QED
    BY <2>1, <1>5, PublishEffect DEF StreamInv
<1>7. NoLater(worker[e], w)
  BY <1>2, <1>4 DEF NoLater
<1>8. run' = run /\ notice' = notice
  BY DEF ResetAnswer
<1>9. RunTypes'
  <2> HIDE DEF w, gen, ev
  <2>1. worker' \in [Epochs -> [on : BOOLEAN, confirmed : BOOLEAN, gen : 1..MaxGen,
                                n : 0..MaxChunk]]
    BY <1>3, <1>4 DEF StreamInv, RunTypes
  <2>2. QED
    BY <2>1, <1>6, <1>8 DEF StreamInv, RunTypes, Appended
<1>10. \A i \in Len(log) + 1 .. Len(log') :
         log'[i].epoch = e /\ log'[i].type # "terminal" /\ ~IsDelta(log'[i])
  <2>1. ASSUME NEW i \in Len(log) + 1 .. Len(log')
        PROVE  log'[i].epoch = e /\ log'[i].type # "terminal" /\ ~IsDelta(log'[i])
    <3>1. CASE log'[i] = Placed(ev, i)
      BY <3>1, <1>5 DEF Placed, IsDelta
    <3>2. CASE log'[i] = Placed(Started(ev.epoch), i)
      BY <3>2, <1>5 DEF Placed, Started, Event, IsDelta
    <3>3. QED
      BY <3>1, <3>2, <1>6 DEF Appended
  <2>2. QED
    BY <2>1
<1>11. QED
  <2> HIDE DEF w, gen, ev
  <2>1. LogOrder' /\ LogGrows
    BY <1>6 DEF Appended
  <2>2. QED
    BY <2>1, <1>2, <1>3, <1>4, <1>7, <1>8, <1>9, <1>10, WorkerStep

LEMMA RetryDirectAnswerStep ==
  ASSUME StreamInv, NEW e \in Epochs, RetryDirectAnswer(e)
  PROVE  StreamInv' /\ LogGrows /\ RunMoves
<1> DEFINE gen == worker[e].gen + 1
           next == [worker[e] EXCEPT !.gen = gen]
           w == [next EXCEPT !.n = 0]
<1>1. worker[e] \in [on : BOOLEAN, confirmed : BOOLEAN, gen : 1..MaxGen, n : 0..MaxChunk]
  BY DEF StreamInv, RunTypes
<1>2. worker[e].on /\ gen \in 1..MaxGen /\ gen \in Nat /\ worker[e].gen < gen
  BY <1>1, RunStreamAssumption DEF RetryDirectAnswer, MayRegenerate
<1>3. worker' = [worker EXCEPT ![e] = w]
  <2>1. worker' = [worker EXCEPT ![e].gen = @ + 1, ![e].n = 0]
    BY DEF RetryDirectAnswer
  <2>2. QED
    BY <2>1 DEF StreamInv, RunTypes
<1>4. /\ w \in [on : BOOLEAN, confirmed : BOOLEAN, gen : 1..MaxGen, n : 0..MaxChunk]
      /\ w.gen = gen
  <2>1. gen \in 1..MaxGen /\ worker[e] \in WorkerType
    BY <1>1, <1>2 DEF WorkerType
  <2>2. next \in WorkerType /\ next.gen = gen
    <3> HIDE DEF gen
    <3>1. QED
      BY <2>1, SetGen
  <2> HIDE DEF next, gen
  <2>3. QED
    BY <2>2, SetN, RunStreamAssumption DEF WorkerType
<1> HIDE DEF w
<1>5. NoLater(worker[e], w)
  BY <1>2, <1>4 DEF NoLater
<1>6. run' = run /\ notice' = notice /\ log' = log /\ gone' = gone /\ losses' = losses
  BY DEF RetryDirectAnswer
<1>7. LogOrder' /\ LogGrows /\ Len(log) + 1 .. Len(log') = {}
  <2>1. gone \in gone..Len(log)
    BY DEF StreamInv, RunTypes
  <2>2. QED
    BY <2>1, <1>6, SameLog
<1>8. RunTypes'
  <2> HIDE DEF w, gen
  <2>1. worker' \in [Epochs -> [on : BOOLEAN, confirmed : BOOLEAN, gen : 1..MaxGen,
                                n : 0..MaxChunk]]
    BY <1>3, <1>4 DEF StreamInv, RunTypes
  <2>2. QED
    BY <2>1, <1>6 DEF StreamInv, RunTypes
<1>9. QED
  <2> HIDE DEF w, gen
  <2>1. QED
    BY <1>2, <1>3, <1>4, <1>5, <1>6, <1>7, <1>8, WorkerStep

(* Steps that touch neither the log nor what a worker has published.       *)
LEMMA RowStep ==
  ASSUME StreamInv, log' = log, gone' \in gone..Len(log), losses' \in 0..MaxLosses,
         run' \in [status : RunStatus, epoch : 0..MaxEpoch], run'.epoch = run.epoch, RunMoves,
         run'.status = "running" => run.status = "running",
         worker' \in [Epochs -> [on : BOOLEAN, confirmed : BOOLEAN, gen : 1..MaxGen,
                                 n : 0..MaxChunk]],
         \A e \in Epochs : /\ worker'[e].on => worker[e].on
                           /\ worker'[e].gen = worker[e].gen /\ worker'[e].n = worker[e].n,
         notice' \in [epoch : 0..MaxEpoch, status : RunStatus, confirmed : BOOLEAN],
         notice' # NoNotice =>
           \/ notice' = notice
           \/ /\ notice'.epoch \in 1..run'.epoch /\ notice'.status \in Finished
              /\ run'.status \in {notice'.status, "deleted"}
  PROVE  StreamInv' /\ LogGrows /\ RunMoves
<1>1. LogOrder' /\ LogGrows /\ Len(log) + 1 .. Len(log') = {}
  BY SameLog
<1>2. RunTypes'
  <2>1. gone' \in 0..Len(log')
    BY DEF StreamInv, RunTypes
  <2>2. QED
    BY <2>1 DEF RunTypes
<1>3. LogInv'
  <2>1. \A e \in Epochs : worker'[e].on => e <= run'.epoch
    BY DEF StreamInv, LogInv
  <2>2. \A e \in Epochs : worker[e].gen \in Nat /\ worker[e].n \in Nat
    BY DEF StreamInv, RunTypes
  <2>3. \A e \in Epochs : NoLater(worker[e], worker'[e])
    BY <2>2 DEF NoLater
  <2>4. run.epoch <= run'.epoch
    BY DEF RunMoves
  <2>5. QED
    BY <2>1, <2>3, <2>4, <1>1, <1>2, LogInvKept
<1>4. EndInv'
  <2>1. run'.status = "running" => run'.epoch # 0
    BY DEF StreamInv, EndInv
  <2>2. QED
    BY <2>1, <1>1, <1>2, EndInvKept
<1>5. QED
  BY <1>1, <1>2, <1>3, <1>4 DEF StreamInv

LEMMA EndsStep ==
  ASSUME StreamInv, NEW status \in Endings, NEW confirmed \in BOOLEAN,
         run.status \in {"queued", "running"}, Ends(status, confirmed),
         log' = log, gone' = gone, losses' = losses,
         worker' \in [Epochs -> [on : BOOLEAN, confirmed : BOOLEAN, gen : 1..MaxGen,
                                 n : 0..MaxChunk]],
         \A e \in Epochs : /\ worker'[e].on => worker[e].on
                           /\ worker'[e].gen = worker[e].gen /\ worker'[e].n = worker[e].n
  PROVE  StreamInv' /\ LogGrows /\ RunMoves
<1>1. status \in Finished /\ Finished \subseteq RunStatus /\ status # "running"
  BY RunStreamAssumption DEF Finished, RunStatus
<1>2. run' = [status |-> status, epoch |-> run.epoch] /\ run.epoch \in 0..MaxEpoch
  BY DEF Ends, StreamInv, RunTypes
<1>3. RunMoves
  BY <1>2 DEF RunMoves, Finished
<1>4. /\ notice' \in [epoch : 0..MaxEpoch, status : RunStatus, confirmed : BOOLEAN]
      /\ notice' # NoNotice => /\ notice'.epoch \in 1..run'.epoch /\ notice'.status \in Finished
                               /\ run'.status \in {notice'.status, "deleted"}
  <2>1. CASE run.status = "running"
    <3>1. notice' = [epoch |-> run.epoch, status |-> status, confirmed |-> confirmed]
      BY <2>1 DEF Ends
    <3>2. run.epoch \in 1..run'.epoch
      BY <2>1, <1>2 DEF StreamInv, EndInv
    <3>3. QED
      BY <3>1, <3>2, <1>1, <1>2
  <2>2. CASE run.status # "running"
    <3>1. notice' = NoNotice
      BY <2>2 DEF Ends
    <3>2. QED
      BY <3>1, RunStreamAssumption DEF NoNotice, RunStatus
  <2>3. QED
    BY <2>1, <2>2
<1>5. gone' \in gone..Len(log) /\ losses' \in 0..MaxLosses
  BY DEF StreamInv, RunTypes
<1>6. run' \in [status : RunStatus, epoch : 0..MaxEpoch] /\ run'.epoch = run.epoch
        /\ run'.status # "running"
  BY <1>1, <1>2
<1>7. QED
  BY <1>3, <1>4, <1>5, <1>6, RowStep

LEMMA NotifyFinishedStep ==
  ASSUME StreamInv, NEW outcome \in Outcomes, NotifyFinished(outcome)
  PROVE  StreamInv' /\ LogGrows /\ RunMoves
<1> DEFINE ev == TerminalEvent(notice.epoch, notice.status)
<1>1. notice.epoch \in 1..run.epoch /\ EndsWith(notice.status)
  BY DEF NotifyFinished, StreamInv, EndInv
<1>2. /\ notice.epoch \in Epochs /\ notice.status \in RunStatus /\ notice.epoch <= run.epoch
      /\ run.epoch \in Nat
  BY <1>1 DEF StreamInv, RunTypes, Epochs
<1>3. ev \in EventsOf /\ ev.epoch = notice.epoch /\ ev.type = "terminal"
        /\ ev.status = notice.status
  BY <1>2, EventTypesOf DEF TerminalEvent, Event
<1>4. Appended(ev)
  BY <1>3, PublishEffect DEF NotifyFinished, StreamInv
<1> HIDE DEF ev
<1>5. run' = run /\ worker' = worker /\ notice' = NoNotice
  BY DEF NotifyFinished
<1>6. RunTypes'
  <2>1. NoNotice \in [epoch : 0..MaxEpoch, status : RunStatus, confirmed : BOOLEAN]
    BY RunStreamAssumption DEF NoNotice, RunStatus
  <2>2. QED
    BY <2>1, <1>4, <1>5 DEF StreamInv, RunTypes, Appended
<1>7. RunMoves
  BY <1>5, SameRun DEF StreamInv
<1>8. ASSUME NEW i \in Len(log) + 1 .. Len(log')
      PROVE  /\ log'[i].epoch <= run'.epoch /\ ~IsDelta(log'[i])
             /\ log'[i].type = "terminal" => log'[i].status = notice.status
  <2>1. CASE log'[i] = Placed(ev, i)
    BY <2>1, <1>2, <1>3, <1>5 DEF Placed, IsDelta
  <2>2. CASE log'[i] = Placed(Started(ev.epoch), i)
    BY <2>2, <1>2, <1>3, <1>5 DEF Placed, Started, Event, IsDelta
  <2>3. QED
    BY <2>1, <2>2, <1>4 DEF Appended
<1>9. LogOrder' /\ LogGrows
  BY <1>4 DEF Appended
<1>10. LogInv'
  <2>1. \A e \in Epochs : worker'[e].on => e <= run'.epoch
    BY <1>5 DEF StreamInv, LogInv
  <2>2. \A e \in Epochs : worker[e].gen \in Nat /\ worker[e].n \in Nat
    BY DEF StreamInv, RunTypes
  <2>3. \A e \in Epochs : NoLater(worker[e], worker'[e])
    BY <2>2, <1>5 DEF NoLater
  <2>4. QED
    BY <2>1, <2>3, <1>2, <1>5, <1>6, <1>8, <1>9, LogInvKept
<1>11. EndInv'
  <2>1. run'.status = "running" => run'.epoch # 0
    BY <1>5 DEF StreamInv, EndInv
  <2>2. \A i \in Len(log) + 1 .. Len(log') :
          log'[i].type = "terminal" => /\ log'[i].status \in Finished
                                       /\ run'.status \in {log'[i].status, "deleted"}
    BY <1>1, <1>5, <1>8 DEF EndsWith
  <2>3. QED
    BY <2>1, <2>2, <1>5, <1>6, <1>7, <1>9, EndInvKept
<1>12. QED
  BY <1>6, <1>7, <1>9, <1>10, <1>11 DEF StreamInv

-----------------------------------------------------------------------------
(* All steps of the run and of its publishers                              *)

LEMMA StreamInvInit ==
  ASSUME RunInit
  PROVE  StreamInv
<1>1. RunTypes /\ log = <<>>
  <2>1. Idle \in [on : BOOLEAN, confirmed : BOOLEAN, gen : 1..MaxGen, n : 0..MaxChunk]
    BY RunStreamAssumption DEF Idle
  <2>2. NoNotice \in [epoch : 0..MaxEpoch, status : RunStatus, confirmed : BOOLEAN]
    BY RunStreamAssumption DEF NoNotice, RunStatus
  <2>3. QED
    BY <2>1, <2>2, RunStreamAssumption DEF RunInit, RunTypes, RunStatus
<1>2. LogOrder
  BY <1>1, RunStreamAssumption DEF LogOrder
<1>3. LogInv
  BY <1>1 DEF RunInit, LogInv, Idle
<1>4. EndInv
  BY <1>1 DEF RunInit, EndInv
<1>5. QED
  BY <1>1, <1>2, <1>3, <1>4 DEF StreamInv

LEMMA RowNextStep ==
  ASSUME StreamInv, RowNext
  PROVE  StreamInv' /\ LogGrows /\ RunMoves
<1> USE RunStreamAssumption
<1>1. ASSUME NEW outcome \in Outcomes, BeginAttempt(outcome)
      PROVE  StreamInv' /\ LogGrows /\ RunMoves
  BY <1>1, BeginAttemptStep
<1>2. ASSUME NEW status \in Endings, FinishByWorker(status)
      PROVE  StreamInv' /\ LogGrows /\ RunMoves
  <2>1. /\ run.status = "running" /\ Ends(status, worker[run.epoch].confirmed)
        /\ worker' = [worker EXCEPT ![run.epoch].on = FALSE]
        /\ log' = log /\ gone' = gone /\ losses' = losses
    BY <1>2 DEF FinishByWorker
  <2>2. run.epoch \in Epochs
    BY <2>1 DEF StreamInv, RunTypes, EndInv, Epochs
  <2> DEFINE Worker == [on : BOOLEAN, confirmed : BOOLEAN, gen : 1..MaxGen, n : 0..MaxChunk]
  <2>a. worker \in [Epochs -> Worker]
    BY DEF StreamInv, RunTypes
  <2>3. worker[run.epoch] \in Worker
    BY <2>2, <2>a
  <2>4. /\ worker' \in [Epochs -> Worker]
        /\ \A e \in Epochs : /\ worker'[e].on => worker[e].on
                             /\ worker'[e].gen = worker[e].gen /\ worker'[e].n = worker[e].n
    <3> DEFINE halted == [worker[run.epoch] EXCEPT !.on = FALSE]
    <3>1. /\ halted \in Worker /\ halted.on = FALSE
          /\ halted.gen = worker[run.epoch].gen /\ halted.n = worker[run.epoch].n
      BY <2>3
    <3>2. worker' = [worker EXCEPT ![run.epoch] = halted]
      BY <2>1
    <3> HIDE DEF Worker, halted
    <3>3. worker'[run.epoch] = halted /\ \A e \in Epochs : e # run.epoch => worker'[e] = worker[e]
      BY <2>2, <2>a, <3>2
    <3>4. worker' \in [Epochs -> Worker]
      BY <2>2, <2>a, <3>1, <3>2
    <3>5. QED
      BY <3>1, <3>3, <3>4
  <2>5. worker[run.epoch].confirmed \in BOOLEAN
    BY <2>3
  <2>6. QED
    BY <2>1, <2>4, <2>5, EndsStep
<1>3. ASSUME NEW status \in Endings, FinishElsewhere(status)
      PROVE  StreamInv' /\ LogGrows /\ RunMoves
  <2>1. /\ run.status \in {"queued", "running"} /\ Ends(status, FALSE) /\ worker' = worker
        /\ log' = log /\ gone' = gone /\ losses' = losses
    BY <1>3 DEF FinishElsewhere
  <2>2. worker \in [Epochs -> [on : BOOLEAN, confirmed : BOOLEAN, gen : 1..MaxGen,
                               n : 0..MaxChunk]]
    BY DEF StreamInv, RunTypes
  <2>3. \A e \in Epochs : /\ worker'[e].on => worker[e].on
                          /\ worker'[e].gen = worker[e].gen /\ worker'[e].n = worker[e].n
    BY <2>1
  <2>4. worker' \in [Epochs -> [on : BOOLEAN, confirmed : BOOLEAN, gen : 1..MaxGen,
                                n : 0..MaxChunk]]
    BY <2>1, <2>2
  <2>5. QED
    BY <2>1, <2>3, <2>4, EndsStep, Zenon
<1>4. ASSUME DeleteThread
      PROVE  StreamInv' /\ LogGrows /\ RunMoves
  <2>1. /\ run' = [status |-> "deleted", epoch |-> run.epoch] /\ run.epoch \in 0..MaxEpoch
        /\ losses' \in 0..MaxLosses
        /\ worker' = worker /\ notice' = notice /\ log' = log /\ gone' = gone
    BY <1>4 DEF DeleteThread, StreamInv, RunTypes
  <2>2. RunMoves
    BY <2>1 DEF RunMoves
  <2>3. run' \in [status : RunStatus, epoch : 0..MaxEpoch] /\ run'.status # "running"
    BY <2>1 DEF RunStatus
  <2>4. /\ gone' \in gone..Len(log)
        /\ worker' \in [Epochs -> [on : BOOLEAN, confirmed : BOOLEAN, gen : 1..MaxGen,
                                   n : 0..MaxChunk]]
        /\ notice' \in [epoch : 0..MaxEpoch, status : RunStatus, confirmed : BOOLEAN]
    BY <2>1 DEF StreamInv, RunTypes
  <2>5. QED
    BY <2>1, <2>2, <2>3, <2>4, RowStep
<1>5. QED
  BY <1>1, <1>2, <1>3, <1>4 DEF RowNext

LEMMA StreamNextStep ==
  ASSUME StreamInv, StreamNext
  PROVE  StreamInv' /\ LogGrows /\ RunMoves
<1> USE RunStreamAssumption
<1>1. ASSUME NEW e \in Epochs, NEW outcome \in Outcomes, Work(e, outcome)
      PROVE  StreamInv' /\ LogGrows /\ RunMoves
  BY <1>1, PublishDeltaStep, ResetAnswerStep DEF Work
<1>2. ASSUME NEW e \in Epochs, RetryDirectAnswer(e)
      PROVE  StreamInv' /\ LogGrows /\ RunMoves
  BY <1>2, RetryDirectAnswerStep
<1>3. ASSUME NEW outcome \in Outcomes, NotifyFinished(outcome)
      PROVE  StreamInv' /\ LogGrows /\ RunMoves
  BY <1>3, NotifyFinishedStep
<1>4. ASSUME NoticeLost \/ LoseStream
      PROVE  StreamInv' /\ LogGrows /\ RunMoves
  <2>1. /\ run' = run /\ worker' = worker /\ log' = log /\ losses' \in 0..MaxLosses
        /\ notice' \in {notice, NoNotice} /\ gone' \in gone..Len(log)
    BY <1>4 DEF NoticeLost, LoseStream, StreamInv, RunTypes, LogOrder
  <2>2. RunMoves
    BY <2>1, SameRun DEF StreamInv
  <2>3. /\ run' \in [status : RunStatus, epoch : 0..MaxEpoch]
        /\ worker' \in [Epochs -> [on : BOOLEAN, confirmed : BOOLEAN, gen : 1..MaxGen,
                                   n : 0..MaxChunk]]
    BY <2>1 DEF StreamInv, RunTypes
  <2>4. notice' \in [epoch : 0..MaxEpoch, status : RunStatus, confirmed : BOOLEAN]
    <3>1. NoNotice \in [epoch : 0..MaxEpoch, status : RunStatus, confirmed : BOOLEAN]
      BY DEF NoNotice, RunStatus
    <3>2. QED
      BY <2>1, <3>1 DEF StreamInv, RunTypes
  <2>5. QED
    BY <2>1, <2>2, <2>3, <2>4, RowStep
<1>5. QED
  BY <1>1, <1>2, <1>3, <1>4 DEF StreamNext
=============================================================================
