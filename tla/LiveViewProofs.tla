--------------------------- MODULE LiveViewProofs ---------------------------
(***************************************************************************)
(* Proofs about LiveView, for every bound of the model: types, the draft   *)
(* is one answer and whole, the endpoint skips nothing, and the end that   *)
(* is shown is the run's.                                                  *)
(***************************************************************************)
EXTENDS LiveView, RunStreamProofs

-----------------------------------------------------------------------------
(* The inductive invariant                                                 *)

Polls  == [status : RunStatus \cup {"none", "waiting", "asked"}, epoch : 0..MaxEpoch]
Pages  == [mode : Modes, hidden : BOOLEAN, poll : Polls]
Conns  == [kind : Kinds, epoch : 0..MaxEpoch, cursor : 0..MaxId, oldest : 0..MaxId]
States == [epoch : 0..MaxEpoch, gen : 0..MaxGen, draft : Seq(Chunks), suppressed : BOOLEAN,
           last : 0..MaxId, terminal : Finished \cup {"none"}]

PageType ==
  /\ conn \in Conns /\ source \in {"none", "connecting", "open"} /\ lastEventId \in 0..MaxId
  /\ page \in Pages /\ shown \in States /\ upsets \in 0..MaxUpsets

(* The modes of the controller, its EventSource and the connection; polls  *)
(* and ends tell what the row has said.                                    *)
PageInv ==
  /\ page.mode \in {"polling-only", "finalizing", "terminal", "stopped"} => source = "none"
  /\ page.poll # NoAnswer => page.mode = "polling-only"
  /\ shown.terminal # "none" => page.mode \in {"finalizing", "terminal"}
  /\ source = "none" => conn.kind = "none"
  /\ source # "open" => wire = {} /\ conn.kind \in {"none", "preflight"}
  /\ page.poll.status \in RunStatus => page.poll.epoch <= run.epoch
  /\ page.poll.status \in Finished => EndsWith(page.poll.status)
  /\ shown.terminal # "none" => EndsWith(shown.terminal)

(* What is under way is logged, of one attempt that is no older than the   *)
(* one shown, and before the endpoint's cursor.                            *)
WireInv ==
  /\ wire \subseteq Logged /\ Cardinality(wire) <= PageSize
  /\ conn.cursor <= Len(log) /\ lastEventId <= shown.last /\ shown.last <= Len(log)
  /\ shown.epoch <= run.epoch
  /\ conn.kind \in {"preflight", "following"} => shown.epoch <= conn.epoch
  /\ conn.kind = "queued" => wire = {} /\ conn.epoch = 0
  /\ conn.oldest <= conn.cursor
  /\ \A x \in wire : /\ shown.epoch <= x.epoch
                     /\ conn.kind # "none" => x.id <= conn.cursor /\ x.epoch = conn.epoch
  /\ \A x, y \in wire : x.epoch = y.epoch

Sent(i) == i <= shown.last \/ log[i] \in wire
SkipInv ==
  conn.kind # "none" =>
    \A i \in gone + 1 .. conn.cursor : log[i].epoch >= conn.epoch => Sent(i)

(* Without an excuse, nothing of the attempt is left out behind the first  *)
(* entry the page has been sent.                                           *)
Behind(i) == shown.last # 0 \/ \E y \in wire : y.id < i
ResumeInv ==
  excused = {} =>
    /\ shown.terminal = "none" => lastEventId = shown.last
    /\ conn.kind # "none" => shown.last <= conn.cursor
    /\ \A x \in wire : shown.last < x.id
    /\ \A x \in wire, i \in 1..MaxId :
         shown.last < i /\ i < x.id /\ log[i].epoch = x.epoch /\ Behind(i) => log[i] \in wire
    /\ conn.kind # "none" =>
         \A i \in 1..conn.cursor :
           shown.last < i /\ log[i].epoch >= conn.epoch /\ Behind(i) => log[i] \in wire

(* The draft is made of stored chunks of what is shown, in their order,    *)
(* and without an excuse of all of them from its first one on.             *)
ChunkOf(x) == [epoch |-> x.epoch, gen |-> x.gen, n |-> x.n]
IsText(i, c) == IsDelta(log[i]) /\ log[i].epoch = c.epoch /\ log[i].gen = c.gen
DraftInv ==
  /\ shown.suppressed => shown.draft = <<>>
  /\ \A k \in 1..Len(shown.draft) :
       /\ shown.draft[k].epoch = shown.epoch /\ shown.draft[k].gen = shown.gen
       /\ \E i \in 1..shown.last : IsText(i, shown) /\ log[i].n = shown.draft[k].n
  /\ \A k, m \in 1..Len(shown.draft) : k < m => shown.draft[k].n < shown.draft[m].n
DraftWhole ==
  excused = {} =>
    \A i \in 1..shown.last :
      IsText(i, shown) /\ shown.draft # <<>> /\ shown.draft[1].n <= log[i].n
        => \E k \in 1..Len(shown.draft) : shown.draft[k].n = log[i].n

IInv == /\ StreamInv /\ PageType /\ PageInv /\ WireInv /\ SkipInv /\ ResumeInv
        /\ DraftInv /\ DraftWhole

-----------------------------------------------------------------------------
(* Steps of the run and of its publishers                                  *)

LEMMA StepOfTheRun ==
  ASSUME IInv, StreamInv', LogGrows, RunMoves, UNCHANGED pageVars
  PROVE  IInv'
<1> USE RunStreamAssumption
<1>1. /\ Len(log) \in Nat /\ Len(log') \in Nat /\ Len(log) <= Len(log') /\ Len(log) <= MaxId
      /\ MaxId \in Nat /\ gone \in Nat /\ gone' \in Nat /\ gone <= gone'
      /\ \A i \in 1..Len(log) : log'[i] = log[i]
  BY DEF IInv, StreamInv, RunTypes, LogOrder, LogGrows
<1>2. /\ conn' = conn /\ wire' = wire /\ source' = source /\ lastEventId' = lastEventId
      /\ page' = page /\ shown' = shown /\ upsets' = upsets /\ excused' = excused
  BY DEF pageVars
<1>3. /\ conn.cursor \in Nat /\ shown.last \in Nat /\ shown.epoch \in Nat
      /\ conn.cursor <= Len(log) /\ shown.last <= Len(log)
      /\ run.epoch \in Nat /\ run'.epoch \in Nat /\ run.epoch <= run'.epoch
      /\ page.poll.epoch \in Nat
  BY DEF IInv, PageType, Conns, States, Pages, Polls, WireInv, StreamInv, RunTypes, RunMoves
<1>4. PageType'
  BY <1>2 DEF IInv, PageType
<1>5. PageInv'
  BY <1>2, <1>3 DEF IInv, PageInv, RunMoves, EndsWith
<1>6. wire \subseteq Logged' /\ \A x \in wire : x.id \in 1..Len(log) /\ log[x.id] = x
  <2>1. ASSUME NEW x \in wire
        PROVE  x \in Logged' /\ x.id \in 1..Len(log) /\ log[x.id] = x
    <3>1. x.id \in 1..Len(log) /\ log[x.id] = x
      BY LoggedOrdered DEF IInv, WireInv, StreamInv
    <3>2. log'[x.id] = x /\ x.id \in 1..Len(log')
      BY <3>1, <1>1
    <3>3. QED
      BY <3>1, <3>2 DEF Logged
  <2>2. QED
    BY <2>1
<1>7. WireInv'
  BY <1>1, <1>2, <1>3, <1>6 DEF IInv, WireInv
<1>8. SkipInv'
  <2>1. SUFFICES ASSUME conn.kind # "none", NEW i \in gone' + 1 .. conn.cursor,
                        log'[i].epoch >= conn.epoch
                 PROVE  Sent(i)'
    BY <1>2 DEF SkipInv, Sent
  <2>2. i \in gone + 1 .. conn.cursor /\ i \in 1..Len(log)
    <3>1. \A c, h, k, n \in Nat : h <= k /\ c <= n => k + 1 .. c \subseteq (h + 1 .. c) \cap (1..n)
      OBVIOUS
    <3>2. gone' + 1 .. conn.cursor \subseteq (gone + 1 .. conn.cursor) \cap (1..Len(log))
      BY <3>1, <1>1, <1>3
    <3>3. QED
      BY <3>2
  <2>3. log'[i] = log[i]
    BY <2>2, <1>1
  <2>4. QED
    BY <2>1, <2>2, <2>3, <1>2 DEF IInv, SkipInv, Sent
<1>9. ResumeInv'
  <2>1. SUFFICES ASSUME excused = {} PROVE ResumeInv'
    BY <1>2 DEF ResumeInv
  <2>2. ASSUME NEW x \in wire, NEW i \in 1..MaxId, shown.last < i, i < x.id,
               log'[i].epoch = x.epoch, Behind(i)
        PROVE  log'[i] \in wire
    <3>1. log'[i] = log[i]
      BY <2>2, <1>1, <1>6
    <3>2. QED
      BY <2>1, <2>2, <3>1 DEF IInv, ResumeInv
  <2>3. ASSUME conn.kind # "none", NEW i \in 1..conn.cursor, shown.last < i,
               log'[i].epoch >= conn.epoch, Behind(i)
        PROVE  log'[i] \in wire
    <3>1. log'[i] = log[i]
      BY <1>1, <1>3
    <3>2. QED
      BY <2>1, <2>3, <3>1 DEF IInv, ResumeInv
  <2>4. \A i : Behind(i)' <=> Behind(i)
    BY <1>2 DEF Behind
  <2>5. QED
    BY <2>1, <2>2, <2>3, <2>4, <1>2 DEF IInv, ResumeInv
<1>10. \A c : \A i \in 1..shown.last : log'[i] = log[i] /\ (IsText(i, c)' <=> IsText(i, c))
  BY <1>1, <1>3 DEF IsText, IsDelta
<1>11. DraftInv'
  BY <1>2, <1>10 DEF IInv, DraftInv
<1>12. DraftWhole'
  BY <1>2, <1>10 DEF IInv, DraftWhole
<1>13. QED
  BY <1>4, <1>5, <1>7, <1>8, <1>9, <1>11, <1>12 DEF IInv
-----------------------------------------------------------------------------
(* Records after one of their fields is set                                *)

WithMode(q, v)       == [q EXCEPT !.mode = v]
WithHidden(q, v)     == [q EXCEPT !.hidden = v]
WithPoll(q, v)       == [q EXCEPT !.poll = v]
WithLast(q, v)       == [q EXCEPT !.last = v]
WithEpoch(q, v)      == [q EXCEPT !.epoch = v]
WithGen(q, v)        == [q EXCEPT !.gen = v]
WithDraft(q, v)      == [q EXCEPT !.draft = v]
WithSuppressed(q, v) == [q EXCEPT !.suppressed = v]
WithTerminal(q, v)   == [q EXCEPT !.terminal = v]

LEMMA SetMode ==
  ASSUME NEW q \in Pages, NEW v \in Modes
  PROVE  LET r == WithMode(q, v)
         IN r \in Pages /\ r.mode = v /\ r.hidden = q.hidden /\ r.poll = q.poll
BY DEF Pages, WithMode

LEMMA SetHidden ==
  ASSUME NEW q \in Pages, NEW v \in BOOLEAN
  PROVE  LET r == WithHidden(q, v)
         IN r \in Pages /\ r.mode = q.mode /\ r.hidden = v /\ r.poll = q.poll
BY DEF Pages, WithHidden

LEMMA SetPoll ==
  ASSUME NEW q \in Pages, NEW v \in Polls
  PROVE  LET r == WithPoll(q, v)
         IN r \in Pages /\ r.mode = q.mode /\ r.hidden = q.hidden /\ r.poll = v
BY DEF Pages, WithPoll

LEMMA SetLast ==
  ASSUME NEW q \in States, NEW v \in 0..MaxId
  PROVE  LET r == WithLast(q, v)
         IN /\ r \in States /\ r.last = v /\ r.epoch = q.epoch /\ r.gen = q.gen
            /\ r.draft = q.draft /\ r.suppressed = q.suppressed /\ r.terminal = q.terminal
BY DEF States, WithLast

LEMMA SetEpoch ==
  ASSUME NEW q \in States, NEW v \in 0..MaxEpoch
  PROVE  LET r == WithEpoch(q, v)
         IN /\ r \in States /\ r.last = q.last /\ r.epoch = v /\ r.gen = q.gen
            /\ r.draft = q.draft /\ r.suppressed = q.suppressed /\ r.terminal = q.terminal
BY DEF States, WithEpoch

LEMMA SetShownGen ==
  ASSUME NEW q \in States, NEW v \in 0..MaxGen
  PROVE  LET r == WithGen(q, v)
         IN /\ r \in States /\ r.last = q.last /\ r.epoch = q.epoch /\ r.gen = v
            /\ r.draft = q.draft /\ r.suppressed = q.suppressed /\ r.terminal = q.terminal
BY DEF States, WithGen

LEMMA SetDraft ==
  ASSUME NEW q \in States, NEW v \in Seq(Chunks)
  PROVE  LET r == WithDraft(q, v)
         IN /\ r \in States /\ r.last = q.last /\ r.epoch = q.epoch /\ r.gen = q.gen
            /\ r.draft = v /\ r.suppressed = q.suppressed /\ r.terminal = q.terminal
BY DEF States, WithDraft

LEMMA SetSuppressed ==
  ASSUME NEW q \in States, NEW v \in BOOLEAN
  PROVE  LET r == WithSuppressed(q, v)
         IN /\ r \in States /\ r.last = q.last /\ r.epoch = q.epoch /\ r.gen = q.gen
            /\ r.draft = q.draft /\ r.suppressed = v /\ r.terminal = q.terminal
BY DEF States, WithSuppressed

LEMMA SetTerminal ==
  ASSUME NEW q \in States, NEW v \in Finished \cup {"none"}
  PROVE  LET r == WithTerminal(q, v)
         IN /\ r \in States /\ r.last = q.last /\ r.epoch = q.epoch /\ r.gen = q.gen
            /\ r.draft = q.draft /\ r.suppressed = q.suppressed /\ r.terminal = v
BY DEF States, WithTerminal

LEMMA SetGenAndDraft ==
  ASSUME NEW q \in States, NEW g \in 0..MaxGen, NEW v \in Seq(Chunks)
  PROVE  LET r == WithDraft(WithGen(q, g), v)
         IN /\ r \in States /\ r.last = q.last /\ r.epoch = q.epoch /\ r.gen = g
            /\ r.draft = v /\ r.suppressed = q.suppressed /\ r.terminal = q.terminal
<1> DEFINE next == WithGen(q, g)
<1>1. /\ next \in States /\ next.last = q.last /\ next.epoch = q.epoch /\ next.gen = g
      /\ next.suppressed = q.suppressed /\ next.terminal = q.terminal
  BY SetShownGen
<1> HIDE DEF next
<1>2. QED
  BY <1>1, SetDraft DEF next

LEMMA SuppressEffect ==
  ASSUME NEW q \in States, NEW r, r = Suppress(q)
  PROVE  /\ r \in States /\ r.last = q.last /\ r.epoch = q.epoch /\ r.gen = q.gen
         /\ r.draft = <<>> /\ r.terminal = q.terminal
<1> DEFINE cut == WithDraft(q, <<>>)
<1>1. r = WithSuppressed(cut, TRUE)
  BY DEF Suppress, WithSuppressed, WithDraft
<1>2. /\ cut \in States /\ cut.last = q.last /\ cut.epoch = q.epoch /\ cut.gen = q.gen
      /\ cut.draft = <<>> /\ cut.terminal = q.terminal
  <2>1. <<>> \in Seq(Chunks)
    OBVIOUS
  <2>2. QED
    BY <2>1, SetDraft
<1> HIDE DEF cut
<1>3. /\ WithSuppressed(cut, TRUE) \in States
      /\ WithSuppressed(cut, TRUE).last = cut.last
      /\ WithSuppressed(cut, TRUE).epoch = cut.epoch
      /\ WithSuppressed(cut, TRUE).gen = cut.gen
      /\ WithSuppressed(cut, TRUE).draft = cut.draft
      /\ WithSuppressed(cut, TRUE).terminal = cut.terminal
  BY <1>2, SetSuppressed
<1>4. QED
  BY <1>1, <1>2, <1>3

LEMMA ResetEffect ==
  ASSUME NEW q \in States, NEW e \in 0..MaxEpoch, NEW r, r = ResetForAttempt(q, e)
  PROVE  /\ r \in States /\ r.last = q.last /\ r.epoch = e /\ r.gen = 0 /\ r.draft = <<>>
         /\ r.terminal = "none"
<1>1. /\ NothingShown \in States /\ NothingShown.gen = 0 /\ NothingShown.draft = <<>>
      /\ NothingShown.terminal = "none"
  BY RunStreamAssumption DEF NothingShown, States
<1>2. q.last \in 0..MaxId
  BY DEF States
<1>3. r = WithLast(WithEpoch(NothingShown, e), q.last)
  BY DEF ResetForAttempt, WithLast, WithEpoch
<1>4. QED
  BY <1>1, <1>2, <1>3, SetEpoch, SetLast

-----------------------------------------------------------------------------
(* What the reducer does with an event of the attempt shown or a newer one *)

Fields(q, r) ==
  r.last = q.last /\ r.epoch = q.epoch /\ r.terminal = q.terminal /\ q.gen <= r.gen

Folded(q, r, x) ==
  \/ r.draft = <<>>
  \/ /\ IsDelta(x) /\ r.gen = x.gen
     /\ \/ r.draft = <<ChunkOf(x)>>
        \/ r.draft = q.draft \o <<ChunkOf(x)>> /\ q.gen = x.gen /\ q.epoch = x.epoch
  \/ r.draft = q.draft /\ r.gen = q.gen /\ q.epoch = x.epoch /\ ~ (IsDelta(x) /\ x.gen = q.gen)

(* A suppressed draft is empty.                                            *)
Silent(q) == q.suppressed => q.draft = <<>>

LEMMA DeltaEffect ==
  ASSUME NEW q \in States, Silent(q),
         NEW x \in Entries, IsDelta(x), x.gen # 0, x.n # 0, x.epoch = q.epoch,
         NEW r, r = ApplyDelta(q, x)
  PROVE  r \in States /\ Fields(q, r) /\ Silent(r) /\ Folded(q, r, x)
<1>1. /\ ChunkOf(x) \in Chunks /\ x.gen \in 0..MaxGen /\ q.gen \in 0..MaxGen
      /\ q.draft \in Seq(Chunks) /\ x.gen \in Nat /\ q.gen \in Nat
  BY RunStreamAssumption DEF ChunkOf, Chunks, Entries, States
<1>2. CASE x.gen < q.gen
  <2>1. r = q /\ x.gen # q.gen
    BY <1>1, <1>2 DEF ApplyDelta
  <2>2. Folded(q, r, x)
    BY <2>1 DEF Folded
  <2>3. QED
    BY <1>1, <2>1, <2>2 DEF Fields
<1>3. CASE ~ (x.gen < q.gen) /\ q.suppressed
  <2>1. r = WithGen(q, x.gen)
    BY <1>3 DEF ApplyDelta, WithGen
  <2>2. /\ r \in States /\ r.last = q.last /\ r.epoch = q.epoch /\ r.draft = q.draft
        /\ r.terminal = q.terminal /\ r.gen = x.gen
    BY <1>1, <2>1, SetShownGen
  <2>3. r.draft = <<>>
    BY <1>3, <2>2 DEF Silent
  <2>4. q.gen <= r.gen
    BY <1>1, <1>3, <2>2
  <2>5. QED
    BY <2>2, <2>3, <2>4 DEF Fields, Folded, Silent
<1>4. CASE ~ (x.gen < q.gen) /\ ~q.suppressed
  <2> DEFINE kept == IF x.gen = q.gen THEN q.draft ELSE <<>>
             draft == kept \o <<ChunkOf(x)>>
  <2>1. r = WithDraft(WithGen(q, x.gen), draft)
    BY <1>4 DEF ApplyDelta, ChunkOf, WithDraft, WithGen
  <2>2. kept \in Seq(Chunks) /\ <<ChunkOf(x)>> \in Seq(Chunks) /\ draft \in Seq(Chunks)
    BY <1>1
  <2>3. x.gen # q.gen => draft = <<ChunkOf(x)>>
    BY <1>1
  <2>4. x.gen = q.gen => draft = q.draft \o <<ChunkOf(x)>>
    OBVIOUS
  <2> HIDE DEF draft
  <2>5. /\ r \in States /\ r.last = q.last /\ r.epoch = q.epoch /\ r.gen = x.gen
        /\ r.draft = draft /\ r.terminal = q.terminal /\ r.suppressed = q.suppressed
    BY <1>1, <2>1, <2>2, SetGenAndDraft
  <2>6. Folded(q, r, x)
    BY <2>3, <2>4, <2>5 DEF Folded
  <2>7. Fields(q, r) /\ Silent(r)
    <3>1. q.gen <= r.gen
      BY <1>1, <1>4, <2>5
    <3>2. QED
      BY <1>4, <2>5, <3>1 DEF Fields, Silent
  <2>8. QED
    BY <2>5, <2>6, <2>7
<1>5. QED
  BY <1>2, <1>3, <1>4

LEMMA AnswerResetEffect ==
  ASSUME NEW q \in States, NEW x \in Entries, ~IsDelta(x), x.epoch = q.epoch,
         Silent(q), NEW r, r = ApplyReset(q, x)
  PROVE  r \in States /\ Fields(q, r) /\ Silent(r) /\ Folded(q, r, x)
<1>1. /\ x.gen \in 0..MaxGen /\ <<>> \in Seq(Chunks)
      /\ x.gen \in Nat /\ q.gen \in Nat
  BY RunStreamAssumption DEF Entries, States
<1>2. CASE x.gen <= q.gen
  <2>1. r = q
    BY <1>2 DEF ApplyReset
  <2>2. Folded(q, r, x)
    BY <2>1 DEF Folded
  <2>3. QED
    BY <1>1, <2>1, <2>2 DEF Fields
<1>3. CASE ~ (x.gen <= q.gen)
  <2> DEFINE next == WithGen(q, x.gen)
  <2>1. r = WithDraft(next, <<>>)
    BY <1>3 DEF ApplyReset, WithDraft, WithGen
  <2>2. /\ next \in States /\ next.last = q.last /\ next.epoch = q.epoch
        /\ next.terminal = q.terminal /\ next.gen = x.gen
    BY <1>1, SetShownGen
  <2> HIDE DEF next
  <2> DEFINE set == WithDraft(next, <<>>)
  <2>3. /\ set \in States /\ set.last = next.last /\ set.epoch = next.epoch
        /\ set.draft = <<>> /\ set.terminal = next.terminal /\ set.gen = next.gen
    BY <1>1, <2>2, SetDraft
  <2>4. r = set
    BY <2>1
  <2> HIDE DEF set
  <2>5. q.gen <= r.gen
    BY <1>1, <1>3, <2>2, <2>3, <2>4
  <2>6. QED
    BY <2>2, <2>3, <2>4, <2>5 DEF Fields, Folded, Silent
<1>4. QED
  BY <1>2, <1>3

(* An end other than a completed answer takes the draft away.              *)
EndedBy(q, status) ==
  [(IF status = "completed" THEN q ELSE Suppress(q)) EXCEPT !.terminal = status]

LEMMA ConcludeEffect ==
  ASSUME NEW q \in States, NEW status \in Finished, NEW r, r = EndedBy(q, status)
  PROVE  /\ r \in States /\ r.last = q.last /\ r.epoch = q.epoch /\ r.gen = q.gen
         /\ r.terminal = status
         /\ r.draft = <<>> \/ (r.draft = q.draft /\ r.suppressed = q.suppressed)
<1>0. status \in Finished \cup {"none"}
  OBVIOUS
<1>1. CASE status = "completed"
  <2>1. r = WithTerminal(q, status)
    BY <1>1 DEF WithTerminal, EndedBy
  <2> DEFINE set == WithTerminal(q, status)
  <2>2. /\ set \in States /\ set.last = q.last /\ set.epoch = q.epoch /\ set.gen = q.gen
        /\ set.draft = q.draft /\ set.suppressed = q.suppressed /\ set.terminal = status
    BY <1>0, SetTerminal
  <2> HIDE DEF set
  <2>3. r = set
    BY <2>1 DEF set
  <2>4. QED
    BY <2>2, <2>3
<1>2. CASE status # "completed"
  <2> DEFINE cut == Suppress(q)
  <2>1. /\ cut \in States /\ cut.last = q.last /\ cut.epoch = q.epoch /\ cut.gen = q.gen
        /\ cut.draft = <<>>
    BY SuppressEffect
  <2>2. r = WithTerminal(cut, status)
    BY <1>2 DEF WithTerminal, EndedBy
  <2> HIDE DEF cut
  <2> DEFINE set == WithTerminal(cut, status)
  <2>3. /\ set \in States /\ set.last = cut.last /\ set.epoch = cut.epoch /\ set.gen = cut.gen
        /\ set.draft = cut.draft /\ set.terminal = status
    BY <1>0, <2>1, SetTerminal
  <2>4. r = set
    BY <2>2
  <2> HIDE DEF set
  <2>5. QED
    BY <2>1, <2>3, <2>4
<1>3. QED
  BY <1>1, <1>2

LEMMA ReduceEffect ==
  ASSUME NEW q \in States, Silent(q), q.terminal = "none",
         NEW x \in Entries, IsDelta(x) => x.gen # 0 /\ x.n # 0,
         x.type = "terminal" => x.status \in Finished, q.epoch <= x.epoch,
         NEW r, r = Reduce(q, x)
  PROVE  \/ x.id <= q.last /\ r = q
         \/ /\ q.last < x.id /\ r \in States /\ r.last = x.id /\ r.epoch = x.epoch /\ Silent(r)
            /\ r.terminal = IF x.type = "terminal" THEN x.status ELSE "none"
            /\ Folded(q, r, x)
            /\ x.epoch = q.epoch => q.gen <= r.gen
<1>1. /\ x.id \in 0..MaxId /\ x.epoch \in 0..MaxEpoch /\ q.last \in Nat /\ x.id \in Nat
      /\ q.epoch \in Nat /\ x.epoch \in Nat /\ MaxId \in Nat
      /\ x.type \in EventTypes
  BY RunStreamAssumption DEF Entries, Epochs, States
<1>2. CASE x.id <= q.last
  BY <1>2 DEF Reduce, AlreadyProcessed
<1>3. CASE q.last < x.id
  <2> DEFINE seen == WithLast(q, x.id)
             current == IF x.epoch > q.epoch THEN ResetForAttempt(seen, x.epoch) ELSE seen
  <2>1. /\ seen \in States /\ seen.last = x.id /\ seen.epoch = q.epoch /\ seen.gen = q.gen
        /\ seen.draft = q.draft /\ seen.suppressed = q.suppressed /\ seen.terminal = q.terminal
    BY <1>1, SetLast
  <2>2. r = CASE x.type = "attempt.started" -> current
              [] x.type = "answer.delta"    -> ApplyDelta(current, x)
              [] x.type = "answer.reset"    -> ApplyReset(current, x)
              [] x.type = "terminal"        -> AcceptTerminal(current, x)
    <3>1. ~ (x.id <= q.last) /\ ~ (x.epoch < q.epoch)
      BY <1>1, <1>3
    <3>2. QED
      BY <3>1, Zenon DEF Reduce, AlreadyProcessed, WithLast
  <2> HIDE DEF seen
  <2>3. PICK c : c = current
    OBVIOUS
  <2>4. /\ c \in States /\ c.last = x.id /\ c.epoch = x.epoch
        /\ c.terminal = "none" /\ Silent(c)
        /\ c.draft = <<>> \/ (c.draft = q.draft /\ c.gen = q.gen /\ q.epoch = x.epoch)
        /\ c.gen \in Nat /\ (x.epoch = q.epoch => c.gen = q.gen)
    <3>1. CASE x.epoch > q.epoch
      <4>1. c = ResetForAttempt(seen, x.epoch)
        BY <2>3, <3>1
      <4>2. /\ c \in States /\ c.last = seen.last /\ c.epoch = x.epoch /\ c.draft = <<>>
            /\ c.terminal = "none"
        BY <4>1, <2>1, <1>1, ResetEffect
      <4>3. x.epoch # q.epoch /\ c.gen \in Nat
        BY <3>1, <4>2, <1>1, RunStreamAssumption DEF States
      <4>4. QED
        BY <4>2, <4>3, <2>1 DEF Silent
    <3>2. CASE ~ (x.epoch > q.epoch)
      <4>1. c = seen /\ q.epoch = x.epoch
        BY <2>3, <3>2, <1>1
      <4>2. c.gen \in Nat
        BY <4>1, <2>1, RunStreamAssumption DEF States
      <4>3. QED
        BY <4>1, <4>2, <2>1 DEF Silent
    <3>3. QED
      BY <3>1, <3>2
  <2>5. r = CASE x.type = "attempt.started" -> c
              [] x.type = "answer.delta"    -> ApplyDelta(c, x)
              [] x.type = "answer.reset"    -> ApplyReset(c, x)
              [] x.type = "terminal"        -> AcceptTerminal(c, x)
    BY <2>2, <2>3
  <2> HIDE DEF current
  <2>6. ASSUME NEW s, Folded(c, s, x)
        PROVE  Folded(q, s, x)
    <3>1. CASE c.draft = q.draft /\ c.gen = q.gen /\ q.epoch = x.epoch
      BY <3>1, <2>6 DEF Folded
    <3>2. CASE c.draft = <<>>
      <4>1. <<>> \o <<ChunkOf(x)>> = <<ChunkOf(x)>>
        OBVIOUS
      <4>2. QED
        BY <3>2, <4>1, <2>6 DEF Folded
    <3>3. QED
      BY <2>4, <3>1, <3>2
  <2>7. ASSUME r \in States, Fields(c, r), Silent(r), Folded(c, r, x), x.type # "terminal"
        PROVE  /\ r \in States /\ r.last = x.id /\ r.epoch = x.epoch /\ Silent(r)
               /\ r.terminal = IF x.type = "terminal" THEN x.status ELSE "none"
               /\ Folded(q, r, x)
               /\ x.epoch = q.epoch => q.gen <= r.gen
    BY <2>4, <2>6, <2>7 DEF Fields
  <2>8. CASE x.type = "attempt.started"
    <3>1. r = c /\ ~IsDelta(x)
      BY <2>5, <2>8 DEF IsDelta
    <3>2. Folded(c, r, x)
      BY <3>1, <2>4 DEF Folded
    <3>3. r \in States /\ Fields(c, r) /\ Silent(r)
      BY <3>1, <2>4 DEF Fields
    <3>4. QED
      BY <1>3, <2>7, <2>8, <3>2, <3>3
  <2>9. CASE x.type = "answer.delta"
    <3>1. r = ApplyDelta(c, x) /\ IsDelta(x)
      BY <2>5, <2>9 DEF IsDelta
    <3>2. r \in States /\ Fields(c, r) /\ Silent(r) /\ Folded(c, r, x)
      BY <3>1, <2>4, DeltaEffect
    <3>3. QED
      BY <1>3, <2>7, <2>9, <3>2
  <2>10. CASE x.type = "answer.reset"
    <3>1. r = ApplyReset(c, x) /\ ~IsDelta(x)
      BY <2>5, <2>10 DEF IsDelta
    <3>2. r \in States /\ Fields(c, r) /\ Silent(r) /\ Folded(c, r, x)
      BY <3>1, <2>4, AnswerResetEffect
    <3>3. QED
      BY <1>3, <2>7, <2>10, <3>2
  <2>11. CASE x.type = "terminal"
    <3>1. r = AcceptTerminal(c, x) /\ ~IsDelta(x)
      BY <2>5, <2>11 DEF IsDelta
    <3>2. /\ r \in States /\ r.last = c.last /\ r.epoch = c.epoch /\ r.gen = c.gen
          /\ r.terminal = x.status
          /\ r.draft = <<>> \/ (r.draft = c.draft /\ r.suppressed = c.suppressed)
      <4>1. r = EndedBy(c, x.status)
        BY <3>1 DEF AcceptTerminal, EndedBy
      <4>2. c \in States /\ x.status \in Finished
        BY <2>4, <2>11
      <4>3. QED
        BY <4>1, <4>2, ConcludeEffect
    <3>3. Folded(c, r, x)
      BY <3>1, <3>2, <2>4 DEF Folded
    <3>4. Silent(r)
      BY <3>2, <2>4 DEF Silent
    <3>5. x.epoch = q.epoch => q.gen <= r.gen
      BY <2>4, <3>2
    <3>6. QED
      BY <1>3, <2>4, <2>6, <2>11, <3>2, <3>3, <3>4, <3>5
  <2>12. QED
    BY <1>1, <2>8, <2>9, <2>10, <2>11 DEF EventTypes
<1>4. QED
  BY <1>1, <1>2, <1>3

-----------------------------------------------------------------------------
(* The draft                                                               *)

LEMMA TextOrder ==
  ASSUME StreamInv, NEW i \in 1..Len(log), NEW j \in 1..Len(log), i < j,
         IsDelta(log[i]), IsDelta(log[j]), log[i].epoch = log[j].epoch, log[i].gen = log[j].gen
  PROVE  log[i].n < log[j].n
<1>1. Earlier(log[i], log[j])
  BY DEF StreamInv, LogInv
<1>2. log[i].gen \in Nat /\ log[j].gen \in Nat
  <2>1. log[i] \in Entries /\ log[j] \in Entries
    BY DEF StreamInv, LogOrder
  <2>2. QED
    BY <2>1, RunStreamAssumption DEF Entries
<1>3. QED
  BY <1>1, <1>2 DEF Earlier

(* The draft stays as it was, or goes.                                     *)
LEMMA DraftKept ==
  ASSUME IInv, log' = log, excused \subseteq excused', Silent(shown'),
         \/ shown'.draft = <<>>
         \/ /\ shown'.draft = shown.draft /\ shown'.epoch = shown.epoch
            /\ shown'.gen = shown.gen /\ shown'.last = shown.last
  PROVE  DraftInv' /\ DraftWhole'
<1>1. CASE shown'.draft = <<>>
  BY <1>1 DEF DraftInv, DraftWhole
<1>2. CASE /\ shown'.draft = shown.draft /\ shown'.epoch = shown.epoch
           /\ shown'.gen = shown.gen /\ shown'.last = shown.last
  <2>1. \A i : IsText(i, shown)' <=> IsText(i, shown)
    BY <1>2 DEF IsText
  <2>2. DraftInv'
    BY <1>2, <2>1 DEF IInv, DraftInv, Silent
  <2>3. excused' = {} => excused = {}
    OBVIOUS
  <2>4. DraftWhole'
    BY <1>2, <2>1, <2>3 DEF IInv, DraftWhole
  <2>5. QED
    BY <2>2, <2>4
<1>3. QED
  BY <1>1, <1>2

LEMMA OneMore ==
  ASSUME NEW d \in Seq(Chunks), NEW c \in Chunks
  PROVE  /\ Len(d) \in Nat /\ Len(d \o <<c>>) = Len(d) + 1 /\ (d \o <<c>>)[Len(d) + 1] = c
         /\ \A k \in 1..Len(d) : (d \o <<c>>)[k] = d[k]
  OBVIOUS

(* What has been passed over of the attempt of the next frame was there    *)
(* before the page saw anything.                                           *)
LEMMA NothingBetween ==
  ASSUME IInv, excused = {}, wire # {}, NEW x, x = First(wire),
         NEW i \in 1..MaxId, shown.last < i, i < x.id, log[i].epoch = x.epoch
  PROVE  shown.last = 0 /\ shown.draft = <<>>
<1>1. Ordered(Logged) /\ Ordered(wire) /\ \A y \in Logged : y.id \in 1..Len(log) /\ log[y.id] = y
  BY LoggedOrdered, OrderedIds, RunStreamAssumption DEF IInv, WireInv, StreamInv
<1>2. x \in wire /\ \A y \in wire : x.id <= y.id
  BY <1>1, FirstIsLeast, RunStreamAssumption
<1>3. ~Behind(i)
  <2>1. SUFFICES ASSUME Behind(i) PROVE FALSE
    OBVIOUS
  <2>2. log[i] \in wire
    BY <1>2, <2>1 DEF IInv, ResumeInv
  <2>3. x.id <= log[i].id
    BY <1>2, <2>2
  <2>4. log[i].id = i
    <3>1. x.id \in 1..Len(log) /\ Len(log) \in Nat
      BY <1>1, <1>2 DEF IInv, WireInv, StreamInv, LogOrder
    <3>2. i \in 1..Len(log)
      BY <3>1
    <3>3. QED
      BY <3>2 DEF IInv, StreamInv, LogOrder
  <2>5. x.id \in Nat
    BY <1>1, <1>2 DEF IInv, WireInv
  <2>6. QED
    BY <2>3, <2>4, <2>5
<1>4. shown.last = 0
  BY <1>3 DEF Behind
<1>5. shown.draft = <<>>
  <2>1. shown.draft \in Seq(Chunks)
    BY DEF IInv, PageType, States
  <2>2. 1..Len(shown.draft) = {}
    BY <1>4 DEF IInv, DraftInv
  <2>3. Len(shown.draft) \in Nat
    BY <2>1, LenProperties
  <2>4. Len(shown.draft) = 0
    <3>1. \A n \in Nat : 1..n = {} => n = 0
      OBVIOUS
    <3>2. QED
      BY <2>2, <2>3, <3>1
  <2>5. QED
    BY <2>1, <2>4, EmptySeq
<1>6. QED
  BY <1>4, <1>5

LEMMA DraftFolded ==
  ASSUME IInv, log' = log, excused' = excused, wire # {}, NEW x, x = First(wire),
         shown.last < x.id, shown' \in States, shown'.last = x.id, shown'.epoch = x.epoch,
         Silent(shown'), Folded(shown, shown', x)
  PROVE  DraftInv' /\ DraftWhole'
<1> DEFINE c == ChunkOf(x)
<1>1. /\ x \in wire /\ x \in Logged /\ x.id \in 1..Len(log) /\ log[x.id] = x /\ x \in Entries
      /\ Len(log) \in Nat /\ Len(log) <= MaxId /\ MaxId \in Nat
  <2>1. Ordered(wire) /\ \A y \in wire : y \in Logged /\ y.id \in 1..Len(log) /\ log[y.id] = y
    BY LoggedOrdered, OrderedIds, RunStreamAssumption DEF IInv, WireInv, StreamInv
  <2>2. x \in wire
    BY <2>1, FirstIsLeast, RunStreamAssumption
  <2>3. Len(log) \in Nat /\ Len(log) <= MaxId /\ MaxId \in Nat
    BY RunStreamAssumption DEF IInv, StreamInv, LogOrder
  <2>4. \A i \in 1..Len(log) : log[i] \in Entries
    BY DEF IInv, StreamInv, LogOrder
  <2>5. QED
    BY <2>1, <2>2, <2>3, <2>4
<1>2. /\ shown.draft \in Seq(Chunks) /\ Len(shown.draft) \in Nat /\ shown.last \in Nat
      /\ shown.epoch \in Nat /\ shown.gen \in Nat
  BY DEF IInv, PageType, States
<1>3. /\ IsDelta(x) => c \in Chunks
      /\ c.epoch = x.epoch /\ c.gen = x.gen /\ c.n = x.n /\ x.n \in Nat /\ x.gen \in Nat
  <2>1. IsDelta(x) => x.gen # 0 /\ x.n # 0
    BY <1>1 DEF IInv, StreamInv, LogInv
  <2>2. /\ x.epoch \in Epochs /\ x.gen \in 0..MaxGen /\ x.n \in 0..MaxChunk
    BY <1>1 DEF Entries
  <2>3. c.epoch = x.epoch /\ c.gen = x.gen /\ c.n = x.n
    BY DEF ChunkOf
  <2>4. IsDelta(x) => x.gen \in 1..MaxGen /\ x.n \in 1..MaxChunk
    BY <2>1, <2>2, RunStreamAssumption
  <2>5. IsDelta(x) => c \in Chunks
    BY <2>2, <2>4 DEF Chunks, ChunkOf
  <2>6. QED
    BY <2>2, <2>3, <2>5, RunStreamAssumption
<1> HIDE DEF c
<1>4. \A i : IsText(i, shown)' <=> IsDelta(log[i]) /\ log[i].epoch = x.epoch /\ log[i].gen = shown'.gen
  BY DEF IsText
<1>5. CASE shown'.draft = <<>>
  BY <1>5 DEF DraftInv, DraftWhole
<1>6. CASE IsDelta(x) /\ shown'.gen = x.gen /\ shown'.draft = <<c>>
  <2>1. Len(shown'.draft) = 1 /\ shown'.draft[1] = c
    BY <1>6
  <2>2. IsText(x.id, shown)' /\ log'[x.id].n = c.n
    BY <1>1, <1>3, <1>4, <1>6
  <2>3. DraftInv'
    <3>1. x.id \in 1..x.id
      BY <1>1
    <3>2. \A k \in 1..1 : k = 1
      OBVIOUS
    <3>3. QED
      BY <1>3, <1>6, <2>1, <2>2, <3>1, <3>2 DEF DraftInv, Silent
  <2>4. ASSUME NEW i \in 1..x.id, IsText(i, shown)', c.n <= log[i].n
        PROVE  log[i].n = c.n
    <3>1. CASE i = x.id
      BY <3>1, <2>2
    <3>2. CASE i < x.id
      <4>1. i \in 1..Len(log)
        BY <1>1
      <4>2. log[i].n < x.n
        BY <4>1, <3>2, <2>4, <1>1, <1>4, <1>6, TextOrder DEF IInv
      <4>3. log[i].n \in Nat
        <5>1. log[i] \in Entries
          BY <4>1 DEF IInv, StreamInv, LogOrder
        <5>2. QED
          BY <5>1 DEF Entries
      <4>4. QED
        BY <4>2, <4>3, <2>4, <1>3
    <3>3. QED
      BY <3>1, <3>2, <1>1
  <2>5. DraftWhole'
    BY <2>1, <2>4 DEF DraftWhole
  <2>6. QED
    BY <2>3, <2>5
<1>7. CASE /\ IsDelta(x) /\ shown'.gen = x.gen /\ shown'.draft = shown.draft \o <<c>>
           /\ shown.gen = x.gen /\ shown.epoch = x.epoch /\ shown.draft # <<>>
  <2> DEFINE L == Len(shown.draft)
  <2>1. /\ Len(shown'.draft) = L + 1 /\ shown'.draft[L + 1] = c /\ L \in Nat /\ L # 0
        /\ \A k \in 1..L : shown'.draft[k] = shown.draft[k]
    BY <1>2, <1>3, <1>7, OneMore
  <2>2. IsText(x.id, shown)' /\ log'[x.id].n = c.n
    BY <1>1, <1>3, <1>4, <1>7
  <2>3. \A i : IsText(i, shown)' <=> IsText(i, shown)
    BY <1>7 DEF IsText
  <2>4. ASSUME NEW k \in 1..L
        PROVE  \E i \in 1..shown.last : IsText(i, shown) /\ log[i].n = shown.draft[k].n
    BY DEF IInv, DraftInv
  <2>5. ASSUME NEW k \in 1..L PROVE shown.draft[k].n < c.n
    <3>1. PICK i \in 1..shown.last : IsText(i, shown) /\ log[i].n = shown.draft[k].n
      BY <2>4
    <3>2. i \in 1..Len(log) /\ i < x.id
      BY <1>1, <1>2
    <3>3. log[i].n < x.n
      BY <3>1, <3>2, <1>1, <1>7, TextOrder DEF IInv, IsText
    <3>4. QED
      BY <3>1, <3>3, <1>3
  <2> HIDE DEF L
  <2>6. DraftInv'
    <3>1. ASSUME NEW k \in 1..L + 1
          PROVE  /\ shown'.draft[k].epoch = shown'.epoch /\ shown'.draft[k].gen = shown'.gen
                 /\ \E i \in 1..x.id : IsText(i, shown)' /\ log[i].n = shown'.draft[k].n
      <4>1. CASE k = L + 1
        <5>1. x.id \in 1..x.id
          BY <1>1
        <5>2. QED
          BY <4>1, <5>1, <2>1, <2>2, <1>3, <1>7
      <4>2. CASE k \in 1..L
        <5>1. PICK i \in 1..shown.last : IsText(i, shown) /\ log[i].n = shown.draft[k].n
          BY <2>4, <4>2
        <5>2. i \in 1..x.id
          BY <1>1, <1>2
        <5>3. shown.draft[k].epoch = shown.epoch /\ shown.draft[k].gen = shown.gen
          BY <4>2 DEF IInv, DraftInv, L
        <5>4. QED
          BY <4>2, <5>1, <5>2, <5>3, <2>1, <2>3, <1>7
      <4>3. QED
        BY <4>1, <4>2, <2>1
    <3>2. ASSUME NEW k \in 1..L + 1, NEW m \in 1..L + 1, k < m
          PROVE  shown'.draft[k].n < shown'.draft[m].n
      <4>1. k \in 1..L
        BY <3>2, <2>1
      <4>2. CASE m = L + 1
        BY <4>1, <4>2, <2>1, <2>5
      <4>3. CASE m \in 1..L
        BY <3>2, <4>1, <4>3, <2>1 DEF IInv, DraftInv, L
      <4>4. QED
        BY <4>2, <4>3, <2>1
    <3>3. shown'.suppressed => shown'.draft = <<>>
      BY DEF Silent
    <3>4. QED
      BY <3>1, <3>2, <3>3, <2>1 DEF DraftInv
  <2>7. ASSUME excused = {}, NEW i \in 1..x.id, IsText(i, shown)', shown.draft[1].n <= log[i].n
        PROVE  \E k \in 1..L + 1 : shown'.draft[k].n = log[i].n
    <3>1. CASE i = x.id
      <4>1. L + 1 \in 1..L + 1
        BY <2>1
      <4>2. QED
        BY <3>1, <4>1, <2>1, <2>2
    <3>2. CASE i \in 1..shown.last
      <4>1. PICK k \in 1..L : shown.draft[k].n = log[i].n
        BY <3>2, <2>3, <2>7, <1>7 DEF IInv, DraftWhole, L
      <4>2. k \in 1..L + 1
        BY <2>1
      <4>3. QED
        BY <4>1, <4>2, <2>1
    <3>3. CASE shown.last < i /\ i < x.id
      <4>1. i \in 1..MaxId /\ log[i].epoch = x.epoch
        BY <1>1, <2>7, <1>4
      <4>2. QED
        BY <4>1, <3>3, <2>7, <1>7, NothingBetween
    <3>4. QED
      BY <3>1, <3>2, <3>3, <1>1, <1>2
  <2>8. DraftWhole'
    <3>1. shown'.draft[1] = shown.draft[1]
      BY <2>1
    <3>2. QED
      BY <2>1, <2>7, <3>1 DEF DraftWhole
  <2>9. QED
    BY <2>6, <2>8
<1>8. CASE /\ shown'.draft = shown.draft /\ shown'.gen = shown.gen /\ shown.epoch = x.epoch
           /\ ~ (IsDelta(x) /\ x.gen = shown.gen) /\ shown.draft # <<>>
  <2>1. \A i : IsText(i, shown)' <=> IsText(i, shown)
    BY <1>8 DEF IsText
  <2>2. DraftInv'
    <3>1. \A i \in 1..shown.last : i \in 1..x.id
      BY <1>1, <1>2
    <3>2. QED
      BY <3>1, <2>1, <1>8 DEF IInv, DraftInv, Silent
  <2>3. ASSUME excused = {}, NEW i \in 1..x.id, IsText(i, shown)', shown.draft[1].n <= log[i].n
        PROVE  \E k \in 1..Len(shown.draft) : shown.draft[k].n = log[i].n
    <3>1. CASE i = x.id
      BY <3>1, <2>3, <1>1, <1>4, <1>8
    <3>2. CASE i \in 1..shown.last
      BY <3>2, <2>1, <2>3, <1>8 DEF IInv, DraftWhole
    <3>3. CASE shown.last < i /\ i < x.id
      <4>1. i \in 1..MaxId /\ log[i].epoch = x.epoch
        BY <1>1, <2>3, <1>4
      <4>2. QED
        BY <4>1, <3>3, <2>3, <1>8, NothingBetween
    <3>4. QED
      BY <3>1, <3>2, <3>3, <1>1, <1>2
  <2>4. DraftWhole'
    BY <1>8, <2>3 DEF DraftWhole
  <2>5. QED
    BY <2>2, <2>4
<1>9. QED
  <2>1. shown.draft = <<>> => shown.draft \o <<c>> = <<c>>
    OBVIOUS
  <2>2. QED
    BY <2>1, <1>5, <1>6, <1>7, <1>8 DEF Folded, c

-----------------------------------------------------------------------------
(* The connection                                                          *)

ConnParts == WireInv /\ SkipInv /\ ResumeInv

LEMMA StreamSame ==
  ASSUME IInv, UNCHANGED streamVars
  PROVE  /\ StreamInv' /\ log' = log /\ gone' = gone /\ run' = run /\ Logged' = Logged
         /\ Len(log) \in Nat /\ Len(log) <= MaxId /\ MaxId \in Nat /\ gone \in Nat
         /\ run.epoch \in Nat /\ shown.last \in Nat /\ shown.epoch \in Nat
         /\ conn.cursor \in Nat /\ conn.epoch \in Nat /\ conn.oldest \in Nat
<1>1. /\ run' = run /\ worker' = worker /\ notice' = notice /\ log' = log /\ gone' = gone
      /\ losses' = losses
  BY DEF streamVars
<1>2. StreamInv'
  BY <1>1 DEF IInv, StreamInv, RunTypes, LogOrder, LogInv, EndInv, EndsWith
<1>3. Logged' = Logged
  BY <1>1 DEF Logged
<1>4. /\ Len(log) \in Nat /\ Len(log) <= MaxId /\ MaxId \in Nat /\ gone \in Nat
      /\ run.epoch \in Nat
  BY RunStreamAssumption DEF IInv, StreamInv, RunTypes, LogOrder
<1>5. /\ shown.last \in Nat /\ shown.epoch \in Nat
      /\ conn.cursor \in Nat /\ conn.epoch \in Nat /\ conn.oldest \in Nat
  BY DEF IInv, PageType, Conns, States
<1>6. QED
  BY <1>1, <1>2, <1>3, <1>4, <1>5

(* It is closed, and what was under way is gone with it.                   *)
LEMMA ConnGone ==
  ASSUME IInv, UNCHANGED streamVars, wire' = {},
         conn'.kind = "none", conn'.cursor <= Len(log), conn'.oldest <= conn'.cursor,
         lastEventId' <= shown'.last, shown'.last <= Len(log), shown'.epoch <= run.epoch,
         excused' = {} /\ shown'.terminal = "none" => lastEventId' = shown'.last
  PROVE  ConnParts'
<1>1. StreamInv' /\ log' = log /\ gone' = gone /\ run' = run
  BY StreamSame
<1>2. Cardinality({}) <= PageSize
  BY FS_EmptySet, PageAssumption
<1>3. WireInv'
  BY <1>1, <1>2 DEF WireInv
<1>4. SkipInv'
  BY DEF SkipInv
<1>5. ResumeInv'
  BY DEF ResumeInv
<1>6. QED
  BY <1>3, <1>4, <1>5 DEF ConnParts

(* It goes on as it was, or is closed behind the frames it has sent.       *)
LEMMA ConnKept ==
  ASSUME IInv, UNCHANGED streamVars, wire' = wire, lastEventId' = lastEventId,
         conn'.kind \in {conn.kind, "none"}, conn'.oldest <= conn'.cursor,
         \/ conn'.cursor = conn.cursor /\ conn'.epoch = conn.epoch
         \/ conn'.kind = "none" /\ conn'.cursor = 0,
         shown'.last = shown.last, shown'.epoch = shown.epoch,
         shown'.terminal = "none" => shown.terminal = "none", excused \subseteq excused'
  PROVE  ConnParts'
<1>1. /\ StreamInv' /\ log' = log /\ gone' = gone /\ run' = run /\ Logged' = Logged
      /\ Len(log) \in Nat
  BY StreamSame
<1>2. WireInv'
  BY <1>1 DEF IInv, WireInv
<1>3. SkipInv'
  BY <1>1 DEF IInv, SkipInv, Sent
<1>4. ResumeInv'
  <2>1. \A i : Behind(i)' <=> Behind(i)
    BY DEF Behind
  <2>2. CASE excused' = {}
    <3>1. excused = {}
      BY <2>2
    <3>2. QED
      BY <1>1, <2>1, <3>1 DEF IInv, ResumeInv
  <2>3. CASE excused' # {}
    BY <2>3 DEF ResumeInv
  <2>4. QED
    BY <2>2, <2>3
<1>5. QED
  BY <1>2, <1>3, <1>4 DEF ConnParts

(* What a read tells of the entries behind the cursor.                     *)
PageFacts(r) ==
  /\ r.cursor \in conn.cursor..Len(log)
  /\ r.events \subseteq Logged /\ Cardinality(r.events) <= PageSize
  /\ \A x \in r.events : /\ x.epoch = conn.epoch /\ x.id \in conn.cursor + 1 .. r.cursor
                         /\ x.id > gone
  /\ Follows(r, conn.epoch) \in conn.epoch..MaxEpoch
  /\ r.events # {} => Follows(r, conn.epoch) = conn.epoch
  /\ \A i \in gone + 1 .. Len(log) :
       conn.cursor < i /\ i <= r.cursor /\ log[i].epoch >= Follows(r, conn.epoch)
         => log[i] \in r.events

LEMMA ReadFacts ==
  ASSUME IInv, NEW r, r = PageAfter(conn.cursor, conn.epoch), r # StreamMissing
  PROVE  /\ PageFacts(r) /\ r.status \in {"empty", "events", "attempt_advanced", "attempt_absent"}
         /\ r.status # "events" => r.events = {}
<1>1. LogOrder /\ gone \in 0..Len(log) /\ conn.epoch \in 0..MaxEpoch /\ conn.cursor \in 0..Len(log)
  BY DEF IInv, StreamInv, RunTypes, PageType, Conns, WireInv
<1>2. Len(log) \in Nat /\ conn.cursor \in Nat /\ conn.epoch \in Nat /\ MaxEpoch \in Nat
        /\ conn.epoch <= MaxEpoch
  BY <1>1, RunStreamAssumption DEF LogOrder
<1>3. CASE r = Empty(conn.cursor)
  <2>1. r.status = "empty" /\ r.events = {} /\ r.cursor = conn.cursor
    BY <1>3 DEF Empty, Read
  <2>2. Cardinality({}) <= PageSize
    BY FS_EmptySet, PageAssumption
  <2>3. Follows(r, conn.epoch) = conn.epoch
    BY <2>1 DEF Follows
  <2>4. r.cursor \in conn.cursor..Len(log)
    BY <1>1, <2>1
  <2>5. \A i \in gone + 1 .. Len(log) : ~ (conn.cursor < i /\ i <= r.cursor)
    BY <1>1, <1>2, <2>1
  <2>6. PageFacts(r)
    BY <2>1, <2>2, <2>3, <2>4, <2>5, <1>2 DEF PageFacts
  <2>7. QED
    BY <2>1, <2>6
<1>4. CASE r # Empty(conn.cursor)
  <2>1. /\ r.status \in {"events", "attempt_advanced", "attempt_absent"}
        /\ r.cursor \in conn.cursor..Len(log)
        /\ r.events \subseteq Logged /\ Cardinality(r.events) <= PageSize
        /\ r.status = "events" <=> r.events # {}
        /\ \A x \in r.events : /\ x.epoch = conn.epoch /\ x.id \in conn.cursor + 1 .. r.cursor
                               /\ x.id > gone
        /\ r.status = "attempt_advanced" => r.epoch > conn.epoch /\ r.epoch \in Epochs
        /\ \A i \in gone + 1 .. Len(log) :
             conn.cursor < i /\ i <= r.cursor /\ log[i].epoch >= Follows(r, conn.epoch)
               => log[i] \in r.events
    BY <1>1, <1>4, PageIsWhole
  <2>2. /\ Follows(r, conn.epoch) \in conn.epoch..MaxEpoch
        /\ r.events # {} => Follows(r, conn.epoch) = conn.epoch
    BY <1>2, <2>1 DEF Follows, Epochs
  <2>3. PageFacts(r)
    BY <2>1, <2>2 DEF PageFacts
  <2>4. QED
    BY <2>1, <2>3
<1>5. QED
  BY <1>3, <1>4

(* What a connection may do before it reads, and what excuses a read.      *)
ReadStep ==
  /\ conn.kind \in {"preflight", "following"} /\ wire = {}
  /\ conn.cursor = NoCursor \/ conn.oldest # 0
  /\ UNCHANGED streamVars /\ shown' = shown /\ lastEventId' = lastEventId
  /\ excused' = IF conn.oldest \in 1..conn.cursor /\ conn.cursor < gone
                THEN excused \cup {"overtaken"} ELSE excused

LEMMA ReadResumes ==
  ASSUME IInv, ReadStep, excused' = {}, NEW r, PageFacts(r), wire' \subseteq r.events,
         NEW i \in 1..MaxId, shown.last < i, i <= r.cursor,
         log[i].epoch >= Follows(r, conn.epoch), Behind(i)'
  PROVE  log[i] \in r.events /\ log[i].id = i
<1>1. /\ StreamInv' /\ log' = log /\ gone' = gone /\ run' = run
      /\ Len(log) \in Nat /\ gone \in Nat /\ shown.last \in Nat
      /\ conn.cursor \in Nat /\ conn.epoch \in Nat /\ conn.oldest \in Nat
  BY StreamSame DEF ReadStep
<1>2. i \in 1..Len(log)
  BY <1>1 DEF PageFacts
<1>3. log[i].id = i /\ log[i].epoch \in Nat
  <2>1. log[i] \in Entries /\ log[i].id = i
    BY <1>2 DEF IInv, StreamInv, LogOrder
  <2>2. QED
    BY <2>1, RunStreamAssumption DEF Entries, Epochs
<1>4. excused = {} /\ ~ (conn.oldest \in 1..conn.cursor /\ conn.cursor < gone)
  BY DEF ReadStep
<1>5. shown.last # 0 \/ \E y \in wire' : y.id < i /\ conn.cursor < y.id /\ gone < y.id /\ y.id \in Nat
  <2>1. shown.last # 0 \/ \E y \in wire' : y.id < i
    BY DEF Behind, ReadStep
  <2>2. ASSUME NEW y \in wire' PROVE conn.cursor < y.id /\ gone < y.id /\ y.id \in Nat
    <3>1. y.id \in conn.cursor + 1 .. r.cursor /\ y.id > gone
      BY DEF PageFacts
    <3>2. QED
      BY <3>1, <1>1
  <2>3. QED
    BY <2>1, <2>2
<1>6. i > conn.cursor
  <2>1. SUFFICES ASSUME i <= conn.cursor PROVE FALSE
    BY <1>1
  <2>2. shown.last # 0
    BY <2>1, <1>1, <1>5
  <2>3. log[i].epoch >= conn.epoch
    <3>1. Follows(r, conn.epoch) \in conn.epoch..MaxEpoch
      BY DEF PageFacts
    <3>2. QED
      BY <3>1, <1>1, <1>3, RunStreamAssumption
  <2>4. i \in 1..conn.cursor
    BY <2>1, <1>1
  <2>5. log[i] \in wire
    BY <2>2, <2>3, <2>4, <1>4 DEF IInv, ResumeInv, Behind, ReadStep
  <2>6. QED
    BY <2>5 DEF ReadStep
<1>7. i > gone
  <2>1. CASE conn.cursor = 0
    <3>1. shown.last <= conn.cursor
      BY <1>4 DEF IInv, ResumeInv, ReadStep
    <3>2. QED
      BY <2>1, <3>1, <1>1, <1>5
  <2>2. CASE conn.cursor # 0
    <3>1. conn.oldest # 0 /\ conn.oldest <= conn.cursor
      BY <2>2 DEF ReadStep, NoCursor, IInv, WireInv
    <3>2. QED
      BY <3>1, <1>1, <1>4, <1>6
  <2>3. QED
    BY <2>1, <2>2
<1>8. i \in gone + 1 .. Len(log)
  BY <1>1, <1>2, <1>7
<1>9. QED
  BY <1>3, <1>6, <1>8 DEF PageFacts

(* The connection goes on behind the page it has read.                     *)
LEMMA ConnReads ==
  ASSUME IInv, ReadStep, NEW r, PageFacts(r), wire' = r.events,
         conn'.kind \in {"preflight", "following"}, conn'.cursor = r.cursor,
         conn'.oldest = 0, conn'.epoch = Follows(r, conn.epoch)
  PROVE  ConnParts'
<1>1. /\ StreamInv' /\ log' = log /\ gone' = gone /\ run' = run /\ Logged' = Logged
      /\ Len(log) \in Nat /\ gone \in Nat /\ shown.last \in Nat /\ shown.epoch \in Nat
      /\ Len(log) <= MaxId /\ MaxId \in Nat
      /\ conn.cursor \in Nat /\ conn.epoch \in Nat /\ conn.oldest \in Nat
  BY StreamSame DEF ReadStep
<1>2. /\ r.cursor \in Nat /\ conn.cursor <= r.cursor /\ r.cursor <= Len(log)
      /\ conn'.epoch \in Nat /\ conn.epoch <= conn'.epoch
      /\ \A x \in r.events : x.epoch = conn.epoch /\ x.epoch = conn'.epoch /\ x.id <= r.cursor
                             /\ conn.cursor < x.id /\ x.id \in Nat
  <2>1. r.cursor \in conn.cursor..Len(log) /\ conn'.epoch \in conn.epoch..MaxEpoch
    BY DEF PageFacts
  <2>2. MaxEpoch \in Nat
    BY RunStreamAssumption
  <2>3. \A x \in r.events : /\ x.epoch = conn.epoch /\ x.epoch = conn'.epoch
                            /\ x.id \in conn.cursor + 1 .. r.cursor
    BY DEF PageFacts
  <2>4. r.cursor \in Nat
    BY <2>1, <1>1
  <2>5. QED
    BY <2>1, <2>2, <2>3, <2>4, <1>1
<1>3. shown.epoch <= conn.epoch /\ shown.epoch <= run.epoch /\ lastEventId <= shown.last
        /\ shown.last <= Len(log)
  BY DEF IInv, WireInv, ReadStep
<1>4. WireInv'
  <2>1. r.events \subseteq Logged /\ Cardinality(r.events) <= PageSize
    BY DEF PageFacts
  <2>2. shown' = shown /\ lastEventId' = lastEventId /\ wire' = r.events
    BY DEF ReadStep
  <2>3. shown.epoch <= conn'.epoch
    BY <1>1, <1>2, <1>3
  <2>4. QED
    BY <2>1, <2>2, <2>3, <1>1, <1>2, <1>3 DEF WireInv
<1>5. SkipInv'
  <2>1. ASSUME NEW i \in gone + 1 .. r.cursor, log[i].epoch >= conn'.epoch
        PROVE  i <= shown.last \/ log[i] \in r.events
    <3>1. i \in 1..Len(log) /\ i \in gone + 1 .. Len(log)
      BY <1>1, <1>2
    <3>2. log[i].epoch \in Nat
      <4>1. log[i] \in Entries
        BY <3>1 DEF IInv, StreamInv, LogOrder
      <4>2. QED
        BY <4>1, RunStreamAssumption DEF Entries, Epochs
    <3>3. CASE i <= conn.cursor
      <4>1. i \in gone + 1 .. conn.cursor
        BY <3>3, <1>1, <3>1
      <4>2. log[i].epoch >= conn.epoch
        BY <2>1, <3>2, <1>1, <1>2
      <4>3. Sent(i)
        BY <4>1, <4>2 DEF IInv, SkipInv, ReadStep
      <4>4. QED
        BY <4>3 DEF Sent, ReadStep
    <3>4. CASE i > conn.cursor
      BY <2>1, <3>1, <3>4, <1>2 DEF PageFacts
    <3>5. QED
      BY <3>3, <3>4, <1>1
  <2>2. shown' = shown /\ wire' = r.events
    BY DEF ReadStep
  <2>3. QED
    BY <2>1, <2>2, <1>1 DEF SkipInv, Sent
<1>6. ResumeInv'
  <2>1. SUFFICES ASSUME excused' = {} PROVE ResumeInv'
    BY DEF ResumeInv
  <2>2. /\ shown' = shown /\ lastEventId' = lastEventId /\ wire' = r.events
        /\ excused = {}
    BY <2>1 DEF ReadStep
  <2>3. /\ shown.terminal = "none" => lastEventId = shown.last
        /\ shown.last <= conn.cursor
    BY <2>2 DEF IInv, ResumeInv, ReadStep
  <2>4. shown.last <= r.cursor /\ \A x \in r.events : shown.last < x.id
    BY <2>3, <1>1, <1>2
  <2>5. ASSUME NEW x \in r.events, NEW i \in 1..MaxId, shown.last < i, i < x.id,
               log[i].epoch = x.epoch, Behind(i)'
        PROVE  log[i] \in r.events
    <3>1. i <= r.cursor /\ log[i].epoch >= Follows(r, conn.epoch)
      BY <2>5, <1>1, <1>2
    <3>2. QED
      BY <3>1, <2>1, <2>5, ReadResumes
  <2>6. ASSUME NEW i \in 1..r.cursor, shown.last < i, log[i].epoch >= conn'.epoch, Behind(i)'
        PROVE  log[i] \in r.events
    <3>1. i \in 1..MaxId /\ i <= r.cursor
      BY <1>1, <1>2
    <3>2. QED
      BY <3>1, <2>1, <2>6, ReadResumes
  <2>7. QED
    BY <2>2, <2>3, <2>4, <2>5, <2>6, <1>1 DEF ResumeInv
<1>7. QED
  BY <1>4, <1>5, <1>6 DEF ConnParts

(* A page that ends with a terminal event closes the connection.           *)
LEMMA ConnEnds ==
  ASSUME IInv, ReadStep, NEW r, PageFacts(r), wire' = UpToTerminal(r.events), conn' = NoConn
  PROVE  ConnParts'
<1>1. /\ StreamInv' /\ log' = log /\ gone' = gone /\ run' = run /\ Logged' = Logged
      /\ Len(log) \in Nat /\ gone \in Nat /\ shown.last \in Nat /\ shown.epoch \in Nat
      /\ Len(log) <= MaxId /\ MaxId \in Nat
      /\ conn.cursor \in Nat /\ conn.epoch \in Nat /\ conn.oldest \in Nat
  BY StreamSame DEF ReadStep
<1>2. wire' \subseteq r.events /\ r.events \subseteq Logged
  BY DEF UpToTerminal, PageFacts
<1>3. Cardinality(wire') <= PageSize
  <2>1. IsFiniteSet(r.events)
    <3>1. Ordered(r.events)
      BY <1>2, LoggedOrdered, OrderedIds, RunStreamAssumption DEF IInv, StreamInv
    <3>2. QED
      BY <3>1, OrderedIsFinite, RunStreamAssumption
  <2>2. IsFiniteSet(wire') /\ Cardinality(wire') <= Cardinality(r.events)
    BY <2>1, <1>2, FS_Subset
  <2>3. Cardinality(r.events) <= PageSize /\ PageSize \in Nat
    BY PageAssumption DEF PageFacts
  <2>4. Cardinality(wire') \in Nat /\ Cardinality(r.events) \in Nat
    BY <2>1, <2>2, FS_CardinalityType
  <2>5. QED
    BY <2>2, <2>3, <2>4
<1>4. conn'.kind = "none" /\ conn'.cursor = 0 /\ conn'.oldest = 0
  BY DEF NoConn
<1>5. \A x \in wire' : /\ x.epoch = conn.epoch /\ x.id \in Nat /\ x.id <= r.cursor
                       /\ conn.cursor < x.id
  <2>1. r.cursor \in conn.cursor..Len(log)
    BY DEF PageFacts
  <2>2. \A x \in wire' : x.epoch = conn.epoch /\ x.id \in conn.cursor + 1 .. r.cursor
    BY <1>2 DEF PageFacts
  <2>3. r.cursor \in Nat
    BY <2>1, <1>1
  <2>4. QED
    BY <2>2, <2>3, <1>1
<1>6. shown.epoch <= conn.epoch /\ shown.epoch <= run.epoch /\ lastEventId <= shown.last
        /\ shown.last <= Len(log)
  BY DEF IInv, WireInv, ReadStep
<1>7. WireInv'
  BY <1>1, <1>2, <1>3, <1>4, <1>5, <1>6 DEF WireInv, ReadStep
<1>8. SkipInv'
  BY <1>4 DEF SkipInv
<1>9. ResumeInv'
  <2>1. SUFFICES ASSUME excused' = {} PROVE ResumeInv'
    BY DEF ResumeInv
  <2>2. shown' = shown /\ lastEventId' = lastEventId /\ excused = {}
    BY <2>1 DEF ReadStep
  <2>3. /\ shown.terminal = "none" => lastEventId = shown.last
        /\ shown.last <= conn.cursor
    BY <2>2 DEF IInv, ResumeInv, ReadStep
  <2>4. \A x \in wire' : shown.last < x.id
    BY <2>3, <1>1, <1>5
  <2>5. ASSUME NEW x \in wire', NEW i \in 1..MaxId, shown.last < i, i < x.id,
               log[i].epoch = x.epoch, Behind(i)'
        PROVE  log[i] \in wire'
    <3>1. Follows(r, conn.epoch) = conn.epoch
      BY <1>2 DEF PageFacts
    <3>2. i <= r.cursor
      <4>1. r.cursor \in conn.cursor..Len(log)
        BY DEF PageFacts
      <4>2. r.cursor \in Nat
        BY <4>1, <1>1
      <4>3. QED
        BY <4>2, <2>5, <1>5
    <3>3. log[i] \in r.events /\ log[i].id = i
      BY <3>1, <3>2, <2>1, <2>5, <1>1, <1>2, <1>5, ReadResumes
    <3>4. ASSUME NEW y \in r.events, y.type = "terminal" PROVE log[i].id <= y.id
      <4>1. x.id <= y.id
        BY <3>4 DEF UpToTerminal
      <4>2. y.id \in Nat /\ x.id \in Nat
        <5>1. y.id \in conn.cursor + 1 .. r.cursor
          BY DEF PageFacts
        <5>2. QED
          BY <5>1, <1>1, <1>5
      <4>3. QED
        BY <4>1, <4>2, <3>3, <2>5
    <3>5. QED
      BY <3>3, <3>4 DEF UpToTerminal
  <2>6. QED
    BY <2>2, <2>3, <2>4, <2>5, <1>1, <1>4 DEF ResumeInv
<1>10. QED
  BY <1>7, <1>8, <1>9 DEF ConnParts

-----------------------------------------------------------------------------
(* The page turns to polling, or learns the end                            *)

Turned(q, m, v) == [q EXCEPT !.mode = m, !.poll = v]

LEMMA SetModeAndPoll ==
  ASSUME NEW q \in Pages, NEW m \in Modes, NEW v \in Polls, NEW r, r = Turned(q, m, v)
  PROVE  r \in Pages /\ r.mode = m /\ r.hidden = q.hidden /\ r.poll = v
<1> DEFINE next == WithMode(q, m)
<1>1. r = WithPoll(next, v)
  BY DEF WithPoll, WithMode, Turned
<1>2. next \in Pages /\ next.mode = m /\ next.hidden = q.hidden
  BY SetMode
<1> HIDE DEF next
<1>3. QED
  BY <1>1, <1>2, SetPoll

LEMMA PollTypes ==
         /\ NoAnswer \in Polls /\ Waiting \in Polls /\ Asked \in Polls
         /\ NoAnswer.status = "none" /\ Waiting.status = "waiting" /\ Asked.status = "asked"
         /\ \A st \in RunStatus : st # "none" /\ st # "waiting" /\ st # "asked"
         /\ Finished \subseteq RunStatus
BY RunStreamAssumption DEF NoAnswer, Waiting, Asked, Polls, RunStatus, Finished

LEMMA NoConnIs ==
         /\ NoConn \in Conns /\ NoConn.kind = "none" /\ NoConn.cursor = 0 /\ NoConn.oldest = 0
         /\ NoConn.epoch = 0
BY RunStreamAssumption DEF NoConn, Conns, Kinds

(* An EventSource that is refused is given up.                             *)
LEMMA RefuseStep ==
  ASSUME IInv, UNCHANGED streamVars, source # "none", Refuse, excused \subseteq excused'
  PROVE  IInv'
<1>1. StreamInv' /\ log' = log /\ run' = run /\ shown.last \in Nat
  BY StreamSame
<1>2. /\ source' = "none" /\ conn' = NoConn /\ wire' = {} /\ lastEventId' = lastEventId
      /\ page' = [page EXCEPT !.mode = "polling-only", !.poll = PollNow(page)]
      /\ shown' = Suppress(shown) /\ upsets' = upsets
  BY DEF Refuse, Degrade, CloseSource
<1>3. page \in Pages /\ shown \in States
  BY DEF IInv, PageType
<1>4. PollNow(page) \in Polls /\ PollNow(page).status \notin RunStatus
  BY PollTypes DEF PollNow
<1>5. page' \in Pages /\ page'.mode = "polling-only" /\ page'.poll = PollNow(page)
  <2>1. "polling-only" \in Modes
    BY DEF Modes
  <2>2. page' = Turned(page, "polling-only", PollNow(page))
    BY <1>2 DEF Turned
  <2>3. QED
    BY <2>1, <2>2, <1>3, <1>4, SetModeAndPoll
<1>6. /\ shown' \in States /\ shown'.last = shown.last /\ shown'.epoch = shown.epoch
      /\ shown'.draft = <<>> /\ shown'.terminal = shown.terminal
  BY <1>2, <1>3, SuppressEffect
<1>7. shown.terminal = "none"
  BY DEF IInv, PageInv
<1>8. NoConn \in Conns /\ NoConn.kind = "none" /\ NoConn.cursor = 0 /\ NoConn.oldest = 0
  BY NoConnIs
<1>9. PageType'
  BY <1>2, <1>5, <1>6, <1>8 DEF IInv, PageType
<1>10. PageInv'
  BY <1>2, <1>4, <1>5, <1>6, <1>7, <1>8, PollTypes DEF PageInv
<1>11. ConnParts'
  <2>1. /\ lastEventId' <= shown'.last /\ shown'.last <= Len(log) /\ shown'.epoch <= run.epoch
        /\ conn'.cursor <= Len(log) /\ conn'.oldest <= conn'.cursor
    <3>1. Len(log) \in Nat
      BY StreamSame
    <3>2. QED
      BY <3>1, <1>2, <1>6, <1>8 DEF IInv, WireInv
  <2>2. excused' = {} /\ shown'.terminal = "none" => lastEventId' = shown'.last
    BY <1>2, <1>6 DEF IInv, ResumeInv
  <2>3. QED
    BY <2>1, <2>2, <1>2, <1>8, ConnGone
<1>12. DraftInv' /\ DraftWhole'
  BY <1>1, <1>6, DraftKept DEF Silent
<1>13. QED
  BY <1>1, <1>9, <1>10, <1>11, <1>12 DEF IInv, ConnParts

(* The end of the run is accepted: nothing is followed any more.           *)
LEMMA ConcludedPage ==
  ASSUME IInv, NEW status \in Finished,
         page' = [page EXCEPT !.mode = IF status \in {"policy_blocked", "deadline_exceeded"}
                                       THEN "terminal" ELSE "finalizing",
                              !.poll = NoAnswer]
  PROVE  page' \in Pages /\ page'.mode \in {"finalizing", "terminal"} /\ page'.poll = NoAnswer
<1> DEFINE m == IF status \in {"policy_blocked", "deadline_exceeded"} THEN "terminal"
                ELSE "finalizing"
<1>1. m \in Modes /\ m \in {"finalizing", "terminal"}
  BY DEF Modes
<1>2. page \in Pages
  BY DEF IInv, PageType
<1>3. page' = Turned(page, m, NoAnswer)
  BY DEF Turned
<1> HIDE DEF m
<1>4. PICK p : p = page'
  OBVIOUS
<1>5. p \in Pages /\ p.mode = m /\ p.poll = NoAnswer
  <2>1. p = Turned(page, m, NoAnswer) /\ NoAnswer \in Polls
    BY <1>3, <1>4, PollTypes
  <2>2. QED
    BY <2>1, <1>1, <1>2, SetModeAndPoll
<1>6. QED
  BY <1>1, <1>4, <1>5

LEMMA ConcludedStep ==
  ASSUME IInv, UNCHANGED streamVars, NEW status \in Finished, EndsWith(status),
         Concluded(shown, status), shown.terminal = "none",
         source' = "none", conn' \in {NoConn, conn}, conn'.kind = "none", wire' = {},
         lastEventId' = lastEventId, upsets' = upsets, excused' = excused
  PROVE  IInv'
<1>1. StreamInv' /\ log' = log /\ run' = run
  BY StreamSame
<1>2. shown' = EndedBy(shown, status) /\ shown \in States
  BY DEF Concluded, EndedBy, IInv, PageType
<1>3. page' \in Pages /\ page'.mode \in {"finalizing", "terminal"} /\ page'.poll = NoAnswer
  BY ConcludedPage DEF Concluded
<1>4. /\ shown' \in States /\ shown'.last = shown.last /\ shown'.epoch = shown.epoch
      /\ shown'.gen = shown.gen /\ shown'.terminal = status
      /\ shown'.draft = <<>> \/ (shown'.draft = shown.draft /\ shown'.suppressed = shown.suppressed)
  BY <1>2, ConcludeEffect
<1>5. conn' \in Conns /\ conn'.cursor <= Len(log) /\ conn'.oldest <= conn'.cursor
  <2>1. Len(log) \in Nat
    BY StreamSame
  <2>2. QED
    BY <2>1, NoConnIs DEF IInv, PageType, WireInv
<1>6. PageType'
  BY <1>3, <1>4, <1>5 DEF IInv, PageType
<1>7. PageInv'
  BY <1>1, <1>3, <1>4, <1>5, PollTypes DEF PageInv, EndsWith
<1>8. status # "none"
  BY PollTypes
<1>9. ConnParts'
  <2>1. /\ lastEventId' <= shown'.last /\ shown'.last <= Len(log) /\ shown'.epoch <= run.epoch
        /\ conn'.cursor <= Len(log) /\ conn'.oldest <= conn'.cursor
    <3>1. Len(log) \in Nat
      BY StreamSame
    <3>2. QED
      BY <3>1, <1>4, <1>5 DEF IInv, WireInv
  <2>2. QED
    BY <2>1, <1>4, <1>5, <1>8, ConnGone
<1>10. DraftInv' /\ DraftWhole'
  BY <1>1, <1>4, DraftKept DEF Silent, IInv, DraftInv
<1>11. QED
  BY <1>1, <1>6, <1>7, <1>9, <1>10 DEF IInv, ConnParts

-----------------------------------------------------------------------------
(* Steps of the page alone                                                 *)

LEMMA PageKept ==
  ASSUME IInv, UNCHANGED streamVars, UNCHANGED <<conn, wire, source, lastEventId, shown, excused>>,
         upsets' \in 0..MaxUpsets, page' \in Pages, page'.mode = page.mode,
         page'.poll # NoAnswer => page.mode = "polling-only",
         page'.poll.status \in RunStatus => page'.poll \in {page.poll, run}
  PROVE  IInv'
<1>1. StreamInv' /\ log' = log /\ run' = run /\ run.epoch \in Nat
  BY StreamSame
<1>2. PageType'
  BY DEF IInv, PageType
<1>3. PageInv'
  <2>1. run.status \in Finished => EndsWith(run.status)
    BY DEF EndsWith
  <2>2. page'.poll.status \in RunStatus => page'.poll.epoch <= run.epoch
    BY <1>1 DEF IInv, PageInv
  <2>3. page'.poll.status \in Finished => EndsWith(page'.poll.status)
    <3>1. page'.poll.status \in Finished => page'.poll.status \in RunStatus
      BY PollTypes
    <3>2. QED
      BY <3>1, <2>1 DEF IInv, PageInv
  <2>4. QED
    BY <1>1, <2>2, <2>3 DEF IInv, PageInv, EndsWith
<1>4. ConnParts'
  BY ConnKept DEF IInv, WireInv
<1>5. DraftInv' /\ DraftWhole'
  BY <1>1, DraftKept DEF Silent, IInv, DraftInv
<1>6. QED
  BY <1>1, <1>2, <1>3, <1>4, <1>5 DEF IInv, ConnParts

LEMMA ModesOf ==
  ASSUME IInv
  PROVE  /\ page \in Pages /\ shown \in States /\ upsets \in 0..MaxUpsets /\ MaxUpsets \in Nat
         /\ page.poll # NoAnswer => page.mode = "polling-only"
         /\ page.mode = "polling-only" => source = "none"
         /\ ~Settled => shown.terminal = "none"
         /\ source # "none" => /\ page.mode \in {"connecting", "live", "reconnecting"}
                               /\ page.poll = NoAnswer /\ shown.terminal = "none"
BY UpsetsAssumption DEF IInv, PageType, PageInv, Settled, Knows, Pages, Modes

LEMMA HideStep ==
  ASSUME IInv, Hide
  PROVE  IInv'
<1> DEFINE hid == WithHidden(page, TRUE)
           set == WithPoll(hid, NoAnswer)
<1>1. page' = set
  BY DEF Hide, WithHidden, WithPoll
<1>2. hid \in Pages /\ hid.mode = page.mode
  BY ModesOf, SetHidden
<1> HIDE DEF hid
<1>3. set \in Pages /\ set.mode = hid.mode /\ set.poll = NoAnswer
  BY <1>2, PollTypes, SetPoll
<1> HIDE DEF set
<1>4. upsets' \in 0..MaxUpsets
  BY ModesOf DEF Hide
<1>5. NoAnswer.status \notin RunStatus
  BY PollTypes
<1>6. QED
  BY <1>1, <1>2, <1>3, <1>4, <1>5, PageKept DEF Hide

LEMMA ShowStep ==
  ASSUME IInv, Show
  PROVE  IInv'
<1> DEFINE seen == WithHidden(page, FALSE)
           poll == IF page.mode = "polling-only" THEN Asked ELSE NoAnswer
           set == WithPoll(seen, poll)
<1>1. page' = set
  BY DEF Show, WithHidden, WithPoll
<1>2. seen \in Pages /\ seen.mode = page.mode
  BY ModesOf, SetHidden
<1> HIDE DEF seen
<1>3. /\ poll \in Polls /\ poll.status \notin RunStatus
      /\ poll # NoAnswer => page.mode = "polling-only"
  BY PollTypes
<1> HIDE DEF poll
<1>4. set \in Pages /\ set.mode = seen.mode /\ set.poll = poll
  BY <1>2, <1>3, SetPoll
<1> HIDE DEF set
<1>5. upsets' \in 0..MaxUpsets
  BY ModesOf DEF Show
<1>6. QED
  BY <1>1, <1>2, <1>3, <1>4, <1>5, PageKept DEF Show

(* A poll is asked, has read the row, or has failed.                       *)
LEMMA PollStep ==
  ASSUME IInv, PollTimer \/ PollRead \/ PollFails
  PROVE  IInv'
<1>1. PICK poll : /\ page' = [page EXCEPT !.poll = poll] /\ poll \in {Asked, Waiting, run}
                  /\ page.poll \in {Asked, Waiting}
                  /\ UNCHANGED <<streamVars, conn, wire, source, lastEventId, shown, upsets, excused>>
  <2>1. CASE PollTimer
    BY <2>1 DEF PollTimer
  <2>2. CASE PollRead
    BY <2>2 DEF PollRead
  <2>3. CASE PollFails
    BY <2>3 DEF PollFails
  <2>4. QED
    BY <2>1, <2>2, <2>3
<1> DEFINE set == WithPoll(page, poll)
<1>2. page' = set
  BY <1>1 DEF WithPoll
<1>3. run \in Polls
  BY DEF IInv, StreamInv, RunTypes, Polls
<1>4. poll \in Polls /\ (poll.status \in RunStatus => poll = run)
  BY <1>1, <1>3, PollTypes
<1>5. set \in Pages /\ set.mode = page.mode /\ set.poll = poll
  BY <1>4, ModesOf, SetPoll
<1> HIDE DEF set
<1>6. page.mode = "polling-only"
  <2>1. page.poll # NoAnswer
    BY <1>1, PollTypes
  <2>2. QED
    BY <2>1, ModesOf
<1>7. upsets' \in 0..MaxUpsets
  BY <1>1, ModesOf
<1>8. QED
  BY <1>1, <1>2, <1>4, <1>5, <1>6, <1>7, PageKept

LEMMA SeeEndStep ==
  ASSUME IInv, SeeEnd
  PROVE  IInv'
<1>1. /\ UNCHANGED streamVars /\ source = "open" /\ wire = {} /\ conn = NoConn
      /\ source' = "connecting" /\ page' = [page EXCEPT !.mode = "reconnecting"]
      /\ UNCHANGED <<conn, wire, lastEventId, shown, upsets, excused>>
  BY DEF SeeEnd
<1>2. StreamInv' /\ log' = log /\ run' = run
  BY <1>1, StreamSame
<1> DEFINE set == WithMode(page, "reconnecting")
<1>3. page' = set
  BY <1>1 DEF WithMode
<1>4. set \in Pages /\ set.mode = "reconnecting" /\ set.poll = page.poll
  BY ModesOf, SetMode DEF Modes
<1> HIDE DEF set
<1>5. page.poll = NoAnswer /\ shown.terminal = "none"
  BY <1>1, ModesOf
<1>6. PageType'
  BY <1>1, <1>3, <1>4 DEF IInv, PageType
<1>7. PageInv'
  BY <1>1, <1>2, <1>3, <1>4, <1>5, NoConnIs, PollTypes DEF PageInv
<1>8. ConnParts'
  BY <1>1, ConnKept DEF IInv, WireInv
<1>9. DraftInv' /\ DraftWhole'
  BY <1>1, <1>2, DraftKept DEF Silent, IInv, DraftInv
<1>10. QED
  BY <1>2, <1>6, <1>7, <1>8, <1>9 DEF IInv, ConnParts

LEMMA DropStep ==
  ASSUME IInv, Drop
  PROVE  IInv'
<1>1. /\ UNCHANGED streamVars /\ conn' = NoConn /\ wire' = {}
      /\ source' = source /\ lastEventId' = lastEventId /\ page' = page /\ shown' = shown
      /\ excused' = excused
  BY DEF Drop
<1>2. StreamInv' /\ log' = log /\ run' = run /\ Len(log) \in Nat
  BY <1>1, StreamSame
<1>3. upsets' \in 0..MaxUpsets
  BY ModesOf DEF Drop
<1>4. PageType'
  BY <1>1, <1>3, NoConnIs DEF IInv, PageType
<1>5. PageInv'
  BY <1>1, <1>2, NoConnIs DEF IInv, PageInv, EndsWith
<1>6. ConnParts'
  <2>1. /\ lastEventId' <= shown'.last /\ shown'.last <= Len(log) /\ shown'.epoch <= run.epoch
        /\ conn'.kind = "none" /\ conn'.cursor <= Len(log) /\ conn'.oldest <= conn'.cursor
    BY <1>1, <1>2, NoConnIs DEF IInv, WireInv
  <2>2. excused' = {} /\ shown'.terminal = "none" => lastEventId' = shown'.last
    BY <1>1 DEF IInv, ResumeInv
  <2>3. QED
    BY <1>1, <2>1, <2>2, ConnGone
<1>7. DraftInv' /\ DraftWhole'
  BY <1>1, <1>2, DraftKept DEF Silent, IInv, DraftInv
<1>8. QED
  BY <1>2, <1>4, <1>5, <1>6, <1>7 DEF IInv, ConnParts

(* A new EventSource over the same state excuses a gap.                    *)
LEMMA ResubscribeStep ==
  ASSUME IInv, Resubscribe
  PROVE  IInv'
<1>1. /\ UNCHANGED streamVars /\ conn' = NoConn /\ wire' = {} /\ shown' = shown
      /\ excused \subseteq excused' /\ excused' # {} /\ ~Settled
  BY DEF Resubscribe
<1>2. StreamInv' /\ log' = log /\ run' = run /\ Len(log) \in Nat /\ shown.last \in Nat
  BY <1>1, StreamSame
<1>3. upsets' \in 0..MaxUpsets
  BY ModesOf DEF Resubscribe
<1>4. /\ lastEventId' \in {lastEventId, 0}
      /\ PageType' /\ PageInv'
  <2>1. CASE page.mode = "polling-only"
    <3> DEFINE set == WithPoll(page, PollNow(page))
    <3>1. page' = set /\ source' = source /\ lastEventId' = lastEventId
      BY <2>1 DEF Resubscribe, WithPoll
    <3>2. PollNow(page) \in Polls /\ PollNow(page).status \notin RunStatus
      BY PollTypes DEF PollNow
    <3>3. set \in Pages /\ set.mode = page.mode /\ set.poll = PollNow(page)
      BY <3>2, ModesOf, SetPoll
    <3> HIDE DEF set
    <3>4. PageType'
      BY <1>1, <1>3, <3>1, <3>3, NoConnIs DEF IInv, PageType
    <3>5. source = "none" /\ shown.terminal = "none"
      BY <2>1, <1>1, ModesOf
    <3>6. PageInv'
      BY <1>1, <1>2, <2>1, <3>1, <3>2, <3>3, <3>5, NoConnIs, PollTypes DEF PageInv
    <3>7. QED
      BY <3>1, <3>4, <3>6
  <2>2. CASE page.mode # "polling-only"
    <3>1. page' = page /\ source' = "connecting" /\ lastEventId' = 0
      BY <2>2 DEF Resubscribe, NoCursor
    <3>2. PageType'
      <4>1. 0 \in 0..MaxId
        BY RunStreamAssumption
      <4>2. QED
        BY <1>1, <1>3, <3>1, <4>1, NoConnIs DEF IInv, PageType
    <3>3. page.poll = NoAnswer /\ shown.terminal = "none"
      BY <1>1, <2>2, ModesOf
    <3>4. PageInv'
      BY <1>1, <1>2, <2>2, <3>1, <3>3, NoConnIs, PollTypes DEF PageInv, Settled, Knows
    <3>5. QED
      BY <3>1, <3>2, <3>4
  <2>3. QED
    BY <2>1, <2>2
<1>5. ConnParts'
  <2>1. /\ lastEventId' <= shown'.last /\ shown'.last <= Len(log) /\ shown'.epoch <= run.epoch
        /\ conn'.kind = "none" /\ conn'.cursor <= Len(log) /\ conn'.oldest <= conn'.cursor
    BY <1>1, <1>2, <1>4, NoConnIs DEF IInv, WireInv
  <2>2. QED
    BY <1>1, <2>1, ConnGone
<1>6. DraftInv' /\ DraftWhole'
  BY <1>1, <1>2, DraftKept DEF Silent, IInv, DraftInv
<1>7. QED
  BY <1>2, <1>4, <1>5, <1>6 DEF IInv, ConnParts

LEMMA PollAnsweredStep ==
  ASSUME IInv, PollAnswered
  PROVE  IInv'
<1>1. /\ UNCHANGED streamVars /\ UNCHANGED <<conn, wire, source, lastEventId, upsets, excused>>
      /\ page.poll.status \in RunStatus
  BY DEF PollAnswered
<1>2. /\ StreamInv' /\ log' = log /\ run' = run /\ Len(log) \in Nat /\ shown.last \in Nat
      /\ run.epoch \in Nat /\ shown.epoch \in Nat
  BY <1>1, StreamSame
<1>3. /\ source = "none" /\ conn.kind = "none" /\ wire = {} /\ shown.terminal = "none"
      /\ page.mode = "polling-only"
  <2>1. page.poll # NoAnswer
    BY <1>1, PollTypes
  <2>2. page.mode = "polling-only" /\ source = "none"
    BY <2>1, ModesOf
  <2>3. QED
    BY <2>2 DEF IInv, PageInv
<1>4. /\ conn.cursor <= Len(log) /\ conn.oldest <= conn.cursor /\ lastEventId <= shown.last
      /\ shown.last <= Len(log) /\ shown.epoch <= run.epoch
      /\ excused = {} => lastEventId = shown.last
  BY <1>3 DEF IInv, WireInv, ResumeInv
<1>5. page \in Pages /\ shown \in States
  BY ModesOf
<1>6. CASE page.poll.status \in Finished
  <2>1. Concluded(shown, page.poll.status)
    BY <1>6, Zenon DEF PollAnswered, Finished
  <2>2. EndsWith(page.poll.status)
    BY <1>6 DEF IInv, PageInv
  <2> HIDE DEF EndsWith
  <2>3. PICK status : status = page.poll.status
    OBVIOUS
  <2>4. QED
    BY <1>1, <1>3, <1>6, <2>1, <2>2, <2>3, ConcludedStep
<1>7. CASE page.poll.status = "deleted"
  <2>1. page' = Turned(page, "stopped", NoAnswer) /\ shown' = Suppress(shown)
    BY <1>7, Zenon DEF PollAnswered, Finished, Turned
  <2>2. page' \in Pages /\ page'.mode = "stopped" /\ page'.poll = NoAnswer
    <3>1. "stopped" \in Modes /\ NoAnswer \in Polls
      BY PollTypes DEF Modes
    <3>2. QED
      BY <3>1, <2>1, <1>5, SetModeAndPoll
  <2>3. /\ shown' \in States /\ shown'.last = shown.last /\ shown'.epoch = shown.epoch
        /\ shown'.draft = <<>> /\ shown'.terminal = shown.terminal
    BY <2>1, <1>5, SuppressEffect
  <2>4. PageType'
    BY <1>1, <2>2, <2>3 DEF IInv, PageType
  <2>5. PageInv'
    BY <1>1, <1>3, <2>2, <2>3, PollTypes DEF PageInv
  <2>6. ConnParts'
    BY <1>1, <1>3, <1>4, <2>3, ConnGone
  <2>7. DraftInv' /\ DraftWhole'
    BY <1>1, <1>2, <2>3, DraftKept DEF Silent
  <2>8. QED
    BY <1>2, <2>4, <2>5, <2>6, <2>7 DEF IInv, ConnParts
<1>8. CASE page.poll.status \in {"queued", "running"}
  <2>1. page' = WithPoll(page, Waiting) /\ shown' = MergePoll(shown, page.poll.epoch)
    BY <1>8, Zenon DEF PollAnswered, Finished, WithPoll
  <2>2. page' \in Pages /\ page'.mode = "polling-only" /\ page'.poll = Waiting
    <3> DEFINE set == WithPoll(page, Waiting)
    <3>1. page' = set /\ Waiting \in Polls
      BY <2>1, PollTypes
    <3>2. set \in Pages /\ set.mode = page.mode /\ set.poll = Waiting
      BY <3>1, <1>5, SetPoll
    <3> HIDE DEF set
    <3>3. QED
      BY <3>1, <3>2, <1>3
  <2>3. page.poll.epoch \in 0..MaxEpoch /\ page.poll.epoch <= run.epoch
    BY <1>1, <1>5 DEF IInv, PageInv, Pages, Polls
  <2>4. /\ shown' \in States /\ shown'.last = shown.last /\ shown'.epoch <= run.epoch
        /\ shown'.terminal = "none"
        /\ shown' = shown \/ shown'.draft = <<>>
    <3>1. CASE page.poll.epoch > shown.epoch
      <4>1. shown' = ResetForAttempt(shown, page.poll.epoch)
        BY <2>1, <3>1 DEF MergePoll
      <4>2. /\ shown' \in States /\ shown'.last = shown.last /\ shown'.epoch = page.poll.epoch
            /\ shown'.draft = <<>> /\ shown'.terminal = "none"
        BY <4>1, <2>3, <1>5, ResetEffect
      <4>3. QED
        BY <4>2, <2>3
    <3>2. CASE ~ (page.poll.epoch > shown.epoch)
      BY <2>1, <3>2, <1>3, <1>4, <1>5 DEF MergePoll
    <3>3. QED
      BY <3>1, <3>2
  <2>5. PageType'
    BY <1>1, <2>2, <2>4 DEF IInv, PageType
  <2>6. PageInv'
    BY <1>1, <1>3, <2>2, <2>4, PollTypes DEF PageInv
  <2>7. ConnParts'
    BY <1>1, <1>3, <1>4, <2>4, ConnGone
  <2>8. DraftInv' /\ DraftWhole'
    BY <1>1, <1>2, <2>4, DraftKept DEF Silent, IInv, DraftInv
  <2>9. QED
    BY <1>2, <2>5, <2>6, <2>7, <2>8 DEF IInv, ConnParts
<1>9. QED
  BY <1>1, <1>6, <1>7, <1>8 DEF RunStatus

-----------------------------------------------------------------------------
(* Steps of the connection                                                 *)

WithKind(q, v)      == [q EXCEPT !.kind = v]
WithConnEpoch(q, v) == [q EXCEPT !.epoch = v]
WithCursor(q, v)    == [q EXCEPT !.cursor = v]
WithOldest(q, v)    == [q EXCEPT !.oldest = v]

LEMMA SetKind ==
  ASSUME NEW q \in Conns, NEW v \in Kinds, NEW r, r = WithKind(q, v)
  PROVE  /\ r \in Conns /\ r.kind = v /\ r.epoch = q.epoch /\ r.cursor = q.cursor
         /\ r.oldest = q.oldest
BY DEF Conns, WithKind

LEMMA SetConnEpoch ==
  ASSUME NEW q \in Conns, NEW v \in 0..MaxEpoch, NEW r, r = WithConnEpoch(q, v)
  PROVE  /\ r \in Conns /\ r.kind = q.kind /\ r.epoch = v /\ r.cursor = q.cursor
         /\ r.oldest = q.oldest
BY DEF Conns, WithConnEpoch

LEMMA SetCursor ==
  ASSUME NEW q \in Conns, NEW v \in 0..MaxId, NEW r, r = WithCursor(q, v)
  PROVE  /\ r \in Conns /\ r.kind = q.kind /\ r.epoch = q.epoch /\ r.cursor = v
         /\ r.oldest = q.oldest
BY DEF Conns, WithCursor

LEMMA SetOldest ==
  ASSUME NEW q \in Conns, NEW v \in 0..MaxId, NEW r, r = WithOldest(q, v)
  PROVE  /\ r \in Conns /\ r.kind = q.kind /\ r.epoch = q.epoch /\ r.cursor = q.cursor
         /\ r.oldest = v
BY DEF Conns, WithOldest

(* The page keeps what it shows, and at most goes live.                    *)
LEMMA ConnStep ==
  ASSUME IInv, UNCHANGED streamVars, UNCHANGED <<lastEventId, shown, upsets>>,
         excused \subseteq excused', conn' \in Conns, ConnParts',
         \/ /\ page' = page /\ source' = source
            /\ source = "none" => conn'.kind = "none"
            /\ source # "open" => wire' = {} /\ conn'.kind \in {"none", "preflight"}
         \/ source # "none" /\ source' = "open" /\ page' = [page EXCEPT !.mode = "live"]
  PROVE  IInv'
<1>1. StreamInv' /\ log' = log /\ run' = run
  BY StreamSame
<1>2. DraftInv' /\ DraftWhole'
  BY <1>1, DraftKept DEF Silent, IInv, DraftInv
<1>3. PageType' /\ PageInv'
  <2>1. CASE /\ page' = page /\ source' = source
             /\ source = "none" => conn'.kind = "none"
             /\ source # "open" => wire' = {} /\ conn'.kind \in {"none", "preflight"}
    BY <2>1, <1>1 DEF IInv, PageType, PageInv, EndsWith
  <2>2. CASE source # "none" /\ source' = "open" /\ page' = [page EXCEPT !.mode = "live"]
    <3>1. page.poll = NoAnswer /\ shown.terminal = "none" /\ page \in Pages
      BY <2>2, ModesOf
    <3>2. page' \in Pages /\ page'.mode = "live" /\ page'.poll = page.poll
      <4> DEFINE set == WithMode(page, "live")
      <4>1. page' = set /\ "live" \in Modes
        BY <2>2 DEF WithMode, Modes
      <4>2. set \in Pages /\ set.mode = "live" /\ set.poll = page.poll
        BY <3>1, <4>1, SetMode
      <4> HIDE DEF set
      <4>3. QED
        BY <4>1, <4>2
    <3>3. PageType'
      BY <2>2, <3>2 DEF IInv, PageType
    <3>4. PageInv'
      BY <2>2, <3>1, <3>2, <1>1, PollTypes DEF PageInv
    <3>5. QED
      BY <3>3, <3>4
  <2>3. QED
    BY <2>1, <2>2
<1>4. QED
  BY <1>1, <1>2, <1>3 DEF IInv, ConnParts

LEMMA MaxAgeStep ==
  ASSUME IInv, MaxAge
  PROVE  IInv'
<1>1. /\ UNCHANGED streamVars /\ conn' = NoConn
      /\ UNCHANGED <<wire, source, lastEventId, page, shown, upsets, excused>>
  BY DEF MaxAge
<1>2. ConnParts'
  BY <1>1, NoConnIs, ConnKept
<1>3. QED
  BY <1>1, <1>2, NoConnIs, ConnStep DEF IInv, PageInv

(* A new connection begins behind what the page has seen.                  *)
LEMMA ConnOpens ==
  ASSUME IInv, UNCHANGED streamVars, source = "connecting", wire' = {},
         UNCHANGED <<lastEventId, shown, upsets, excused>>,
         conn'.cursor = lastEventId, conn'.oldest = 0,
         \/ conn'.kind = "queued" /\ conn'.epoch = 0
         \/ conn'.kind = "preflight" /\ conn'.epoch = run.epoch
  PROVE  ConnParts'
<1>1. /\ log' = log /\ gone' = gone /\ run' = run /\ Logged' = Logged
      /\ Len(log) \in Nat /\ gone \in Nat /\ shown.last \in Nat /\ run.epoch \in Nat
      /\ shown.epoch \in Nat
  BY StreamSame
<1>2. lastEventId \in Nat /\ shown.terminal = "none"
  BY ModesOf DEF IInv, PageType
<1>3. lastEventId <= shown.last /\ shown.last <= Len(log) /\ shown.epoch <= run.epoch
  BY DEF IInv, WireInv
<1>4. Cardinality({}) <= PageSize
  BY FS_EmptySet, PageAssumption
<1>5. WireInv'
  BY <1>1, <1>2, <1>3, <1>4 DEF WireInv
<1>6. SkipInv'
  <2>1. \A i \in gone + 1 .. lastEventId : i <= shown.last
    BY <1>1, <1>2, <1>3
  <2>2. QED
    BY <2>1, <1>1 DEF SkipInv, Sent
<1>7. ResumeInv'
  <2>1. excused = {} => lastEventId = shown.last
    BY <1>2 DEF IInv, ResumeInv
  <2>2. QED
    BY <2>1, <1>1, <1>2 DEF ResumeInv
<1>8. QED
  BY <1>5, <1>6, <1>7 DEF ConnParts

LEMMA ConnectStep ==
  ASSUME IInv, Connect
  PROVE  IInv'
<1>1. UNCHANGED streamVars /\ excused' = excused /\ source = "connecting" /\ conn = NoConn
  BY DEF Connect
<1>2. wire = {} /\ lastEventId \in 0..MaxId /\ run \in [status : RunStatus, epoch : 0..MaxEpoch]
  BY <1>1 DEF IInv, PageInv, PageType, StreamInv, RunTypes
<1>3. CASE run.status \in Finished \cup {"deleted"}
  <2>1. Refuse
    BY <1>3, Zenon DEF Connect, Finished
  <2>2. QED
    BY <1>1, <2>1, RefuseStep
<1>4. CASE run.status = "queued"
  <2> DEFINE set == [NoConn EXCEPT !.kind = "queued", !.cursor = lastEventId]
  <2>1. Opened(set, {})
    BY <1>4, Zenon DEF Connect, Finished
  <2>2. /\ set \in Conns /\ set.kind = "queued" /\ set.epoch = 0 /\ set.cursor = lastEventId
        /\ set.oldest = 0
    <3> DEFINE next == WithKind(NoConn, "queued")
    <3>1. set = WithCursor(next, lastEventId)
      BY DEF WithKind, WithCursor
    <3>2. next \in Conns /\ next.kind = "queued" /\ next.epoch = 0 /\ next.oldest = 0
      BY NoConnIs, SetKind DEF Kinds
    <3> HIDE DEF next, set
    <3>3. QED
      BY <1>2, <3>1, <3>2, SetCursor
  <2> HIDE DEF set
  <2>3. ConnParts'
    BY <1>1, <2>1, <2>2, ConnOpens DEF Opened
  <2>4. QED
    BY <1>1, <2>1, <2>2, <2>3, ConnStep DEF Opened
<1>5. CASE run.status = "running"
  <2> DEFINE set == [kind |-> "preflight", epoch |-> run.epoch, cursor |-> lastEventId,
                     oldest |-> 0]
  <2>1. conn' = set /\ UNCHANGED <<wire, source, lastEventId, page, shown, upsets>>
    BY <1>5, Zenon DEF Connect, Finished
  <2>2. /\ set \in Conns /\ set.kind = "preflight" /\ set.epoch = run.epoch
        /\ set.cursor = lastEventId /\ set.oldest = 0
    BY <1>2, RunStreamAssumption DEF Conns, Kinds
  <2> HIDE DEF set
  <2>3. ConnParts'
    BY <1>1, <1>2, <2>1, <2>2, ConnOpens
  <2>4. QED
    BY <1>1, <1>2, <2>1, <2>2, <2>3, ConnStep
<1>6. QED
  BY <1>2, <1>3, <1>4, <1>5 DEF RunStatus

LEMMA RecheckStep ==
  ASSUME IInv, Recheck
  PROVE  IInv'
<1>1. /\ UNCHANGED streamVars /\ conn.kind = "queued"
      /\ UNCHANGED <<wire, source, lastEventId, page, shown, upsets, excused>>
  BY DEF Recheck
<1>2. /\ log' = log /\ gone' = gone /\ run' = run /\ Logged' = Logged
      /\ Len(log) \in Nat /\ gone \in Nat /\ run.epoch \in Nat /\ conn.cursor \in Nat
      /\ shown.last \in Nat
  BY <1>1, StreamSame
<1>3. /\ conn \in Conns /\ run \in [status : RunStatus, epoch : 0..MaxEpoch]
      /\ source = "open"
  BY <1>1 DEF IInv, PageType, PageInv, StreamInv, RunTypes
<1>4. CASE run.status = "queued"
  <2>1. conn' = conn
    BY <1>4, Zenon DEF Recheck, Finished
  <2>2. conn.oldest <= conn.cursor
    BY DEF IInv, WireInv
  <2>3. ConnParts'
    BY <1>1, <2>1, <2>2, ConnKept
  <2>4. QED
    BY <1>1, <1>3, <2>1, <2>3, ConnStep
<1>5. CASE run.status \in Finished \cup {"deleted"}
  <2>1. conn' = NoConn
    BY <1>5, Zenon DEF Recheck, Finished
  <2>2. ConnParts'
    BY <1>1, <2>1, NoConnIs, ConnKept
  <2>3. QED
    BY <1>1, <1>3, <2>1, <2>2, NoConnIs, ConnStep
<1>6. CASE run.status = "running"
  <2> DEFINE next == WithKind(conn, "following")
  <2>1. conn' = WithConnEpoch(next, run.epoch)
    BY <1>6, Zenon DEF Recheck, Finished, WithKind, WithConnEpoch
  <2>2. /\ next \in Conns /\ next.kind = "following" /\ next.cursor = conn.cursor
        /\ next.oldest = conn.oldest
    BY <1>3, SetKind DEF Kinds
  <2> HIDE DEF next
  <2>3. /\ conn' \in Conns /\ conn'.kind = "following" /\ conn'.epoch = run.epoch
        /\ conn'.cursor = conn.cursor /\ conn'.oldest = conn.oldest
    BY <1>3, <2>1, <2>2, SetConnEpoch
  <2>4. wire = {} /\ conn.epoch = 0 /\ conn.cursor <= Len(log) /\ shown.epoch <= run.epoch
    BY <1>1 DEF IInv, WireInv
  <2>5. \A i \in 1..conn.cursor : log[i].epoch >= conn.epoch
    <3>1. ASSUME NEW i \in 1..conn.cursor PROVE log[i].epoch >= conn.epoch
      <4>1. i \in 1..Len(log)
        BY <1>2, <2>4
      <4>2. log[i] \in Entries
        BY <4>1 DEF IInv, StreamInv, LogOrder
      <4>3. QED
        BY <2>4, <4>2, RunStreamAssumption DEF Entries, Epochs
    <3>2. QED
      BY <3>1
  <2>6. WireInv'
    BY <1>1, <1>2, <2>3, <2>4 DEF IInv, WireInv
  <2>7. SkipInv'
    <3>1. \A i \in gone + 1 .. conn.cursor : i \in 1..conn.cursor
      BY <1>2
    <3>2. QED
      BY <3>1, <1>1, <1>2, <2>3, <2>5 DEF IInv, SkipInv, Sent
  <2>8. ResumeInv'
    BY <1>1, <1>2, <2>3, <2>4, <2>5 DEF IInv, ResumeInv, Behind
  <2>9. ConnParts'
    BY <2>6, <2>7, <2>8 DEF ConnParts
  <2>10. QED
    BY <1>1, <1>3, <2>3, <2>9, ConnStep
<1>7. QED
  BY <1>3, <1>4, <1>5, <1>6 DEF RunStatus

LEMMA TurnedAwayStep ==
  ASSUME IInv, TurnedAway
  PROVE  IInv'
BY RefuseStep DEF TurnedAway

-----------------------------------------------------------------------------
(* What the connection does with a page                                    *)

Same  == UNCHANGED <<wire, source, lastEventId, page, shown, upsets>>
At(r) == [conn EXCEPT !.cursor = r.cursor, !.oldest = 0]
Closed == IF conn.kind = "preflight" THEN Refuse ELSE conn' = NoConn /\ Same
Goes(c, frames) ==
  IF conn.kind = "preflight"
  THEN Opened(IF c.kind = "none" THEN c ELSE WithKind(c, "following"), frames)
  ELSE conn' = c /\ wire' = frames /\ UNCHANGED <<source, lastEventId, page, shown, upsets>>
HasTerminal(frames) == \E x \in frames : x.type = "terminal"

LEMMA ApplyIs ==
  ASSUME NEW r, Apply(r)
  PROVE  /\ r.status \in {"unavailable", "cursor_trimmed"} => Closed
         /\ r.status = "stream_missing" => Closed \/ (conn' = WithOldest(conn, 0) /\ Same)
         /\ r.status = "attempt_advanced" => conn' = WithConnEpoch(At(r), r.epoch) /\ Same
         /\ r.status \in {"empty", "attempt_absent"} => Goes(At(r), {})
         /\ r.status = "events" =>
              Goes(IF HasTerminal(UpToTerminal(r.events)) THEN NoConn ELSE At(r),
                   UpToTerminal(r.events))
<1>1. CASE r.status \in {"unavailable", "cursor_trimmed"}
  <2>1. Closed
    BY <1>1, Zenon DEF Apply, Closed, Same
  <2>2. QED
    BY <1>1, <2>1
<1>2. CASE r.status = "stream_missing"
  <2>1. Closed \/ (conn' = WithOldest(conn, 0) /\ Same)
    BY <1>2, Zenon DEF Apply, Closed, Same, WithOldest
  <2>2. QED
    BY <1>2, <2>1
<1>3. CASE r.status = "attempt_advanced"
  <2>1. conn' = WithConnEpoch(At(r), r.epoch) /\ Same
    BY <1>3, Zenon DEF Apply, At, Same, WithConnEpoch
  <2>2. QED
    BY <1>3, <2>1
<1>4. CASE r.status \in {"empty", "attempt_absent"}
  <2>1. Goes(At(r), {})
    BY <1>4, Zenon DEF Apply, At, Goes, WithKind
  <2>2. QED
    BY <1>4, <2>1
<1>5. CASE r.status = "events"
  <2>1. Goes(IF HasTerminal(UpToTerminal(r.events)) THEN NoConn ELSE At(r),
             UpToTerminal(r.events))
    BY <1>5, Zenon DEF Apply, At, Goes, WithKind, HasTerminal
  <2>2. QED
    BY <1>5, <2>1
<1>6. QED
  BY <1>1, <1>2, <1>3, <1>4, <1>5

LEMMA AtIs ==
  ASSUME IInv, NEW r, r.cursor \in 0..MaxId
  PROVE  /\ At(r) \in Conns /\ At(r).kind = conn.kind /\ At(r).epoch = conn.epoch
         /\ At(r).cursor = r.cursor /\ At(r).oldest = 0
<1> DEFINE next == WithCursor(conn, r.cursor)
<1>1. At(r) = WithOldest(next, 0) /\ conn \in Conns /\ 0 \in 0..MaxId
  BY RunStreamAssumption DEF At, WithOldest, WithCursor, IInv, PageType
<1>2. /\ next \in Conns /\ next.kind = conn.kind /\ next.epoch = conn.epoch
      /\ next.cursor = r.cursor
  BY <1>1, SetCursor
<1> HIDE DEF next
<1>3. QED
  BY <1>1, <1>2, SetOldest

LEMMA ClosedStep ==
  ASSUME IInv, UNCHANGED streamVars, excused \subseteq excused',
         conn.kind \in {"preflight", "following"}, Closed
  PROVE  IInv'
<1>1. CASE conn.kind = "preflight"
  <2>1. source # "none" /\ Refuse
    BY <1>1 DEF IInv, PageInv, Closed
  <2>2. QED
    BY <2>1, RefuseStep
<1>2. CASE conn.kind # "preflight"
  <2>1. conn' = NoConn /\ Same
    BY <1>2 DEF Closed
  <2>2. ConnParts'
    BY <2>1, NoConnIs, ConnKept DEF Same
  <2>3. source # "open" => wire = {}
    BY DEF IInv, PageInv
  <2>4. QED
    BY <2>1, <2>2, <2>3, NoConnIs, ConnStep DEF Same
<1>3. QED
  BY <1>1, <1>2

LEMMA GoesStep ==
  ASSUME IInv, UNCHANGED streamVars, excused \subseteq excused',
         conn.kind \in {"preflight", "following"}, NEW frames,
         NEW c \in Conns, c.kind \in {conn.kind, "none"}, Goes(c, frames)
  PROVE  /\ UNCHANGED <<lastEventId, shown, upsets>> /\ wire' = frames
         /\ conn'.cursor = c.cursor /\ conn'.epoch = c.epoch /\ conn'.oldest = c.oldest
         /\ c.kind # "none" => conn'.kind = "following"
         /\ c.kind = "none" => conn' = c
         /\ ConnParts' => IInv'
<1>1. source # "none" /\ (conn.kind = "following" => source = "open")
  BY DEF IInv, PageInv
<1>2. CASE conn.kind = "preflight"
  <2> DEFINE d == IF c.kind = "none" THEN c ELSE WithKind(c, "following")
  <2>1. Opened(d, frames)
    BY <1>2 DEF Goes
  <2>2. /\ d \in Conns /\ d.epoch = c.epoch /\ d.cursor = c.cursor /\ d.oldest = c.oldest
        /\ c.kind # "none" => d.kind = "following"
        /\ c.kind = "none" => d = c
    BY SetKind DEF Kinds
  <2> HIDE DEF d
  <2>3. ConnParts' => IInv'
    BY <1>1, <2>1, <2>2, ConnStep DEF Opened
  <2>4. QED
    BY <2>1, <2>2, <2>3 DEF Opened
<1>3. CASE conn.kind = "following"
  <2>1. conn' = c /\ wire' = frames /\ UNCHANGED <<source, lastEventId, page, shown, upsets>>
    BY <1>3 DEF Goes
  <2>2. ConnParts' => IInv'
    BY <1>1, <1>3, <2>1, ConnStep
  <2>3. QED
    BY <1>3, <2>1, <2>2
<1>4. QED
  BY <1>2, <1>3

LEMMA ReadFailsStep ==
  ASSUME IInv, ReadFails
  PROVE  IInv'
<1>1. Unavailable.status = "unavailable"
  BY DEF Unavailable, Read
<1>2. PICK r : r = Unavailable
  OBVIOUS
<1>3. Closed
  BY <1>1, <1>2, ApplyIs DEF ReadFails
<1>4. QED
  BY <1>3, ClosedStep DEF ReadFails, MayRead

(* The oldest entry is looked at before the page is read.                  *)
LEMMA OldestStep ==
  ASSUME IInv, UNCHANGED streamVars, excused \subseteq excused',
         conn.kind \in {"preflight", "following"}, NEW v \in 0..MaxId, v <= conn.cursor,
         conn' = WithOldest(conn, v), Same
  PROVE  IInv'
<1>1. conn \in Conns /\ source # "none" /\ (source # "open" => wire = {} /\ conn.kind = "preflight")
  BY DEF IInv, PageType, PageInv
<1>2. /\ conn' \in Conns /\ conn'.kind = conn.kind /\ conn'.epoch = conn.epoch
      /\ conn'.cursor = conn.cursor /\ conn'.oldest = v
  BY <1>1, SetOldest
<1>3. ConnParts'
  BY <1>2, ConnKept DEF Same
<1>4. QED
  BY <1>1, <1>2, <1>3, ConnStep DEF Same

LEMMA MissingStep ==
  ASSUME IInv, UNCHANGED streamVars, excused \subseteq excused',
         conn.kind \in {"preflight", "following"}, NEW r, r = StreamMissing, Apply(r)
  PROVE  IInv'
<1>1. Closed \/ (conn' = WithOldest(conn, 0) /\ Same)
  <2>1. r.status = "stream_missing"
    BY DEF StreamMissing, Read
  <2>2. QED
    BY <2>1, ApplyIs
<1>2. 0 \in 0..MaxId /\ 0 <= conn.cursor
  BY RunStreamAssumption DEF IInv, PageType, Conns
<1>3. QED
  BY <1>1, <1>2, ClosedStep, OldestStep

LEMMA CheckCursorStep ==
  ASSUME IInv, CheckCursor
  PROVE  IInv'
<1>1. UNCHANGED streamVars /\ excused' = excused /\ conn.kind \in {"preflight", "following"}
  BY DEF CheckCursor, MayRead
<1>2. CASE stream = {}
  <2>1. Apply(StreamMissing)
    BY <1>2 DEF CheckCursor
  <2>2. QED
    BY <1>1, <2>1, MissingStep
<1>3. CASE stream # {} /\ Trimmed(conn.cursor)
  <2>1. Apply(CursorTrimmed) /\ CursorTrimmed.status = "cursor_trimmed"
    BY <1>3 DEF CheckCursor, CursorTrimmed, Read
  <2>2. PICK r : r = CursorTrimmed
    OBVIOUS
  <2>3. Closed
    BY <2>1, <2>2, ApplyIs
  <2>4. QED
    BY <1>1, <2>3, ClosedStep
<1>4. CASE stream # {} /\ ~Trimmed(conn.cursor)
  <2>1. conn' = WithOldest(conn, First(stream).id) /\ Same
    BY <1>4 DEF CheckCursor, WithOldest, Same
  <2>2. First(stream).id \in 0..MaxId
    <3>1. stream \subseteq Logged
      <4>1. \A i \in Held : i \in 1..Len(log)
        BY RunStreamAssumption DEF Held, IInv, StreamInv, RunTypes, LogOrder
      <4>2. QED
        BY <4>1 DEF stream, Logged
    <3>2. Ordered(stream)
      BY <3>1, LoggedOrdered, OrderedIds, RunStreamAssumption DEF IInv, StreamInv
    <3>3. First(stream) \in stream
      BY <3>2, <1>4, FirstIsLeast, RunStreamAssumption
    <3>4. First(stream).id \in 1..MaxId
      BY <3>2, <3>3, OrderedIds, RunStreamAssumption
    <3>5. QED
      BY <3>4, RunStreamAssumption
  <2>3. First(stream).id <= conn.cursor
    <3>1. ~ (conn.cursor < First(stream).id) /\ conn.cursor \in Nat
      BY <1>1, <1>4, StreamSame DEF Trimmed
    <3>2. First(stream).id \in Nat
      BY <2>2, RunStreamAssumption
    <3>3. QED
      BY <3>1, <3>2
  <2>4. PICK v : v = First(stream).id
    OBVIOUS
  <2>5. QED
    BY <1>1, <2>1, <2>2, <2>3, <2>4, OldestStep
<1>5. QED
  BY <1>2, <1>3, <1>4

LEMMA ReadPageStep ==
  ASSUME IInv, ReadPage
  PROVE  IInv'
<1>1. PICK r : r = PageAfter(conn.cursor, conn.epoch)
  OBVIOUS
<1>2. /\ UNCHANGED streamVars /\ excused \subseteq excused' /\ Apply(r)
      /\ conn.kind \in {"preflight", "following"} /\ wire = {}
      /\ conn.cursor = NoCursor \/ conn.oldest # 0
      /\ excused' = IF conn.oldest \in 1..conn.cursor /\ conn.cursor < gone
                    THEN excused \cup {"overtaken"} ELSE excused
  BY <1>1 DEF ReadPage, MayRead
<1>3. CASE r = StreamMissing
  BY <1>2, <1>3, MissingStep
<1>4. CASE r # StreamMissing
  <2>1. /\ PageFacts(r) /\ r.status \in {"empty", "events", "attempt_advanced", "attempt_absent"}
        /\ r.status # "events" => r.events = {}
    BY <1>1, <1>4, ReadFacts
  <2>2. r.cursor \in 0..MaxId
    <3>1. r.cursor \in conn.cursor..Len(log)
      BY <2>1 DEF PageFacts
    <3>2. conn.cursor \in Nat /\ Len(log) \in Nat /\ Len(log) <= MaxId /\ MaxId \in Nat
      BY <1>2, StreamSame
    <3>3. QED
      BY <3>1, <3>2
  <2>3. /\ At(r) \in Conns /\ At(r).kind = conn.kind /\ At(r).epoch = conn.epoch
        /\ At(r).cursor = r.cursor /\ At(r).oldest = 0
    BY <2>2, AtIs
  <2>4. ASSUME NEW c, c = At(r), Goes(c, r.events), Follows(r, conn.epoch) = conn.epoch
        PROVE  IInv'
    <3>1. c \in Conns /\ c.kind \in {conn.kind, "none"} /\ c.kind # "none"
      BY <2>3, <2>4, <1>2
    <3>2. /\ UNCHANGED <<lastEventId, shown, upsets>> /\ wire' = r.events
          /\ conn'.cursor = r.cursor /\ conn'.epoch = conn.epoch /\ conn'.oldest = 0
          /\ conn'.kind = "following"
          /\ ConnParts' => IInv'
      BY <1>2, <2>3, <2>4, <3>1, GoesStep
    <3>3. ReadStep
      BY <1>2, <3>2 DEF ReadStep
    <3>4. ConnParts'
      BY <2>1, <2>4, <3>2, <3>3, ConnReads
    <3>5. QED
      BY <3>2, <3>4
  <2>5. CASE r.status \in {"empty", "attempt_absent"}
    <3>1. Goes(At(r), r.events)
      BY <1>2, <2>1, <2>5, ApplyIs
    <3>2. Follows(r, conn.epoch) = conn.epoch
      BY <2>5 DEF Follows
    <3>3. QED
      BY <3>1, <3>2, <2>4
  <2>6. CASE r.status = "attempt_advanced"
    <3>1. PICK c : c = At(r)
      OBVIOUS
    <3>2. conn' = WithConnEpoch(c, r.epoch) /\ Same
      BY <1>2, <2>6, <3>1, ApplyIs
    <3>3. r.epoch = Follows(r, conn.epoch) /\ r.epoch \in 0..MaxEpoch
      <4>1. r.epoch = Follows(r, conn.epoch)
        BY <2>6 DEF Follows
      <4>2. Follows(r, conn.epoch) \in conn.epoch..MaxEpoch
        BY <2>1 DEF PageFacts
      <4>3. conn.epoch \in Nat /\ MaxEpoch \in Nat
        BY <1>2, StreamSame, RunStreamAssumption
      <4>4. QED
        BY <4>1, <4>2, <4>3
    <3>4. /\ conn' \in Conns /\ conn'.kind = conn.kind /\ conn'.epoch = r.epoch
          /\ conn'.cursor = r.cursor /\ conn'.oldest = 0
      <4>1. c \in Conns /\ c.kind = conn.kind /\ c.cursor = r.cursor /\ c.oldest = 0
        BY <2>3, <3>1
      <4>2. PICK e : e = r.epoch
        OBVIOUS
      <4>3. e \in 0..MaxEpoch /\ conn' = WithConnEpoch(c, e)
        BY <3>2, <3>3, <4>2
      <4>4. QED
        BY <4>1, <4>2, <4>3, SetConnEpoch
    <3>5. ReadStep /\ wire' = r.events
      BY <1>2, <2>1, <2>6, <3>2 DEF ReadStep, Same
    <3>6. ConnParts'
      BY <1>2, <2>1, <3>3, <3>4, <3>5, ConnReads
    <3>7. source # "none" /\ (source # "open" => conn.kind = "preflight")
      BY <1>2 DEF IInv, PageInv
    <3>8. QED
      BY <1>2, <3>2, <3>4, <3>6, <3>7, ConnStep DEF Same
  <2>7. CASE r.status = "events"
    <3> DEFINE frames == UpToTerminal(r.events)
    <3>1. Follows(r, conn.epoch) = conn.epoch
      BY <2>7 DEF Follows
    <3>2. CASE HasTerminal(frames)
      <4>1. Goes(NoConn, frames)
        BY <1>2, <2>7, <3>2, ApplyIs
      <4>2. /\ UNCHANGED <<lastEventId, shown, upsets>> /\ wire' = frames /\ conn' = NoConn
            /\ ConnParts' => IInv'
        BY <1>2, <4>1, NoConnIs, GoesStep
      <4>3. ReadStep
        BY <1>2, <4>2 DEF ReadStep
      <4>4. ConnParts'
        BY <2>1, <4>2, <4>3, ConnEnds
      <4>5. QED
        BY <4>2, <4>4
    <3>3. CASE ~HasTerminal(frames)
      <4>1. Goes(At(r), frames)
        BY <1>2, <2>7, <3>3, ApplyIs
      <4>2. frames = r.events
        <5> DEFINE T == {y \in r.events : y.type = "terminal"}
        <5>1. T = {}
          <6>1. SUFFICES ASSUME T # {} PROVE FALSE
            OBVIOUS
          <6>2. T \subseteq r.events /\ r.events \subseteq Logged
            BY <2>1 DEF PageFacts
          <6>3. Ordered(T)
            BY <6>2, LoggedOrdered, OrderedIds, RunStreamAssumption DEF IInv, StreamInv
          <6> HIDE DEF T
          <6>4. First(T) \in T /\ \A y \in T : First(T).id <= y.id
            BY <6>1, <6>3, FirstIsLeast, RunStreamAssumption
          <6>5. First(T) \in frames /\ First(T).type = "terminal"
            BY <6>4 DEF T, UpToTerminal
          <6>6. QED
            BY <6>5, <3>3 DEF HasTerminal
        <5>2. QED
          BY <5>1 DEF UpToTerminal
      <4>3. QED
        BY <4>1, <4>2, <3>1, <2>4
    <3>4. QED
      BY <3>2, <3>3
  <2>8. QED
    BY <2>1, <2>5, <2>6, <2>7
<1>5. QED
  BY <1>3, <1>4

-----------------------------------------------------------------------------
(* A frame is dispatched                                                   *)

LEMMA NextFrame ==
  ASSUME IInv, source = "open", wire # {}, NEW x, x = First(wire)
  PROVE  /\ x \in wire /\ x \in Entries /\ x.id \in 1..Len(log) /\ log[x.id] = x
         /\ \A y \in wire : /\ y.id \in 1..Len(log) /\ y.id \in Nat /\ x.id <= y.id /\ log[y.id] = y
                            /\ y # x => x.id < y.id
                            /\ y.epoch = x.epoch
         /\ IsDelta(x) => x.gen # 0 /\ x.n # 0
         /\ x.type = "terminal" => EndsWith(x.status)
         /\ shown.epoch <= x.epoch /\ x.epoch <= run.epoch /\ x.epoch \in Nat
         /\ conn.kind # "none" => x.id <= conn.cursor /\ x.epoch = conn.epoch
         /\ conn.kind # "queued"
         /\ shown.terminal = "none" /\ page.poll = NoAnswer
<1>1. Ordered(wire) /\ \A y \in wire : y \in Entries /\ y.id \in 1..Len(log) /\ log[y.id] = y
  BY LoggedOrdered, OrderedIds, RunStreamAssumption DEF IInv, WireInv, StreamInv, Ordered
<1>2. x \in wire /\ \A y \in wire : x.id <= y.id
  BY <1>1, FirstIsLeast, RunStreamAssumption
<1>3. \A y \in wire : y.id \in Nat /\ (y # x => x.id < y.id)
  BY <1>1, <1>2 DEF Ordered
<1>4. /\ IsDelta(x) => x.gen # 0 /\ x.n # 0
      /\ x.type = "terminal" => EndsWith(x.status)
      /\ x.epoch <= run.epoch
  <2>1. x.id \in 1..Len(log) /\ log[x.id] = x
    BY <1>1, <1>2
  <2>2. QED
    BY <2>1 DEF IInv, StreamInv, LogInv, EndInv
<1>5. x.epoch \in Nat
  BY <1>1, <1>2, RunStreamAssumption DEF Entries, Epochs
<1>6. shown.terminal = "none" /\ page.poll = NoAnswer
  BY ModesOf
<1>7. /\ \A y \in wire : y.epoch = x.epoch
      /\ shown.epoch <= x.epoch
      /\ conn.kind # "none" => x.id <= conn.cursor /\ x.epoch = conn.epoch
      /\ conn.kind # "queued"
  BY <1>2 DEF IInv, WireInv
<1>8. QED
  BY <1>1, <1>2, <1>3, <1>4, <1>5, <1>6, <1>7

(* The frames behind it remain.                                            *)
LEMMA ConnDispatches ==
  ASSUME IInv, UNCHANGED streamVars, source = "open", wire # {}, NEW x, x = First(wire),
         wire' = wire \ {x}, conn' = conn, lastEventId' = x.id, excused' = excused,
         shown'.terminal = "none",
         \/ x.id <= shown.last /\ shown' = shown
         \/ shown.last < x.id /\ shown'.last = x.id /\ shown'.epoch = x.epoch
  PROVE  ConnParts'
<1>1. /\ log' = log /\ gone' = gone /\ run' = run /\ Logged' = Logged
      /\ Len(log) \in Nat /\ gone \in Nat /\ shown.last \in Nat /\ shown.epoch \in Nat
      /\ conn.cursor \in Nat /\ conn.epoch \in Nat /\ run.epoch \in Nat
      /\ Len(log) <= MaxId /\ MaxId \in Nat
  BY StreamSame
<1>2. /\ x \in wire /\ x.id \in 1..Len(log) /\ log[x.id] = x
      /\ \A y \in wire : /\ y.id \in 1..Len(log) /\ y.id \in Nat /\ x.id <= y.id /\ log[y.id] = y
                         /\ y # x => x.id < y.id
                         /\ y.epoch = x.epoch
      /\ shown.epoch <= x.epoch /\ x.epoch <= run.epoch /\ x.epoch \in Nat
      /\ conn.kind # "none" => x.id <= conn.cursor /\ x.epoch = conn.epoch
      /\ conn.kind # "queued"
  BY NextFrame
<1>3. Cardinality(wire') <= PageSize
  <2>1. Cardinality(wire) <= PageSize /\ IsFiniteSet(wire)
    <3>1. Ordered(wire)
      BY LoggedOrdered, OrderedIds, RunStreamAssumption DEF IInv, WireInv, StreamInv
    <3>2. QED
      BY <3>1, OrderedIsFinite, RunStreamAssumption DEF IInv, WireInv
  <2>2. IsFiniteSet(wire') /\ Cardinality(wire') <= Cardinality(wire)
    BY <2>1, FS_Subset
  <2>3. Cardinality(wire') \in Nat /\ Cardinality(wire) \in Nat /\ PageSize \in Nat
    BY <2>1, <2>2, FS_CardinalityType, PageAssumption
  <2>4. QED
    BY <2>1, <2>2, <2>3
<1>4. /\ shown'.last \in Nat /\ x.id <= shown'.last /\ shown.last <= shown'.last
      /\ shown'.last <= Len(log) /\ shown'.epoch <= run.epoch /\ shown'.epoch <= x.epoch
  BY <1>1, <1>2 DEF IInv, WireInv
<1>5. WireInv'
  BY <1>1, <1>2, <1>3, <1>4 DEF IInv, WireInv
<1>6. SkipInv'
  <2>1. ASSUME NEW i \in gone + 1 .. conn.cursor, Sent(i), conn.kind # "none"
        PROVE  i <= shown'.last \/ log[i] \in wire'
    <3>1. CASE i <= shown.last
      BY <3>1, <1>1, <1>4
    <3>2. CASE log[i] \in wire /\ log[i] # x
      BY <3>2
    <3>3. CASE log[i] = x
      <4>1. i \in 1..Len(log)
        <5>1. conn.cursor <= Len(log)
          BY DEF IInv, WireInv
        <5>2. QED
          BY <5>1, <1>1
      <4>2. log[i].id = i
        BY <4>1 DEF IInv, StreamInv, LogOrder
      <4>3. QED
        BY <4>2, <3>3, <1>4
    <3>4. QED
      BY <2>1, <3>1, <3>2, <3>3 DEF Sent
  <2>2. QED
    BY <1>1, <2>1 DEF IInv, SkipInv, Sent
<1>7. ResumeInv'
  <2>1. SUFFICES ASSUME excused = {} PROVE ResumeInv'
    BY DEF ResumeInv
  <2>2. shown.last < x.id
    BY <1>2, <2>1 DEF IInv, ResumeInv
  <2>3. shown'.last = x.id
    BY <1>1, <1>2, <2>2
  <2>4. \A y \in wire' : shown'.last < y.id
    BY <1>2, <2>3
  <2>5. ASSUME NEW i \in 1..Len(log), x.id < i, log[i] \in wire
        PROVE  log[i] \in wire'
    <3>1. log[i].id = i
      BY DEF IInv, StreamInv, LogOrder
    <3>2. log[i] # x
      BY <3>1, <2>5, <1>2
    <3>3. QED
      BY <2>5, <3>2
  <2>6. ASSUME NEW i \in 1..MaxId, x.id < i PROVE Behind(i) /\ shown.last < i
    BY <1>1, <1>2, <2>2, <2>6 DEF Behind
  <2>7. ASSUME NEW y \in wire', NEW i \in 1..MaxId, x.id < i, i < y.id, log[i].epoch = y.epoch
        PROVE  log[i] \in wire'
    <3>1. log[i] \in wire
      BY <2>1, <2>6, <2>7 DEF IInv, ResumeInv
    <3>2. i \in 1..Len(log)
      BY <2>7, <1>1, <1>2
    <3>3. QED
      BY <3>1, <3>2, <2>5, <2>7
  <2>8. ASSUME conn.kind # "none", NEW i \in 1..conn.cursor, x.id < i, log[i].epoch >= conn.epoch
        PROVE  log[i] \in wire'
    <3>1. i \in 1..MaxId /\ i \in 1..Len(log)
      <4>1. conn.cursor <= Len(log)
        BY DEF IInv, WireInv
      <4>2. QED
        BY <4>1, <1>1
    <3>2. log[i] \in wire
      BY <2>1, <2>6, <2>8, <3>1 DEF IInv, ResumeInv
    <3>3. QED
      BY <3>1, <3>2, <2>5, <2>8
  <2>9. conn.kind # "none" => shown'.last <= conn.cursor
    BY <1>2, <2>3
  <2>10. QED
    BY <1>1, <2>3, <2>4, <2>7, <2>8, <2>9 DEF ResumeInv
<1>8. QED
  BY <1>5, <1>6, <1>7 DEF ConnParts

LEMMA DispatchStep ==
  ASSUME IInv, Dispatch
  PROVE  IInv'
<1>1. PICK x : x = First(wire)
  OBVIOUS
<1>2. PICK s : s = Reduce(shown, x)
  OBVIOUS
<1>3. /\ UNCHANGED streamVars /\ source = "open" /\ wire # {} /\ lastEventId' = x.id
      /\ upsets' = upsets /\ excused' = excused
  BY <1>1 DEF Dispatch
<1>4. /\ StreamInv' /\ log' = log /\ run' = run /\ Len(log) \in Nat /\ Len(log) <= MaxId
      /\ MaxId \in Nat /\ shown.last \in Nat
  BY <1>3, StreamSame
<1>5. /\ x \in Entries /\ x.id \in 1..Len(log)
      /\ IsDelta(x) => x.gen # 0 /\ x.n # 0
      /\ x.type = "terminal" => EndsWith(x.status)
      /\ shown.epoch <= x.epoch /\ x.epoch <= run.epoch
      /\ shown.terminal = "none" /\ page.poll = NoAnswer
  BY <1>1, <1>3, NextFrame
<1>6. shown \in States /\ Silent(shown)
  BY DEF IInv, PageType, DraftInv, Silent
<1>7. \/ x.id <= shown.last /\ s = shown
      \/ /\ shown.last < x.id /\ s \in States /\ s.last = x.id /\ s.epoch = x.epoch /\ Silent(s)
         /\ s.terminal = IF x.type = "terminal" THEN x.status ELSE "none"
         /\ Folded(shown, s, x)
  <2>1. x.type = "terminal" => x.status \in Finished
    BY <1>5 DEF EndsWith
  <2>2. QED
    BY <1>2, <1>5, <1>6, <2>1, ReduceEffect
<1>8. x.id \in 0..MaxId
  BY <1>4, <1>5
<1>9. CASE s.terminal # shown.terminal
  <2>1. /\ source' = "none" /\ conn' = NoConn /\ wire' = {} /\ Concluded(s, s.terminal)
    BY <1>1, <1>2, <1>9 DEF Dispatch, CloseSource
  <2>2. PICK status : status = s.terminal
    OBVIOUS
  <2>3. /\ shown.last < x.id /\ s \in States /\ s.last = x.id /\ s.epoch = x.epoch /\ Silent(s)
        /\ Folded(shown, s, x) /\ x.type = "terminal" /\ status = x.status
        /\ status \in Finished /\ status # "none" /\ EndsWith(status)
    <3>1. x.type = "terminal" /\ s.terminal = x.status
      BY <1>5, <1>7, <1>9
    <3>2. EndsWith(x.status) /\ x.status \in Finished
      BY <3>1, <1>5 DEF EndsWith
    <3>3. QED
      BY <1>5, <1>7, <1>9, <2>2, <3>1, <3>2, PollTypes
  <2>4. shown' = EndedBy(s, status)
    BY <2>1, <2>2 DEF Concluded, EndedBy
  <2>5. /\ shown' \in States /\ shown'.last = x.id /\ shown'.epoch = x.epoch
        /\ shown'.gen = s.gen /\ shown'.terminal = status
        /\ shown'.draft = <<>> \/ (shown'.draft = s.draft /\ shown'.suppressed = s.suppressed)
    BY <2>3, <2>4, ConcludeEffect
  <2>6. page' \in Pages /\ page'.mode \in {"finalizing", "terminal"} /\ page'.poll = NoAnswer
    BY <2>1, <2>2, <2>3, ConcludedPage DEF Concluded
  <2>7. PageType'
    BY <1>3, <1>8, <2>1, <2>5, <2>6, NoConnIs DEF IInv, PageType
  <2>8. PageInv'
    BY <1>4, <2>1, <2>3, <2>5, <2>6, NoConnIs, PollTypes DEF PageInv, EndsWith
  <2>9. ConnParts'
    <3>1. /\ lastEventId' <= shown'.last /\ shown'.last <= Len(log) /\ shown'.epoch <= run.epoch
          /\ conn'.kind = "none" /\ conn'.cursor <= Len(log) /\ conn'.oldest <= conn'.cursor
      BY <1>3, <1>4, <1>5, <2>1, <2>5, NoConnIs
    <3>2. QED
      BY <1>3, <2>1, <2>3, <2>5, <3>1, ConnGone
  <2>10. DraftInv' /\ DraftWhole'
    <3>1. Folded(shown, shown', x)
      BY <2>3, <2>5 DEF Folded
    <3>2. Silent(shown')
      BY <2>3, <2>5 DEF Silent
    <3>3. QED
      BY <1>1, <1>3, <1>4, <2>3, <2>5, <3>1, <3>2, DraftFolded
  <2>11. QED
    BY <1>4, <2>7, <2>8, <2>9, <2>10 DEF IInv, ConnParts
<1>10. CASE s.terminal = shown.terminal
  <2>1. wire' = wire \ {x} /\ shown' = s /\ UNCHANGED <<conn, source, page>>
    BY <1>1, <1>2, <1>10 DEF Dispatch
  <2>2. shown' \in States /\ shown'.terminal = "none"
    BY <1>5, <1>6, <1>7, <1>10, <2>1
  <2>3. PageType'
    BY <1>3, <1>8, <2>1, <2>2 DEF IInv, PageType
  <2>4. PageInv'
    BY <1>3, <1>4, <1>5, <2>1, <2>2, PollTypes DEF IInv, PageInv
  <2>5. ConnParts'
    BY <1>1, <1>3, <1>7, <2>1, <2>2, ConnDispatches
  <2>6. DraftInv' /\ DraftWhole'
    <3>1. CASE x.id <= shown.last /\ s = shown
      BY <1>3, <1>4, <1>6, <2>1, <3>1, DraftKept
    <3>2. CASE ~ (x.id <= shown.last /\ s = shown)
      BY <1>1, <1>3, <1>4, <1>7, <2>1, <2>2, <3>2, DraftFolded
    <3>3. QED
      BY <3>1, <3>2
  <2>7. QED
    BY <1>4, <2>3, <2>4, <2>5, <2>6 DEF IInv, ConnParts
<1>11. QED
  BY <1>9, <1>10

-----------------------------------------------------------------------------
(* The invariant and the theorems                                          *)

LEMMA InitInv ==
  ASSUME Init
  PROVE  IInv
<1>1. /\ StreamInv /\ Len(log) = 0 /\ gone = 0 /\ run.epoch = 0
  BY StreamInvInit DEF Init, RunInit
<1>2. /\ conn = NoConn /\ wire = {} /\ source = "connecting" /\ lastEventId = 0
      /\ page = [mode |-> "connecting", hidden |-> FALSE, poll |-> NoAnswer]
      /\ shown = NothingShown /\ upsets = 0 /\ excused = {}
  BY DEF Init, NoCursor
<1>3. /\ shown \in States /\ shown.last = 0 /\ shown.epoch = 0 /\ shown.draft = <<>>
      /\ shown.terminal = "none"
  BY <1>2, RunStreamAssumption DEF NothingShown, States
<1>4. page \in Pages /\ page.mode = "connecting" /\ page.poll = NoAnswer
  BY <1>2, PollTypes DEF Pages, Modes
<1>5. PageType
  BY <1>2, <1>3, <1>4, NoConnIs, RunStreamAssumption, UpsetsAssumption DEF PageType
<1>6. PageInv
  BY <1>2, <1>3, <1>4, NoConnIs, PollTypes DEF PageInv
<1>7. WireInv
  <2>1. Cardinality({}) <= PageSize
    BY FS_EmptySet, PageAssumption
  <2>2. QED
    BY <1>1, <1>2, <1>3, <2>1, NoConnIs DEF WireInv
<1>8. SkipInv /\ ResumeInv
  BY <1>2, <1>3, NoConnIs DEF SkipInv, ResumeInv
<1>9. DraftInv /\ DraftWhole
  BY <1>3 DEF DraftInv, DraftWhole
<1>10. QED
  BY <1>1, <1>5, <1>6, <1>7, <1>8, <1>9 DEF IInv

LEMMA NextInv ==
  ASSUME IInv, Next
  PROVE  IInv'
<1>1. CASE RowNext /\ UNCHANGED pageVars
  BY <1>1, RowNextStep, StepOfTheRun DEF IInv
<1>2. CASE StreamNext /\ UNCHANGED pageVars
  BY <1>2, StreamNextStep, StepOfTheRun DEF IInv
<1>3. CASE Server \/ MaxAge
  BY <1>3, ConnectStep, RecheckStep, CheckCursorStep, ReadPageStep, MaxAgeStep DEF Server
<1>4. CASE Page
  BY <1>4, DispatchStep, SeeEndStep, ShowStep, PollStep, PollAnsweredStep DEF Page
<1>5. CASE PollRead
  BY <1>5, PollStep
<1>6. CASE Upset
  BY <1>6, DropStep, ResubscribeStep, HideStep, PollStep, TurnedAwayStep, ReadFailsStep DEF Upset
<1>7. QED
  BY <1>1, <1>2, <1>3, <1>4, <1>5, <1>6 DEF Next

LEMMA StutterInv ==
  ASSUME IInv, UNCHANGED vars
  PROVE  IInv'
<1>1. StreamInv' /\ log' = log /\ gone' = gone /\ run' = run
  BY StreamSame DEF vars
<1>2. LogGrows
  <2>1. Len(log) \in Nat /\ Len(log) <= MaxId /\ MaxId \in Nat /\ gone \in Nat
    BY StreamSame DEF vars
  <2>2. QED
    BY <1>1, <2>1 DEF LogGrows
<1>3. RunMoves
  BY <1>1, SameRun DEF IInv, StreamInv
<1>4. QED
  BY <1>1, <1>2, <1>3, StepOfTheRun DEF vars

THEOREM LiveInvariant == Spec => []IInv
<1>1. Init => IInv
  BY InitInv
<1>2. IInv /\ [Next]_vars => IInv'
  BY NextInv, StutterInv
<1>3. QED
  BY <1>1, <1>2, PTL DEF Spec

(* The row, the stream, the connection and the page keep their types, the  *)
(* stream and the frames under way their bounds.                           *)
THEOREM LiveTypeOK == Spec => []TypeOK
<1>1. IInv => TypeOK
  <2>1. SUFFICES ASSUME IInv PROVE TypeOK
    OBVIOUS
  <2>2. wire \subseteq Entries /\ Cardinality(wire) <= PageSize
    BY <2>1, LoggedOrdered DEF IInv, WireInv, StreamInv, Ordered
  <2>3. page.mode \in Modes /\ page.hidden \in BOOLEAN
        /\ page.poll.status \in RunStatus \cup {"none", "waiting", "asked"}
    BY <2>1 DEF IInv, PageType, Pages, Polls
  <2>4. shown.draft \in Seq(Chunks) /\ shown.terminal \in Finished \cup {"none"}
    BY <2>1 DEF IInv, PageType, States
  <2>5. RunTypes /\ log \in Seq(Entries)
    BY <2>1 DEF IInv, StreamInv, LogOrder
  <2>6. /\ conn \in [kind : Kinds, epoch : 0..MaxEpoch, cursor : 0..MaxId, oldest : 0..MaxId]
        /\ source \in {"none", "connecting", "open"} /\ lastEventId \in 0..MaxId
        /\ upsets \in 0..MaxUpsets
    BY <2>1 DEF IInv, PageType, Conns
  <2>7. QED
    BY <2>2, <2>3, <2>4, <2>5, <2>6 DEF TypeOK, RunTypes
<1>2. QED
  BY <1>1, LiveInvariant, PTL

(* The draft is text of one generation of the attempt that is shown, each  *)
(* chunk once and in order.                                                *)
THEOREM DraftIsOneAnswerAlways == Spec => []DraftIsOneAnswer
<1>1. IInv => DraftIsOneAnswer
  <2>1. SUFFICES ASSUME IInv, NEW i \in 1..Len(shown.draft)
                 PROVE  /\ shown.draft[i].epoch = shown.epoch /\ shown.draft[i].gen = shown.gen
                        /\ i > 1 => shown.draft[i - 1].n < shown.draft[i].n
    BY DEF DraftIsOneAnswer
  <2>2. ASSUME i > 1 PROVE shown.draft[i - 1].n < shown.draft[i].n
    <3>1. Len(shown.draft) \in Nat
      BY <2>1, LenProperties DEF IInv, PageType, States
    <3>2. i - 1 \in 1..Len(shown.draft) /\ i - 1 < i
      BY <2>2, <3>1
    <3>3. QED
      BY <2>1, <3>2 DEF IInv, DraftInv
  <2>3. QED
    BY <2>1, <2>2 DEF IInv, DraftInv
<1>2. QED
  BY <1>1, LiveInvariant, PTL

(* Whatever the endpoint's cursor has passed, and is not of an older       *)
(* attempt, was sent or is on its way.                                     *)
THEOREM NothingSkippedEver == Spec => []NothingSkipped
<1>1. IInv => NothingSkipped
  BY DEF IInv, SkipInv, Sent, NothingSkipped
<1>2. QED
  BY <1>1, LiveInvariant, PTL

(* The page never shows an end that the row does not record.               *)
THEOREM ShownEndIsTheRunsEnd == Spec => []TerminalIsTheRunsEnd
<1>1. IInv => TerminalIsTheRunsEnd
  BY DEF IInv, PageInv, EndsWith, TerminalIsTheRunsEnd
<1>2. QED
  BY <1>1, LiveInvariant, PTL

(* A page that always comes back with its cursor, and is not overtaken by  *)
(* the trimming between the two commands of a read, shows no draft from    *)
(* which stored text is missing.                                           *)
THEOREM ResumedDraftIsAlwaysWhole == Spec => []ResumedDraftIsWhole
<1>1. IInv => ResumedDraftIsWhole
  <2>1. SUFFICES ASSUME IInv, excused = {}, NEW k \in 2..Len(shown.draft),
                        NEW j \in 1..Len(log), IsDelta(log[j]),
                        log[j].epoch = shown.draft[k - 1].epoch,
                        log[j].gen = shown.draft[k - 1].gen,
                        shown.draft[k - 1].n < log[j].n, log[j].n < shown.draft[k].n
                 PROVE  FALSE
    BY DEF ResumedDraftIsWhole, DraftHasNoGap, Missing, IsDelta
  <2>2. shown.draft \in Seq(Chunks) /\ Len(shown.draft) \in Nat /\ shown.last \in Nat
        /\ Len(log) \in Nat /\ shown.last <= Len(log)
    <3>1. shown.draft \in Seq(Chunks) /\ shown.last \in Nat /\ shown.last <= Len(log)
      BY <2>1 DEF IInv, PageType, States, WireInv
    <3>2. Len(log) \in Nat
      BY <2>1 DEF IInv, StreamInv, LogOrder
    <3>3. QED
      BY <3>1, <3>2, LenProperties
  <2>3. \A m \in 1..Len(shown.draft) : shown.draft[m].n \in Nat
    <3>1. \A m \in 1..Len(shown.draft) : shown.draft[m] \in Chunks
      BY <2>2
    <3>2. QED
      BY <3>1, RunStreamAssumption DEF Chunks
  <2>4. log[j].n \in Nat
    <3>1. log[j] \in Entries
      BY <2>1 DEF IInv, StreamInv, LogOrder
    <3>2. QED
      BY <3>1, RunStreamAssumption DEF Entries
  <2>5. k \in 1..Len(shown.draft) /\ k - 1 \in 1..Len(shown.draft) /\ 1 \in 1..Len(shown.draft)
    BY <2>1, <2>2
  <2>6. IsText(j, shown)
    BY <2>1, <2>5 DEF IInv, DraftInv, IsText
  <2>7. PICK p \in 1..shown.last : IsText(p, shown) /\ log[p].n = shown.draft[k].n
    BY <2>1, <2>5 DEF IInv, DraftInv
  <2>8. j < p
    <3>1. p \in 1..Len(log)
      BY <2>2
    <3>2. p < j => log[p].n < log[j].n
      BY <2>1, <2>6, <2>7, <3>1, TextOrder DEF IInv, IsText
    <3>3. p # j
      BY <2>1, <2>3, <2>4, <2>5, <2>7
    <3>4. ~ (p < j)
      BY <2>1, <2>3, <2>4, <2>5, <2>7, <3>2
    <3>5. QED
      BY <2>1, <3>1, <3>3, <3>4, <2>2
  <2>9. \A m, n \in 1..Len(shown.draft) : m <= n => shown.draft[m].n <= shown.draft[n].n
    <3>1. ASSUME NEW m \in 1..Len(shown.draft), NEW n \in 1..Len(shown.draft), m <= n
          PROVE  shown.draft[m].n <= shown.draft[n].n
      <4>1. CASE m = n
        BY <4>1, <2>3
      <4>2. CASE m < n
        <5>1. shown.draft[m].n < shown.draft[n].n
          BY <2>1, <4>2 DEF IInv, DraftInv
        <5>2. QED
          BY <5>1, <2>3
      <4>3. QED
        BY <3>1, <4>1, <4>2, <2>2
    <3>2. QED
      BY <3>1
  <2>10. shown.draft[1].n <= log[j].n
    <3>1. shown.draft[1].n <= shown.draft[k - 1].n
      BY <2>5, <2>9
    <3>2. shown.draft[k - 1].n < log[j].n
      BY <2>1
    <3>3. shown.draft[1].n \in Nat /\ shown.draft[k - 1].n \in Nat
      BY <2>3, <2>5
    <3>4. QED
      BY <3>1, <3>2, <3>3, <2>4
  <2>11. j \in 1..shown.last /\ shown.draft # <<>>
    <3>1. j \in 1..shown.last
      BY <2>1, <2>2, <2>8
    <3>2. shown.draft # <<>>
      BY <2>2, <2>5
    <3>3. QED
      BY <3>1, <3>2
  <2>12. PICK m \in 1..Len(shown.draft) : shown.draft[m].n = log[j].n
    BY <2>1, <2>6, <2>10, <2>11 DEF IInv, DraftWhole
  <2>13. CASE m <= k - 1
    <3>1. shown.draft[m].n <= shown.draft[k - 1].n
      BY <2>5, <2>9, <2>13
    <3>2. log[j].n <= shown.draft[k - 1].n
      BY <2>12, <3>1
    <3>3. shown.draft[k - 1].n \in Nat /\ shown.draft[k - 1].n < log[j].n
      BY <2>1, <2>3, <2>5
    <3>4. QED
      BY <2>4, <3>2, <3>3
  <2>14. CASE k <= m
    <3>1. shown.draft[k].n <= shown.draft[m].n
      BY <2>5, <2>9, <2>14
    <3>2. shown.draft[k].n <= log[j].n
      BY <2>12, <3>1
    <3>3. shown.draft[k].n \in Nat /\ log[j].n < shown.draft[k].n
      BY <2>1, <2>3, <2>5
    <3>4. QED
      BY <2>4, <3>2, <3>3
  <2>15. QED
    BY <2>2, <2>13, <2>14
<1>2. QED
  BY <1>1, LiveInvariant, PTL
-----------------------------------------------------------------------------
(* What goes forward only                                                  *)

(* What is stored stays as it is, and what is cut stays cut.               *)
StreamGrows == [][LogGrows]_vars

(* The state the page shows never goes back: to an earlier event, to an    *)
(* older attempt or answer generation, from an end to another or to none;  *)
(* and an EventSource that is closed is not opened again.                  *)
ShownMoves(q, r) ==
  /\ q.last <= r.last /\ q.epoch <= r.epoch
  /\ r.epoch = q.epoch => q.gen <= r.gen
  /\ q.terminal # "none" => r.terminal = q.terminal
PageMoves ==
  /\ ShownMoves(shown, shown')
  /\ Settled => Settled'
  /\ source = "none" => source' = "none"
PageMovesForward == [][PageMoves]_vars

(* Until the page knows how its run ended, it has an EventSource, or polls *)
(* as long as it is visible; after that it has neither, nor a connection.  *)
AskInv ==
  /\ ~Settled /\ page.mode # "polling-only" => source # "none"
  /\ page.mode = "polling-only" => (page.poll = NoAnswer <=> page.hidden)
PageKeepsAsking ==
  IF Settled THEN source = "none" /\ conn.kind = "none" /\ wire = {} /\ page.poll = NoAnswer
  ELSE \/ source # "none" /\ page.poll = NoAnswer
       \/ /\ source = "none" /\ page.mode = "polling-only"
          /\ page.poll = NoAnswer <=> page.hidden

LEMMA ShownStays ==
  ASSUME NEW q \in States, NEW r, r.last = q.last, r.epoch = q.epoch, r.gen = q.gen,
         q.terminal \in {r.terminal, "none"}
  PROVE  ShownMoves(q, r)
<1>1. q.last \in Nat /\ q.epoch \in Nat /\ q.gen \in Nat
  BY RunStreamAssumption DEF States
<1>2. QED
  BY <1>1 DEF ShownMoves

LEMMA PageSame ==
  ASSUME IInv, AskInv, UNCHANGED <<page, source, shown>>
  PROVE  PageMoves /\ AskInv'
<1>1. ShownMoves(shown, shown')
  BY ShownStays, ModesOf
<1>2. QED
  BY <1>1 DEF PageMoves, AskInv, Settled, Knows

(* The page and its EventSource keep on, and only how it waits changes.    *)
LEMMA PageWaits ==
  ASSUME IInv, AskInv, UNCHANGED shown,
         ~Settled', page'.mode = page.mode \/ source' # "none",
         source = "none" => source' = "none",
         ~Settled' /\ page'.mode # "polling-only" => source' # "none",
         page'.mode = "polling-only" => (page'.poll = NoAnswer <=> page'.hidden),
         ~Settled
  PROVE  PageMoves /\ AskInv'
<1>1. ShownMoves(shown, shown')
  BY ShownStays, ModesOf
<1>2. QED
  BY <1>1 DEF PageMoves, AskInv

LEMMA RefuseMoves ==
  ASSUME IInv, AskInv, source # "none", Refuse
  PROVE  PageMoves /\ AskInv'
<1>1. /\ source' = "none" /\ page' = Turned(page, "polling-only", PollNow(page))
      /\ shown' = Suppress(shown)
  BY DEF Refuse, Degrade, CloseSource, Turned
<1>2. page'.mode = "polling-only" /\ page'.poll = PollNow(page) /\ page'.hidden = page.hidden
  <2>1. PollNow(page) \in Polls /\ "polling-only" \in Modes
    BY PollTypes DEF PollNow, Modes
  <2>2. QED
    BY <1>1, <2>1, ModesOf, SetModeAndPoll
<1>3. ShownMoves(shown, shown')
  BY <1>1, SuppressEffect, ShownStays, ModesOf
<1>4. ~Settled
  BY ModesOf DEF Settled, Knows
<1>5. page'.poll = NoAnswer <=> page'.hidden
  <2>1. Asked # NoAnswer
    BY PollTypes
  <2>2. page.hidden \in BOOLEAN
    BY ModesOf DEF Pages
  <2>3. QED
    BY <1>2, <2>1, <2>2 DEF PollNow
<1>6. QED
  BY <1>1, <1>2, <1>3, <1>4, <1>5 DEF PageMoves, AskInv, Settled, Knows

LEMMA OpenedMoves ==
  ASSUME IInv, AskInv, source # "none", NEW c, NEW frames, Opened(c, frames)
  PROVE  PageMoves /\ AskInv'
<1>1. source' = "open" /\ page' = WithMode(page, "live") /\ UNCHANGED shown
  BY DEF Opened, WithMode
<1>2. page'.mode = "live"
  BY <1>1, ModesOf, SetMode DEF Modes
<1>3. ShownMoves(shown, shown')
  BY <1>1, ShownStays, ModesOf
<1>4. ~Settled
  BY ModesOf DEF Settled, Knows
<1>5. QED
  BY <1>1, <1>2, <1>3, <1>4 DEF PageMoves, AskInv

(* The end is accepted, from the row or from a frame.                      *)
LEMMA ConcludedMoves ==
  ASSUME IInv, AskInv, NEW s \in States, NEW status \in Finished, Concluded(s, status),
         source' = "none", ShownMoves(shown, s), shown.terminal = "none"
  PROVE  PageMoves /\ AskInv'
<1>1. page'.mode \in {"finalizing", "terminal"}
  BY ConcludedPage DEF Concluded
<1>2. shown' = EndedBy(s, status)
  BY DEF Concluded, EndedBy
<1>3. shown'.last = s.last /\ shown'.epoch = s.epoch /\ shown'.gen = s.gen
  BY <1>2, ConcludeEffect
<1>4. ShownMoves(shown, shown')
  BY <1>3 DEF ShownMoves
<1>5. QED
  BY <1>1, <1>4 DEF PageMoves, AskInv, Settled, Knows

LEMMA ApplyMoves ==
  ASSUME IInv, AskInv, conn.kind \in {"preflight", "following"}, NEW r, Apply(r),
         r.status \in {"unavailable", "cursor_trimmed", "stream_missing", "attempt_advanced",
                       "empty", "attempt_absent", "events"}
  PROVE  PageMoves /\ AskInv'
<1>1. source # "none"
  BY DEF IInv, PageInv
<1>2. CASE Closed
  <2>1. CASE Refuse
    BY <1>1, <2>1, RefuseMoves
  <2>2. CASE Same
    BY <2>2, PageSame DEF Same
  <2>3. QED
    BY <1>2, <2>1, <2>2 DEF Closed
<1>3. CASE Same
  BY <1>3, PageSame DEF Same
<1>4. ASSUME NEW c, NEW frames, Goes(c, frames)
      PROVE  PageMoves /\ AskInv'
  <2>1. CASE conn.kind = "preflight"
    BY <1>1, <1>4, <2>1, OpenedMoves DEF Goes
  <2>2. CASE conn.kind # "preflight"
    BY <1>4, <2>2, PageSame DEF Goes
  <2>3. QED
    BY <2>1, <2>2
<1>5. CASE r.status \in {"unavailable", "cursor_trimmed"}
  BY <1>2, <1>5, ApplyIs
<1>6. CASE r.status = "stream_missing"
  BY <1>2, <1>3, <1>6, ApplyIs
<1>7. CASE r.status = "attempt_advanced"
  BY <1>3, <1>7, ApplyIs
<1>8. CASE r.status \in {"empty", "attempt_absent"}
  <2>1. Goes(At(r), {})
    BY <1>8, ApplyIs
  <2>2. QED
    BY <1>4, <2>1
<1>9. CASE r.status = "events"
  <2>1. \E c : Goes(c, UpToTerminal(r.events))
    BY <1>9, ApplyIs
  <2>2. QED
    BY <1>4, <2>1
<1>10. QED
  BY <1>5, <1>6, <1>7, <1>8, <1>9

LEMMA ServerMoves ==
  ASSUME IInv, AskInv, Server \/ MaxAge \/ TurnedAway \/ ReadFails
  PROVE  PageMoves /\ AskInv'
<1>1. CASE Connect
  <2>1. source # "none" /\ run.status \in RunStatus
    BY <1>1 DEF Connect, IInv, StreamInv, RunTypes
  <2>2. CASE run.status \in Finished \cup {"deleted"}
    <3>1. Refuse
      BY <1>1, <2>2, Zenon DEF Connect, Finished
    <3>2. QED
      BY <2>1, <3>1, RefuseMoves
  <2>3. CASE run.status = "queued"
    <3>1. Opened([NoConn EXCEPT !.kind = "queued", !.cursor = lastEventId], {})
      BY <1>1, <2>3, Zenon DEF Connect, Finished
    <3>2. QED
      BY <2>1, <3>1, OpenedMoves
  <2>4. CASE run.status = "running"
    <3>1. UNCHANGED <<wire, source, lastEventId, page, shown, upsets>>
      BY <1>1, <2>4, Zenon DEF Connect, Finished
    <3>2. QED
      BY <3>1, PageSame
  <2>5. QED
    BY <2>1, <2>2, <2>3, <2>4 DEF RunStatus
<1>2. CASE Recheck \/ MaxAge
  BY <1>2, PageSame DEF Recheck, MaxAge
<1>3. CASE CheckCursor
  <2>1. conn.kind \in {"preflight", "following"}
    BY <1>3 DEF CheckCursor, MayRead
  <2>2. CASE stream = {}
    <3>1. PICK r : r = StreamMissing
      OBVIOUS
    <3>2. Apply(r) /\ r.status = "stream_missing"
      BY <1>3, <2>2, <3>1 DEF CheckCursor, StreamMissing, Read
    <3>3. QED
      BY <2>1, <3>2, ApplyMoves
  <2>3. CASE stream # {} /\ Trimmed(conn.cursor)
    <3>1. PICK r : r = CursorTrimmed
      OBVIOUS
    <3>2. Apply(r) /\ r.status = "cursor_trimmed"
      BY <1>3, <2>3, <3>1 DEF CheckCursor, CursorTrimmed, Read
    <3>3. QED
      BY <2>1, <3>2, ApplyMoves
  <2>4. CASE stream # {} /\ ~Trimmed(conn.cursor)
    BY <1>3, <2>4, PageSame DEF CheckCursor
  <2>5. QED
    BY <2>2, <2>3, <2>4
<1>4. CASE ReadPage
  <2>1. PICK r : r = PageAfter(conn.cursor, conn.epoch)
    OBVIOUS
  <2>2. conn.kind \in {"preflight", "following"} /\ Apply(r)
    BY <1>4, <2>1 DEF ReadPage, MayRead
  <2>3. r.status \in {"stream_missing", "empty", "events", "attempt_advanced", "attempt_absent"}
    <3>1. CASE r = StreamMissing
      BY <3>1 DEF StreamMissing, Read
    <3>2. CASE r # StreamMissing
      BY <2>1, <3>2, ReadFacts
    <3>3. QED
      BY <3>1, <3>2
  <2>4. QED
    BY <2>2, <2>3, ApplyMoves
<1>5. CASE TurnedAway
  BY <1>5, RefuseMoves DEF TurnedAway
<1>6. CASE ReadFails
  <2>1. PICK r : r = Unavailable
    OBVIOUS
  <2>2. /\ conn.kind \in {"preflight", "following"} /\ Apply(r)
        /\ r.status = "unavailable"
    BY <1>6, <2>1 DEF ReadFails, MayRead, Unavailable, Read
  <2>3. QED
    BY <2>2, ApplyMoves
<1>7. QED
  BY <1>1, <1>2, <1>3, <1>4, <1>5, <1>6 DEF Server

LEMMA DispatchMoves ==
  ASSUME IInv, AskInv, Dispatch
  PROVE  PageMoves /\ AskInv'
<1>1. PICK x : x = First(wire)
  OBVIOUS
<1>2. PICK s : s = Reduce(shown, x)
  OBVIOUS
<1>3. source = "open" /\ wire # {}
  BY DEF Dispatch
<1>4. /\ x \in Entries /\ (IsDelta(x) => x.gen # 0 /\ x.n # 0)
      /\ x.type = "terminal" => x.status \in Finished
      /\ shown.epoch <= x.epoch /\ shown.terminal = "none"
  BY <1>1, <1>3, NextFrame DEF EndsWith
<1>5. shown \in States /\ Silent(shown)
  BY DEF IInv, PageType, DraftInv, Silent
<1>6. \/ x.id <= shown.last /\ s = shown
      \/ /\ shown.last < x.id /\ s \in States /\ s.last = x.id /\ s.epoch = x.epoch
         /\ s.terminal = IF x.type = "terminal" THEN x.status ELSE "none"
         /\ x.epoch = shown.epoch => shown.gen <= s.gen
  BY <1>2, <1>4, <1>5, ReduceEffect
<1>7. ShownMoves(shown, s) /\ s \in States
  <2>1. CASE s = shown
    BY <1>5, <2>1, ShownStays
  <2>2. CASE s # shown
    <3>1. shown.last \in Nat /\ x.id \in Nat
      BY <1>4, <1>5, RunStreamAssumption DEF States, Entries
    <3>2. shown.last <= s.last
      BY <1>6, <2>2, <3>1
    <3>3. QED
      BY <1>4, <1>6, <2>2, <3>2 DEF ShownMoves
  <2>3. QED
    BY <2>1, <2>2
<1>8. CASE s.terminal # shown.terminal
  <2>1. PICK status : status = s.terminal
    OBVIOUS
  <2>2. status \in Finished
    BY <1>4, <1>6, <1>8, <2>1
  <2>3. source' = "none" /\ Concluded(s, status)
    BY <1>1, <1>2, <1>8, <2>1 DEF Dispatch, CloseSource
  <2>4. QED
    BY <1>4, <1>7, <2>2, <2>3, ConcludedMoves
<1>9. CASE s.terminal = shown.terminal
  <2>1. shown' = s /\ UNCHANGED <<source, page>>
    BY <1>1, <1>2, <1>9 DEF Dispatch
  <2>2. QED
    BY <1>7, <2>1 DEF PageMoves, AskInv, Settled, Knows
<1>10. QED
  BY <1>8, <1>9

LEMMA PollAnsweredMoves ==
  ASSUME IInv, AskInv, PollAnswered
  PROVE  PageMoves /\ AskInv'
<1>1. UNCHANGED source /\ page.poll.status \in RunStatus /\ page.poll # NoAnswer
  BY PollTypes DEF PollAnswered
<1>2. /\ page \in Pages /\ shown \in States /\ page.mode = "polling-only" /\ source = "none"
      /\ shown.terminal = "none" /\ ~page.hidden
  <2>1. page.mode = "polling-only"
    BY <1>1, ModesOf
  <2>2. ~Settled
    BY <2>1 DEF Settled, Knows
  <2>3. QED
    BY <1>1, <2>1, <2>2, ModesOf DEF AskInv
<1>3. CASE page.poll.status \in Finished
  <2>1. PICK status : status = page.poll.status
    OBVIOUS
  <2>2. Concluded(shown, status)
    BY <1>3, <2>1, Zenon DEF PollAnswered, Finished
  <2>3. ShownMoves(shown, shown)
    BY <1>2, ShownStays
  <2>4. QED
    BY <1>1, <1>2, <1>3, <2>1, <2>2, <2>3, ConcludedMoves
<1>4. CASE page.poll.status = "deleted"
  <2>1. page' = Turned(page, "stopped", NoAnswer) /\ shown' = Suppress(shown)
    BY <1>4, Zenon DEF PollAnswered, Finished, Turned
  <2>2. "stopped" \in Modes /\ NoAnswer \in Polls
    BY PollTypes DEF Modes
  <2>3. page'.mode = "stopped"
    BY <1>2, <2>1, <2>2, SetModeAndPoll
  <2>4. ShownMoves(shown, shown')
    BY <1>2, <2>1, SuppressEffect, ShownStays
  <2>5. QED
    BY <1>1, <2>3, <2>4 DEF PageMoves, AskInv, Settled
<1>5. CASE page.poll.status \in {"queued", "running"}
  <2>1. page' = WithPoll(page, Waiting) /\ shown' = MergePoll(shown, page.poll.epoch)
    BY <1>5, Zenon DEF PollAnswered, Finished, WithPoll
  <2>2. page'.mode = page.mode /\ page'.poll = Waiting /\ page'.hidden = page.hidden
    BY <1>2, <2>1, PollTypes, SetPoll
  <2>3. Waiting # NoAnswer
    BY PollTypes
  <2>4. ShownMoves(shown, shown')
    <3>1. PICK e : e = page.poll.epoch
      OBVIOUS
    <3>2. e \in 0..MaxEpoch
      BY <1>2, <3>1 DEF Pages, Polls
    <3>3. CASE e > shown.epoch
      <4>1. shown' = ResetForAttempt(shown, e)
        BY <2>1, <3>1, <3>3 DEF MergePoll
      <4>2. shown'.last = shown.last /\ shown'.epoch = e
        BY <1>2, <3>2, <4>1, ResetEffect
      <4>3. shown.last \in Nat /\ shown.epoch \in Nat /\ e \in Nat
        BY <1>2, <3>2, RunStreamAssumption DEF States
      <4>4. shown.last <= shown'.last /\ shown.epoch <= shown'.epoch /\ shown'.epoch # shown.epoch
        BY <3>3, <4>2, <4>3
      <4>5. QED
        BY <1>2, <4>4 DEF ShownMoves
    <3>4. CASE ~(e > shown.epoch)
      <4>1. shown' = shown
        BY <2>1, <3>1, <3>4 DEF MergePoll
      <4>2. QED
        BY <1>2, <4>1, ShownStays
    <3>5. QED
      BY <3>3, <3>4
  <2>5. QED
    BY <1>1, <1>2, <2>2, <2>3, <2>4 DEF PageMoves, AskInv, Settled, Knows
<1>6. QED
  BY <1>1, <1>3, <1>4, <1>5 DEF RunStatus

LEMMA PageStepMoves ==
  ASSUME IInv, AskInv,
         SeeEnd \/ Show \/ PollTimer \/ PollRead \/ PollFails \/ Drop \/ Resubscribe \/ Hide
  PROVE  PageMoves /\ AskInv'
<1>0. /\ page \in Pages /\ page.hidden \in BOOLEAN
      /\ NoAnswer \in Polls /\ Asked \in Polls /\ Waiting \in Polls
      /\ Asked # NoAnswer /\ Waiting # NoAnswer
  BY ModesOf, PollTypes DEF Pages
<1>1. CASE SeeEnd
  <2>1. /\ source = "open" /\ source' = "connecting" /\ UNCHANGED shown
        /\ page' = WithMode(page, "reconnecting")
    BY <1>1 DEF SeeEnd, WithMode
  <2>2. page'.mode = "reconnecting"
    BY <1>0, <2>1, SetMode DEF Modes
  <2>3. ~Settled /\ ~Settled'
    BY <2>1, <2>2, ModesOf DEF Settled, Knows
  <2>4. QED
    BY <2>1, <2>2, <2>3, PageWaits
<1>2. ASSUME NEW v \in Polls, NEW h \in BOOLEAN, UNCHANGED <<source, shown>>,
             page' = WithPoll(WithHidden(page, h), v),
             page.mode = "polling-only" => (v = NoAnswer <=> h)
      PROVE  PageMoves /\ AskInv'
  <2>1. WithHidden(page, h) \in Pages /\ WithHidden(page, h).mode = page.mode
          /\ WithHidden(page, h).hidden = h
    BY <1>0, SetHidden
  <2>2. page'.mode = page.mode /\ page'.hidden = h /\ page'.poll = v
    BY <1>2, <2>1, SetPoll
  <2>3. ShownMoves(shown, shown')
    BY <1>2, ShownStays, ModesOf
  <2>4. QED
    BY <1>2, <2>2, <2>3 DEF PageMoves, AskInv, Settled, Knows
<1>3. CASE Hide
  <2>1. page' = WithPoll(WithHidden(page, TRUE), NoAnswer) /\ UNCHANGED <<source, shown>>
    BY <1>3 DEF Hide, WithPoll, WithHidden
  <2>2. QED
    BY <1>0, <1>2, <2>1
<1>4. CASE Show
  <2> DEFINE v == IF page.mode = "polling-only" THEN Asked ELSE NoAnswer
  <2>1. page' = WithPoll(WithHidden(page, FALSE), v) /\ UNCHANGED <<source, shown>>
    BY <1>4 DEF Show, WithPoll, WithHidden
  <2>2. v \in Polls /\ (page.mode = "polling-only" => v # NoAnswer)
    BY <1>0
  <2> HIDE DEF v
  <2>3. QED
    BY <1>2, <2>1, <2>2
<1>5. ASSUME NEW v \in Polls, UNCHANGED <<source, shown>>, page' = WithPoll(page, v),
             page.mode = "polling-only" => (v = NoAnswer <=> page.hidden)
      PROVE  PageMoves /\ AskInv'
  <2>1. page'.mode = page.mode /\ page'.hidden = page.hidden /\ page'.poll = v
    BY <1>0, <1>5, SetPoll
  <2>2. ShownMoves(shown, shown')
    BY <1>5, ShownStays, ModesOf
  <2>3. QED
    BY <1>5, <2>1, <2>2 DEF PageMoves, AskInv, Settled, Knows
<1>6. CASE PollTimer \/ PollRead \/ PollFails
  <2>1. PICK v \in {Asked, Waiting, run} :
          /\ page' = WithPoll(page, v) /\ UNCHANGED <<source, shown>>
          /\ page.poll \in {Asked, Waiting}
    BY <1>6 DEF PollTimer, PollRead, PollFails, WithPoll
  <2>2. v \in Polls /\ v # NoAnswer
    <3>1. run \in Polls /\ run.status \in RunStatus
      BY DEF IInv, StreamInv, RunTypes, Polls
    <3>2. QED
      BY <1>0, <3>1, <2>1, PollTypes
  <2>3. page.mode = "polling-only" => ~page.hidden
    BY <1>0, <2>1 DEF AskInv
  <2>4. QED
    BY <1>5, <2>1, <2>2, <2>3
<1>7. CASE Drop
  BY <1>7, PageSame DEF Drop
<1>8. CASE Resubscribe
  <2>1. CASE page.mode = "polling-only"
    <3> DEFINE v == PollNow(page)
    <3>1. page' = WithPoll(page, v) /\ UNCHANGED <<source, shown>>
      BY <1>8, <2>1 DEF Resubscribe, WithPoll
    <3>2. v \in Polls /\ (v = NoAnswer <=> page.hidden)
      BY <1>0 DEF PollNow
    <3> HIDE DEF v
    <3>3. QED
      BY <1>5, <3>1, <3>2
  <2>2. CASE page.mode # "polling-only"
    <3>1. source' = "connecting" /\ UNCHANGED <<page, shown>> /\ ~Settled
      BY <1>8, <2>2 DEF Resubscribe
    <3>2. source # "none"
      BY <2>2, <3>1 DEF AskInv
    <3>3. QED
      BY <2>2, <3>1, <3>2, PageWaits DEF Settled, Knows
  <2>3. QED
    BY <2>1, <2>2
<1>9. QED
  BY <1>1, <1>3, <1>4, <1>6, <1>7, <1>8

LEMMA MovesForward ==
  ASSUME IInv, AskInv, [Next]_vars
  PROVE  PageMoves /\ AskInv'
<1>1. CASE UNCHANGED vars \/ ((RowNext \/ StreamNext) /\ UNCHANGED pageVars)
  BY <1>1, PageSame DEF vars, pageVars
<1>2. CASE Server \/ MaxAge \/ TurnedAway \/ ReadFails
  BY <1>2, ServerMoves
<1>3. CASE Dispatch
  BY <1>3, DispatchMoves
<1>4. CASE PollAnswered
  BY <1>4, PollAnsweredMoves
<1>5. CASE SeeEnd \/ Show \/ PollTimer \/ PollRead \/ PollFails \/ Drop \/ Resubscribe \/ Hide
  BY <1>5, PageStepMoves
<1>6. QED
  BY <1>1, <1>2, <1>3, <1>4, <1>5 DEF Next, Page, Upset

LEMMA AskInvariant == Spec => [](IInv /\ AskInv)
<1>1. Init => AskInv
  BY DEF Init, AskInv
<1>2. IInv /\ AskInv /\ [Next]_vars => AskInv'
  BY MovesForward
<1>3. QED
  BY <1>1, <1>2, LiveInvariant, PTL DEF Spec

(* redis_run_live_stream.py appends and trims: what a reader has been sent *)
(* is never changed under it, whoever writes.                              *)
THEOREM StreamOnlyGrows == Spec => StreamGrows
<1>1. IInv /\ [Next]_vars => LogGrows
  <2> SUFFICES ASSUME IInv, [Next]_vars PROVE LogGrows
    OBVIOUS
  <2>1. CASE RowNext \/ StreamNext
    BY <2>1, RowNextStep, StreamNextStep DEF IInv
  <2>2. CASE UNCHANGED streamVars
    <3>1. /\ log' = log /\ gone' = gone /\ gone \in Nat /\ Len(log) \in Nat
          /\ Len(log) <= MaxId /\ MaxId \in Nat
      BY <2>2, StreamSame
    <3>2. QED
      BY <3>1 DEF LogGrows
  <2>3. CASE ~(RowNext \/ StreamNext)
    BY <2>2, <2>3 DEF Next, vars, Server, MaxAge, Page, PollRead, Upset, Connect, Recheck,
                      CheckCursor, ReadPage, Dispatch, SeeEnd, Show, PollTimer, PollAnswered,
                      Drop, Resubscribe, Hide, PollFails, TurnedAway, ReadFails
  <2>4. QED
    BY <2>1, <2>3
<1>2. QED
  BY <1>1, LiveInvariant, PTL DEF Spec, StreamGrows

(* research-live-reducer.ts and its controller: replays, late answers and  *)
(* superseded workers never take the page back, an end that is shown is    *)
(* final, and an EventSource that was given up stays closed.               *)
THEOREM PageOnlyMovesForward == Spec => PageMovesForward
<1>1. IInv /\ AskInv /\ [Next]_vars => PageMoves
  BY MovesForward
<1>2. QED
  BY <1>1, AskInvariant, PTL DEF Spec, PageMovesForward

(* The controller is always on its way to the end: a page that does not    *)
(* know it yet has an EventSource, or a poll under way or timed unless it  *)
(* is hidden; a page that knows it has let go of all of them.              *)
THEOREM PageAlwaysAsks == Spec => []PageKeepsAsking
<1>1. IInv /\ AskInv => PageKeepsAsking
  <2> SUFFICES ASSUME IInv, AskInv PROVE PageKeepsAsking
    OBVIOUS
  <2>1. CASE Settled
    <3>1. source = "none" /\ page.mode # "polling-only"
      BY <2>1 DEF IInv, PageInv, Settled, Knows
    <3>2. conn.kind = "none" /\ wire = {} /\ page.poll = NoAnswer
      BY <3>1 DEF IInv, PageInv
    <3>3. QED
      BY <2>1, <3>1, <3>2 DEF PageKeepsAsking
  <2>2. CASE ~Settled
    BY <2>2, ModesOf DEF PageKeepsAsking, AskInv
  <2>3. QED
    BY <2>1, <2>2
<1>2. QED
  BY <1>1, AskInvariant, PTL
=============================================================================
