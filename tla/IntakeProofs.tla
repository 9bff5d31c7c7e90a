---------------------------- MODULE IntakeProofs ----------------------------
(***************************************************************************)
(* The intake of requests, for any files, sessions, clients, experts,      *)
(* services outside and past requests: a list is a request per row however *)
(* often it is submitted, a row that fails leaves nothing and one that     *)
(* succeeds all of it, what the window offers the server does not refuse,  *)
(* the trail explains the cards, the form recommends at most one name and  *)
(* keeps the buyer's own spelling, and a substitute is another substance.  *)
(*                                                                         *)
(* Who wrote a row ties the tables together: what a session has written    *)
(* and not committed is of the batch it is at the rows of (Owned), and     *)
(* what refers to a row has the row's writer or a committed row to refer   *)
(* to (Related).  Under the cards lies what an expert who saves relies on  *)
(* of the time the card was loaded (Saving).  A substitute is followed     *)
(* from the suggestion through the list, the choice and the batch (Sought),*)
(* a row of a file through the window and the handler (Previewed).         *)
(***************************************************************************)
EXTENDS RfqIntake, FiniteSetTheorems, SequenceTheorems, TLAPS

-----------------------------------------------------------------------------
(* The tables. *)

CardFields == {"cas", "preferred", "synonyms", "excluded", "notes", "status", "proof", "by"}
RevisionFields == {"card", "action", "snapshot", "by", "changes"}
BatchFields == {"key", "by"}
RunFields == {"rfq", "country", "by", "method", "name", "cas", "known", "excluded"}

Table(t, fields) ==
  /\ IsFiniteSet(DOMAIN t) /\ DOMAIN t \subseteq Nat
  /\ \A i \in DOMAIN t : DOMAIN t[i] = fields

Shaped ==
  /\ Table(cards, CardFields) /\ Table(revisions, RevisionFields)
  /\ Table(rfqs, RequestFields) /\ Table(batches, BatchFields)
  /\ \A run \in searches : DOMAIN run = RunFields

\* A row is committed, or of a session that is at the rows of its batch.
Writer(b) == b = Nobody \/ (b \in Sessions /\ jobs[b].at = "rows")

Owned ==
  /\ \A c \in DOMAIN cards : Writer(cards[c].by)
  /\ \A r \in DOMAIN rfqs : Writer(rfqs[r].by)
  /\ \A b \in DOMAIN batches : Writer(batches[b].by)

\* What refers to a row was written with it, or after it was committed.
Related ==
  /\ \A r \in DOMAIN rfqs :
       /\ rfqs[r].batch # None =>
            rfqs[r].batch \in DOMAIN batches /\ batches[rfqs[r].batch].by = rfqs[r].by
       /\ rfqs[r].substance # None =>
            rfqs[r].substance \in DOMAIN cards /\ cards[rfqs[r].substance].by \in {Nobody, rfqs[r].by}
  /\ \A i \in DOMAIN revisions :
       revisions[i].card \in DOMAIN cards /\ cards[revisions[i].card].by = revisions[i].by
  /\ \A run \in searches : run.rfq \in DOMAIN rfqs /\ rfqs[run.rfq].by = run.by

-----------------------------------------------------------------------------
(* Batches. *)

OneKey == \A b, d \in DOMAIN batches : batches[b].key = batches[d].key => b = d

OneRow ==
  \A r, q \in DOMAIN rfqs :
    rfqs[r].batch # None /\ rfqs[r].batch = rfqs[q].batch /\ rfqs[r].row = rfqs[q].row => r = q

Answer == [row : Nat, rfq : Nat \cup {None}, why : {"created", "invalid", "overlong", "deadlock"}]

Numbered(items) ==
  /\ Len(items) \in Nat /\ DOMAIN items = 1 .. Len(items)
  /\ \A i \in DOMAIN items : items[i].row \in Nat
  /\ \A i, j \in DOMAIN items : items[i].row = items[j].row => i = j

\* A session at the rows of its batch: the requests there are are of the rows before.
AtRows(s) ==
  LET j == jobs[s]
  IN  /\ j.results \in Seq(Answer) /\ Len(j.results) <= Len(j.items)
      /\ j.batch \in DOMAIN batches /\ batches[j.batch].by = s
      /\ \A r \in DOMAIN rfqs : rfqs[r].batch = j.batch =>
           \E i \in 1 .. Len(j.results) : rfqs[r].row = j.items[i].row

IsSeq(q) == q \in Seq({q[i] : i \in DOMAIN q})

JobKept(s) ==
  /\ "at" \in DOMAIN jobs[s]
  /\ jobs[s].at \in {"lookup", "insert", "rows"} =>
       /\ {"key", "items", "results", "batch", "created"} \subseteq DOMAIN jobs[s]
       /\ Numbered(jobs[s].items)
  /\ jobs[s].at \in {"lookup", "insert"} => jobs[s].results = <<>>
  /\ jobs[s].at = "rows" => AtRows(s)
  /\ jobs[s].at = "choice" => IsSeq(jobs[s].chosen)
  /\ jobs[s].at = "runs" =>
       jobs[s].rfq \in DOMAIN rfqs /\ rfqs[jobs[s].rfq].by = Nobody /\ rfqs[jobs[s].rfq].batch = None

JobsKept == DOMAIN jobs = Sessions /\ \A s \in Sessions : JobKept(s)

\* A request of a batch has a search per country.
Searched ==
  \A r \in DOMAIN rfqs : rfqs[r].batch # None =>
    {run.country : run \in {x \in searches : x.rfq = r}} = rfqs[r].countries

-----------------------------------------------------------------------------
(* Cards. *)

OneNumber == \A c, d \in DOMAIN cards : cards[c].cas = cards[d].cas => c = d

Draft(c) == cards[c].status = "unreviewed"

\* A draft card has a request of the session that wrote it; a request that refers to a
\* draft is about its number.
Drafted ==
  /\ \A c \in DOMAIN cards : Draft(c) =>
       \E r \in DOMAIN rfqs : rfqs[r].substance = c /\ rfqs[r].by = cards[c].by
  /\ \A r \in DOMAIN rfqs : rfqs[r].substance # None /\ Draft(rfqs[r].substance) =>
       rfqs[r].cas = cards[rfqs[r].substance].cas

\* What an expert has loaded: a card that was no draft is none; the request of a
\* decision refers to no draft but the card.
Saving(e) ==
  LET job == experts[e]
  IN  /\ job.intent.kind \in {"enter", "edit", "decide"}
      /\ job.id # None =>
           /\ job.id \in DOMAIN cards /\ cards[job.id].by = Nobody
           /\ DOMAIN job.card = CardFields
           /\ job.card.status # "unreviewed" => ~Draft(job.id)
      /\ job.intent.kind = "edit" => job.id # None
      /\ job.intent.kind = "decide" =>
           /\ job.intent.rfq \in DOMAIN rfqs /\ rfqs[job.intent.rfq].by = Nobody
           /\ \A c \in DOMAIN cards :
                c # job.id /\ rfqs[job.intent.rfq].substance = c => ~Draft(c)

ExpertsKept ==
  DOMAIN experts = Experts /\ \A e \in Experts : experts[e].at = "saving" => Saving(e)

About(c) == {i \in DOMAIN revisions : revisions[i].card = c}
Changing(c, f) == {i \in About(c) : f \in revisions[i].changes}

\* The revision that explains a column of a card.
Explains(i, c, f) ==
  \/ i \in Changing(c, f) /\ \A k \in Changing(c, f) : k <= i
  \/ i \in About(c) /\ Changing(c, f) = {} /\ \A k \in About(c) : i <= k

Trail ==
  \A c \in DOMAIN cards, f \in Audited :
    \E i \in DOMAIN revisions : Explains(i, c, f) /\ revisions[i].snapshot[f] = cards[c][f]

-----------------------------------------------------------------------------
(* The windows. *)

ScreenFields == {"rows", "excluded", "key", "creating", "rechecking", "result"}

\* The rows of the window have different numbers, the file that is awaited is one of the
\* files.
Screened ==
  /\ DOMAIN screen = ScreenFields /\ uploading \in DOMAIN Files \cup {None}
  /\ IsFiniteSet(DOMAIN screen.rows) /\ DOMAIN screen.rows \subseteq Nat
  /\ \A i \in DOMAIN screen.rows : screen.rows[i].row \in Nat
  /\ \A i, k \in DOMAIN screen.rows : screen.rows[i].row = screen.rows[k].row => i = k

DeskFields == {"rfq", "shown", "chosen", "suggesting", "confirming"}

Desked == DOMAIN desk = DeskFields /\ IsSeq(desk.chosen)

\* The inductive invariants of the batches and of the cards.
BatchInv == OneKey /\ OneRow /\ JobsKept /\ Searched /\ Screened /\ Desked
CardInv == OneNumber /\ Drafted /\ ExpertsKept /\ Trail

IntakeInv == Shaped /\ Owned /\ Related /\ BatchInv /\ CardInv

-----------------------------------------------------------------------------
(* Sets of numbers and tables. *)

\* How many members of a set of numbers are not above one of them.
Rank(S) == [x \in S |-> Cardinality({y \in S : y <= x})]

\* The members of a finite set of numbers are counted in their order.
LEMMA Ranked ==
  ASSUME NEW S, S \subseteq Nat, IsFiniteSet(S)
  PROVE  /\ Cardinality(S) \in Nat
         /\ Rank(S) \in [S -> 1 .. Cardinality(S)]
         /\ \A x, y \in S : x < y => Rank(S)[x] < Rank(S)[y]
         /\ \A i \in 1 .. Cardinality(S) : \E x \in S : Rank(S)[x] = i
<1>. DEFINE rank == Rank(S)
            below(x) == {y \in S : y <= x}
<1>1. Cardinality(S) \in Nat
  BY FS_CardinalityType
<1>2. ASSUME NEW x \in S
      PROVE  /\ IsFiniteSet(below(x)) /\ Cardinality(below(x)) \in Nat
             /\ Cardinality(below(x)) <= Cardinality(S) /\ Cardinality(below(x)) # 0
  <2>1. below(x) \in SUBSET S /\ x \in below(x)
    OBVIOUS
  <2>2. IsFiniteSet(below(x)) /\ Cardinality(below(x)) <= Cardinality(S)
    BY <2>1, FS_Subset
  <2>. HIDE DEF below
  <2>. QED  BY <2>1, <2>2, FS_CardinalityType, FS_EmptySet
<1>e. \A x \in S : rank[x] = Cardinality(below(x))
  BY DEF Rank
<1>3. rank \in [S -> 1 .. Cardinality(S)]
  <2>1. \A x \in S : Cardinality(below(x)) \in 1 .. Cardinality(S)
    BY <1>1, <1>2
  <2>. HIDE DEF below
  <2>2. DOMAIN Rank(S) = S /\ Rank(S) = [x \in S |-> Rank(S)[x]]
    BY DEF Rank
  <2>. QED  BY <1>e, <2>1, <2>2
<1>. HIDE DEF rank
<1>4. ASSUME NEW x \in S, NEW y \in S, x < y PROVE rank[x] < rank[y]
  <2>. x \in Nat /\ y \in Nat
    OBVIOUS
  <2>1. below(x) \in SUBSET below(y) /\ y \in below(y) /\ y \notin below(x)
    <3>1. \A z \in S : z \in Nat /\ (z <= x => z <= y)
      BY <1>4
    <3>2. x <= y /\ y <= y /\ ~ y <= x
      BY <1>4
    <3>. QED  BY <3>1, <3>2
  <2>2. Cardinality(below(x)) <= Cardinality(below(y)) /\ Cardinality(below(x)) # Cardinality(below(y))
    <3>. HIDE DEF below
    <3>. QED  BY <1>2, <2>1, FS_Subset
  <2>. HIDE DEF below
  <2>. QED  BY <1>2, <1>e, <2>2
<1>5. \A x, y \in S : rank[x] = rank[y] => x = y
  BY <1>3, <1>4
<1>6. rank \in Injection(S, 1 .. Cardinality(S))
  BY <1>3, <1>5 DEF Injection, IsInjective
<1>7. IsFiniteSet(1 .. Cardinality(S)) /\ Cardinality(1 .. Cardinality(S)) = Cardinality(S)
  BY <1>1, FS_Interval
<1>8. rank \in Surjection(S, 1 .. Cardinality(S))
  BY <1>6, <1>7, FS_Injection
<1>. QED  BY <1>1, <1>3, <1>4, <1>8 DEF Surjection, rank

\* A finite set of numbers that has a member has a greatest one.
LEMMA MaxIs ==
  ASSUME NEW S, S \subseteq Nat, IsFiniteSet(S), S # {}
  PROVE  Max(S) \in S /\ \A y \in S : y <= Max(S)
<1>. DEFINE rank == Rank(S)
<1>1. /\ Cardinality(S) \in Nat /\ rank \in [S -> 1 .. Cardinality(S)]
      /\ \A x, y \in S : x < y => rank[x] < rank[y]
      /\ \A i \in 1 .. Cardinality(S) : \E x \in S : rank[x] = i
  BY Ranked
<1>. HIDE DEF rank
<1>2. Cardinality(S) \in 1 .. Cardinality(S)
  BY <1>1, FS_EmptySet
<1>3. PICK x \in S : rank[x] = Cardinality(S)
  BY <1>1, <1>2
<1>4. \A y \in S : x >= y
  BY <1>1, <1>3
<1>. QED  BY <1>4 DEF Max

\* InOrder enumerates a finite set of numbers, each once and in their order.
LEMMA InOrderIs ==
  ASSUME NEW S, S \subseteq Nat, IsFiniteSet(S)
  PROVE  /\ Cardinality(S) \in Nat
         /\ InOrder(S) \in [1 .. Cardinality(S) -> S]
         /\ \A i, j \in 1 .. Cardinality(S) : InOrder(S)[i] = InOrder(S)[j] => i = j
<1>. DEFINE rank == Rank(S)
            n == Cardinality(S)
            Sorted(q) == \A i, j \in 1 .. n : i < j => q[i] < q[j]
<1>1. /\ n \in Nat /\ rank \in [S -> 1 .. n]
      /\ \A x, y \in S : x < y => rank[x] < rank[y]
      /\ \A i \in 1 .. n : \E x \in S : rank[x] = i
  BY Ranked
<1>. HIDE DEF rank
<1>2. PICK q \in [1 .. n -> S] : \A i \in 1 .. n : rank[q[i]] = i
  <2>. DEFINE p == [i \in 1 .. n |-> CHOOSE x \in S : rank[x] = i]
  <2>1. \A i \in 1 .. n : p[i] \in S /\ rank[p[i]] = i
    BY <1>1
  <2>. QED  BY <2>1
<1>3. ASSUME NEW i \in 1 .. n, NEW j \in 1 .. n, i < j PROVE q[i] < q[j]
  <2>1. q[i] \in S /\ q[j] \in S /\ q[i] \in Nat /\ q[j] \in Nat
    OBVIOUS
  <2>2. q[i] # q[j] /\ ~ q[j] < q[i]
    BY <1>1, <1>2, <1>3, <2>1
  <2>. QED  BY <2>1, <2>2
<1>4. InOrder(S) \in [1 .. n -> S] /\ Sorted(InOrder(S))
  BY <1>3 DEF InOrder
<1>5. ASSUME NEW i \in 1 .. n, NEW j \in 1 .. n, InOrder(S)[i] = InOrder(S)[j] PROVE i = j
  <2>1. InOrder(S)[i] \in Nat /\ InOrder(S)[j] \in Nat
    BY <1>4
  <2>2. ~ i < j /\ ~ j < i
    BY <1>4, <1>5, <2>1
  <2>. QED  BY <1>1, <2>2
<1>. QED  BY <1>1, <1>4, <1>5

\* A new id is a number no row has, after all that there are.
LEMMA NewIdIs ==
  ASSUME NEW t, IsFiniteSet(DOMAIN t), DOMAIN t \subseteq Nat
  PROVE  NewId(t) \in Nat /\ NewId(t) \notin DOMAIN t /\ \A i \in DOMAIN t : i < NewId(t)
<1>1. CASE DOMAIN t = {}
  BY <1>1 DEF NewId
<1>2. CASE DOMAIN t # {}
  <2>1. Max(DOMAIN t) \in DOMAIN t /\ \A y \in DOMAIN t : y <= Max(DOMAIN t)
    BY <1>2, MaxIs
  <2>. QED  BY <1>2, <2>1 DEF NewId
<1>. QED  BY <1>1, <1>2

\* A table with a row put into it is a table.
LEMMA PutKeeps ==
  ASSUME NEW t, NEW fields, Table(t, fields), NEW id \in Nat, NEW row, DOMAIN row = fields
  PROVE  Table(Put(t, id, row), fields)
<1>. DEFINE u == Put(t, id, row)
<1>1. DOMAIN u = DOMAIN t \cup {id} /\ u[id] = row /\ \A i \in DOMAIN t : i # id => u[i] = t[i]
  BY DEF Put
<1>2. IsFiniteSet(DOMAIN t \cup {id})
  BY FS_AddElement DEF Table
<1>. HIDE DEF u
<1>3. \A i \in DOMAIN u : u[i] = row \/ (i \in DOMAIN t /\ u[i] = t[i])
  BY <1>1
<1>4. \A i \in DOMAIN u : DOMAIN u[i] = fields
  BY <1>3 DEF Table
<1>5. Table(u, fields)
  BY <1>1, <1>2, <1>4 DEF Table
<1>. QED  BY <1>5 DEF u

\* What is left of a table is a table.
LEMMA LessKeeps ==
  ASSUME NEW t, NEW fields, Table(t, fields), NEW u, DOMAIN u \subseteq DOMAIN t,
         \A i \in DOMAIN u : DOMAIN u[i] = fields
  PROVE  Table(u, fields)
BY FS_Subset DEF Table

-----------------------------------------------------------------------------
(* Steps of a handler that write no table. *)

SameTables == UNCHANGED <<cards, revisions, rfqs, batches, searches>>

LEMMA TablesStay ==
  ASSUME IntakeInv, SameTables
  PROVE  /\ Shaped' /\ Related' /\ OneKey' /\ OneRow' /\ Searched'
         /\ OneNumber' /\ Drafted' /\ Trail'
BY DEF IntakeInv, BatchInv, CardInv, SameTables, Shaped, Related, OneKey, OneRow, Searched, OneNumber,
       Drafted, Draft, Trail, Explains, Changing, About

LEMMA ExpertsStay ==
  ASSUME ExpertsKept, UNCHANGED <<cards, rfqs, experts>>
  PROVE  ExpertsKept'
BY DEF ExpertsKept, Saving, Draft

\* What a handler may become: done, waiting, at the start of a batch, or further on in
\* its rows.
Becomes(s, j) ==
  /\ "at" \in DOMAIN j /\ j.at # "runs"
  /\ jobs[s].at = "rows" <=> j.at = "rows"
  /\ j.at \in {"lookup", "insert", "rows"} =>
       {"key", "items", "results", "batch", "created"} \subseteq DOMAIN j /\ Numbered(j.items)
  /\ j.at \in {"lookup", "insert"} => j.results = <<>>
  /\ j.at = "choice" => IsSeq(j.chosen)
  /\ j.at = "rows" => /\ j.items = jobs[s].items /\ j.batch = jobs[s].batch
                      /\ j.results \in Seq(Answer) /\ Len(j.results) <= Len(j.items)
                      /\ Len(jobs[s].results) <= Len(j.results)

LEMMA JobMoves ==
  ASSUME IntakeInv, NEW s \in Sessions, NEW j, Becomes(s, j), jobs' = [jobs EXCEPT ![s] = j],
         UNCHANGED <<cards, rfqs, batches>>
  PROVE  Owned' /\ JobsKept'
<1>1. DOMAIN jobs' = Sessions /\ jobs'[s] = j /\ \A t \in Sessions \ {s} : jobs'[t] = jobs[t]
  BY DEF IntakeInv, BatchInv, JobsKept
<1>2. \A b : Writer(b) => Writer(b)'
  BY <1>1 DEF Writer, Becomes
<1>3. Owned'
  BY <1>2 DEF Owned, IntakeInv
<1>4. ASSUME NEW t \in Sessions \ {s} PROVE JobKept(t)'
  <2>1. JobKept(t)
    BY DEF IntakeInv, BatchInv, JobsKept
  <2>2. AtRows(t) => AtRows(t)'
    BY <1>1 DEF AtRows
  <2>. QED  BY <1>1, <2>1, <2>2 DEF JobKept
<1>5. JobKept(s)'
  <2>1. JobKept(s)
    BY DEF IntakeInv, BatchInv, JobsKept
  <2>2. CASE j.at = "rows"
    <3>1. /\ AtRows(s) /\ jobs[s].results \in Seq(Answer)
          /\ Len(jobs[s].results) \in Nat /\ Len(j.results) \in Nat
      BY <2>1, <2>2, LenProperties DEF JobKept, Becomes, AtRows
    <3>2. \A r \in DOMAIN rfqs : rfqs[r].batch = j.batch =>
             \E i \in 1 .. Len(j.results) : rfqs[r].row = j.items[i].row
      <4>1. 1 .. Len(jobs[s].results) \subseteq 1 .. Len(j.results)
        BY <2>2, <3>1 DEF Becomes
      <4>. QED  BY <2>2, <3>1, <4>1 DEF AtRows, Becomes
    <3>3. AtRows(s)'
      BY <1>1, <2>2, <3>1, <3>2 DEF AtRows, Becomes
    <3>. QED  BY <1>1, <2>2, <3>3 DEF JobKept, Becomes
  <2>3. CASE j.at # "rows"
    BY <1>1, <2>3 DEF JobKept, Becomes
  <2>. QED  BY <2>2, <2>3
<1>. QED  BY <1>1, <1>3, <1>4, <1>5 DEF JobsKept

\* The step of a handler that writes no table.
LEMMA HandlerMoves ==
  ASSUME IntakeInv, NEW s \in Sessions, NEW j, Becomes(s, j), jobs' = [jobs EXCEPT ![s] = j],
         SameTables, UNCHANGED experts, Screened', Desked'
  PROVE  IntakeInv'
<1>1. Owned' /\ JobsKept'
  BY JobMoves DEF SameTables
<1>2. ExpertsKept'
  BY ExpertsStay DEF IntakeInv, CardInv, SameTables
<1>. QED  BY <1>1, <1>2, TablesStay DEF IntakeInv, BatchInv, CardInv

\* A step of a window.
LEMMA WindowMoves ==
  ASSUME IntakeInv, SameTables, UNCHANGED <<jobs, experts>>, Screened', Desked'
  PROVE  IntakeInv'
<1>1. Owned' /\ JobsKept'
  BY DEF IntakeInv, BatchInv, SameTables, Owned, Writer, JobsKept, JobKept, AtRows
<1>2. ExpertsKept'
  BY ExpertsStay DEF IntakeInv, CardInv, SameTables
<1>. QED  BY <1>1, <1>2, TablesStay DEF IntakeInv, BatchInv, CardInv

\* A sequence of some members of a list, each of a place of its own.
Picks(p, list, places) ==
  \E n \in Nat : \E q \in [1 .. n -> places] :
    /\ \A i, k \in 1 .. n : q[i] = q[k] => i = k
    /\ DOMAIN p = 1 .. n
    /\ \A i \in 1 .. n : p[i] = list[q[i]]

LEMMA PickedIs ==
  ASSUME NEW list, NEW places, places \subseteq Nat, IsFiniteSet(places)
  PROVE  Picks(Picked(list, places), list, places)
<1>. DEFINE q == InOrder(places)
            n == Cardinality(places)
            p == Picked(list, places)
<1>1. n \in Nat /\ q \in [1 .. n -> places] /\ \A i, k \in 1 .. n : q[i] = q[k] => i = k
  BY InOrderIs
<1>2. p = [k \in DOMAIN q |-> list[q[k]]]
  BY DEF Picked
<1>. HIDE DEF q, n, p
<1>3. DOMAIN q = 1 .. n
  BY <1>1
<1>4. Picks(p, list, places)
  BY <1>1, <1>2, <1>3 DEF Picks
<1>. QED  BY <1>4 DEF p

\* A list of as many items as there are numbers up to n, with a row each.
LEMMA NumberedIs ==
  ASSUME NEW items, NEW n \in Nat, NEW f, items = [i \in 1 .. n |-> f[i]],
         \A i \in 1 .. n : items[i].row \in Nat,
         \A i, k \in 1 .. n : items[i].row = items[k].row => i = k
  PROVE  Numbered(items)
<1>1. DOMAIN items = 1 .. n /\ Len(items) = n
  OBVIOUS
<1>. QED  BY <1>1 DEF Numbered

-----------------------------------------------------------------------------
(* Batches: the steps that write no table. *)

LEMMA SubmitsBecomes ==
  ASSUME IntakeInv, NEW s \in Sessions, jobs[s] = Resting, NEW key, NEW items, NEW defaults,
         NEW for, Submits(s, key, items, defaults, for), Numbered(items),
         SameTables, UNCHANGED experts, Screened', Desked'
  PROVE  IntakeInv'
<1>. DEFINE j == [at |-> "lookup", key |-> key, items |-> items, defaults |-> defaults, for |-> for,
                  results |-> <<>>, batch |-> None, created |-> TRUE]
<1>1. Becomes(s, j)
  BY DEF Becomes, Resting
<1>2. jobs' = [jobs EXCEPT ![s] = j]
  BY DEF Submits
<1>. HIDE DEF j
<1>. QED  BY <1>1, <1>2, HandlerMoves

LEMMA ScreenStays ==
  ASSUME IntakeInv, UNCHANGED screenVars PROVE Screened'
BY DEF IntakeInv, BatchInv, Screened, screenVars

LEMMA DeskStays ==
  ASSUME IntakeInv, UNCHANGED desk PROVE Desked'
BY DEF IntakeInv, BatchInv, Desked

LEMMA OtherKeeps == IntakeInv /\ OtherStep => IntakeInv'
<1>. SUFFICES ASSUME IntakeInv, OtherStep PROVE IntakeInv'
  OBVIOUS
<1>1. PICK s \in Sessions : jobs[s] = Resting /\ Submits(s, <<"list", 0>>, OtherList, Defaults, "other")
  BY DEF OtherStep
<1>2. Numbered(OtherList)
  BY IntakeAssumption DEF Numbered
<1>3. SameTables /\ UNCHANGED experts /\ Screened' /\ Desked'
  BY ScreenStays, DeskStays DEF OtherStep, SameTables, catalogVars, deskVars
<1>. QED  BY <1>1, <1>2, <1>3, SubmitsBecomes

LEMMA PressesKeeps ==
  ASSUME IntakeInv, NEW s \in Sessions, Presses(s), UNCHANGED experts, Desked' PROVE IntakeInv'
<1>. DEFINE places == {i \in DOMAIN screen.rows : Importable(screen.rows[i])
                                                 /\ screen.rows[i].row \notin screen.excluded}
            items == [i \in DOMAIN Ready |-> [row |-> Ready[i].row, values |-> Ready[i].values]]
<1>0. Screened
  BY DEF IntakeInv, BatchInv
<1>1. places \subseteq Nat /\ IsFiniteSet(places) /\ places \subseteq DOMAIN screen.rows
  BY <1>0, FS_Subset DEF Screened
<1>2. Ready = Picked(screen.rows, places)
  BY DEF Ready
<1>. HIDE DEF places
<1>a. Picks(Ready, screen.rows, places)
  BY <1>1, <1>2, PickedIs
<1>b. PICK n \in Nat : \E q \in [1 .. n -> places] :
        /\ \A i, k \in 1 .. n : q[i] = q[k] => i = k
        /\ DOMAIN Ready = 1 .. n
        /\ \A i \in 1 .. n : Ready[i] = screen.rows[q[i]]
  BY <1>a DEF Picks
<1>3. PICK q \in [1 .. n -> places] :
        /\ \A i, k \in 1 .. n : q[i] = q[k] => i = k
        /\ DOMAIN Ready = 1 .. n
        /\ \A i \in 1 .. n : Ready[i] = screen.rows[q[i]]
  BY <1>b
<1>4. /\ items = [i \in 1 .. n |-> items[i]]
      /\ \A i \in 1 .. n : items[i].row = screen.rows[q[i]].row /\ q[i] \in DOMAIN screen.rows
  BY <1>1, <1>3
<1>. HIDE DEF items
<1>c. \A i \in 1 .. n : items[i].row \in Nat
  BY <1>0, <1>4 DEF Screened
<1>d. \A i, k \in 1 .. n : items[i].row = items[k].row => i = k
  BY <1>0, <1>3, <1>4 DEF Screened
<1>5. Numbered(items)
  BY <1>4, <1>c, <1>d, NumberedIs
<1>6. Submits(s, <<"list", screen.key>>, items, Defaults, "import") /\ jobs[s] = Resting
  BY DEF Presses, items
<1>7. SameTables /\ Screened'
  BY <1>0 DEF Presses, SameTables, Screened, ScreenFields
<1>. QED  BY <1>5, <1>6, <1>7, SubmitsBecomes

LEMMA ReadsChoiceKeeps ==
  ASSUME IntakeInv, NEW s \in Sessions, ReadsChoice(s), UNCHANGED experts, Screened', Desked' PROVE IntakeInv'
<1>. DEFINE chosen == jobs[s].chosen
            places == {i \in DOMAIN chosen : chosen[i] \in Pending(jobs[s].rfq)}
            pending == Picked(chosen, places)
            items == [i \in DOMAIN pending |-> [row |-> i, values |-> ChildValues(pending[i])]]
            key == <<"analog", jobs[s].rfq, ToSet(pending)>>
            j == IF pending = <<>> THEN [jobs[s] EXCEPT !.at = "answered"]
                 ELSE [at |-> "lookup", key |-> key, defaults |-> Terms, for |-> "analog",
                       items |-> items, results |-> <<>>, batch |-> None, created |-> TRUE,
                       rfq |-> jobs[s].rfq, pending |-> pending]
<1>1. jobs' = [jobs EXCEPT ![s] = j] /\ jobs[s].at = "choice" /\ "at" \in DOMAIN jobs[s] /\ SameTables
  BY DEF ReadsChoice, SameTables, IntakeInv, BatchInv, JobsKept, JobKept
<1>. HIDE DEF j
<1>2. IsSeq(chosen)
  BY <1>1 DEF IntakeInv, BatchInv, JobsKept, JobKept
<1>3. places \subseteq Nat /\ IsFiniteSet(places)
  <2>1. Len(chosen) \in Nat /\ DOMAIN chosen = 1 .. Len(chosen)
    BY <1>2, LenProperties DEF IsSeq
  <2>2. IsFiniteSet(1 .. Len(chosen)) /\ places \in SUBSET (1 .. Len(chosen))
    BY <2>1, FS_Interval
  <2>. QED  BY <2>2, FS_Subset
<1>. HIDE DEF places
<1>a. Picks(pending, chosen, places)
  BY <1>3, PickedIs
<1>. HIDE DEF pending
<1>4. PICK n \in Nat : DOMAIN pending = 1 .. n
  BY <1>a DEF Picks
<1>5. items = [i \in 1 .. n |-> items[i]] /\ \A i \in 1 .. n : items[i].row = i
  BY <1>4
<1>. HIDE DEF items
<1>6. Numbered(items)
  BY <1>5, NumberedIs
<1>7. Becomes(s, j)
  <2>1. CASE pending = <<>>
    BY <1>1, <2>1 DEF Becomes, j
  <2>2. CASE pending # <<>>
    BY <1>1, <1>6, <2>2 DEF Becomes, j
  <2>. QED  BY <2>1, <2>2
<1>. QED  BY <1>1, <1>7, HandlerMoves

LEMMA KeptOf ==
  ASSUME IntakeInv, NEW s \in Sessions
  PROVE  DOMAIN jobs = Sessions /\ JobKept(s) /\ "at" \in DOMAIN jobs[s]
BY DEF IntakeInv, BatchInv, JobsKept, JobKept

\* A handler ends, or waits for what comes next.
LEMMA AtMoves ==
  ASSUME IntakeInv, NEW s \in Sessions, NEW at, jobs' = [jobs EXCEPT ![s].at = at],
         jobs[s].at \notin {"rows", "lookup"}, at \in {"answered", "done", "created", "failed", "store"},
         SameTables, UNCHANGED experts, Screened', Desked'
  PROVE  IntakeInv'
<1>. DEFINE j == [jobs[s] EXCEPT !.at = at]
<1>1. Becomes(s, j) /\ jobs' = [jobs EXCEPT ![s] = j]
  BY KeptOf DEF Becomes
<1>. HIDE DEF j
<1>. QED  BY <1>1, HandlerMoves

LEMMA FindsBatchKeeps ==
  ASSUME IntakeInv, NEW s \in Sessions, FindsBatch(s), UNCHANGED experts, Screened', Desked'
  PROVE  IntakeInv'
<1>. DEFINE found == BatchesOf(s, jobs[s].key)
            b == CHOOSE b \in found : TRUE
            j == IF found = {} THEN [jobs[s] EXCEPT !.at = "insert"]
                 ELSE [jobs[s] EXCEPT !.at = "created", !.batch = b, !.created = FALSE,
                                      !.results = ExistingResults(b)]
<1>1. jobs' = [jobs EXCEPT ![s] = j] /\ jobs[s].at = "lookup" /\ SameTables
  BY DEF FindsBatch, SameTables
<1>2. Becomes(s, j)
  BY <1>1, KeptOf DEF JobKept, Becomes
<1>. HIDE DEF j
<1>. QED  BY <1>1, <1>2, HandlerMoves

\* The answer about a row.
LEMMA AnswersBecomes ==
  ASSUME IntakeInv, NEW s \in Sessions, HasItem(s), NEW rfq \in Nat \cup {None},
         NEW why \in {"created", "invalid", "overlong", "deadlock"}, Answers(s, rfq, why)
  PROVE  \E j : /\ Becomes(s, j) /\ jobs' = [jobs EXCEPT ![s] = j]
                /\ j.results = Append(jobs[s].results, [row |-> Item(s).row, rfq |-> rfq, why |-> why])
                /\ Len(j.results) = Len(jobs[s].results) + 1
<1>. DEFINE answer == [row |-> Item(s).row, rfq |-> rfq, why |-> why]
            j == [jobs[s] EXCEPT !.results = Append(@, answer)]
<1>1. jobs' = [jobs EXCEPT ![s] = j] /\ jobs[s].at = "rows"
  BY DEF Answers, HasItem
<1>2. /\ jobs[s].results \in Seq(Answer) /\ Numbered(jobs[s].items) /\ "at" \in DOMAIN jobs[s]
      /\ {"key", "items", "results", "batch", "created"} \subseteq DOMAIN jobs[s]
  BY <1>1, KeptOf DEF JobKept, AtRows
<1>l. Len(jobs[s].results) \in Nat
  BY <1>2, LenProperties
<1>m. /\ Len(jobs[s].items) \in Nat /\ DOMAIN jobs[s].items = 1 .. Len(jobs[s].items)
      /\ \A i \in DOMAIN jobs[s].items : jobs[s].items[i].row \in Nat
  BY <1>2 DEF Numbered
<1>n. PICK n \in Nat, m \in Nat : n = Len(jobs[s].results) /\ m = Len(jobs[s].items)
  BY <1>l, <1>m
<1>o. n < m
  BY <1>n DEF HasItem
<1>3. n + 1 \in DOMAIN jobs[s].items
  BY <1>m, <1>n, <1>o
<1>4. answer \in Answer
  BY <1>3, <1>m, <1>n DEF Item, Answer
<1>. HIDE DEF answer
<1>5. /\ Append(jobs[s].results, answer) \in Seq(Answer)
      /\ Len(Append(jobs[s].results, answer)) = Len(jobs[s].results) + 1
  BY <1>2, <1>4, AppendProperties
<1>6. /\ DOMAIN j = DOMAIN jobs[s] /\ j.results = Append(jobs[s].results, answer)
      /\ j.at = "rows" /\ j.items = jobs[s].items /\ j.batch = jobs[s].batch
  BY <1>1, <1>2
<1>. HIDE DEF j
<1>7. Becomes(s, j)
  <2>1. Len(j.results) <= Len(j.items) /\ Len(jobs[s].results) <= Len(j.results)
    <3>1. Len(j.results) = n + 1 /\ Len(j.items) = m
      BY <1>5, <1>6, <1>n
    <3>. QED  BY <1>n, <1>o, <3>1
  <2>2. {"key", "items", "results", "batch", "created"} \subseteq DOMAIN j /\ Numbered(j.items)
    BY <1>2, <1>6
  <2>. QED  BY <1>1, <1>2, <1>5, <1>6, <2>1, <2>2 DEF Becomes
<1>. QED  BY <1>1, <1>5, <1>6, <1>7 DEF answer

LEMMA RefusesRowKeeps ==
  ASSUME IntakeInv, NEW s \in Sessions, RefusesRow(s) \/ BreaksDeadlock(s),
         UNCHANGED experts, Screened', Desked'
  PROVE  IntakeInv'
<1>1. SameTables
  BY DEF RefusesRow, BreaksDeadlock, SameTables
<1>2. HasItem(s) /\ (Answers(s, None, "invalid") \/ Answers(s, None, "deadlock"))
  BY DEF RefusesRow, BreaksDeadlock, WaitsFor
<1>3. \E j : Becomes(s, j) /\ jobs' = [jobs EXCEPT ![s] = j]
  <2>1. CASE Answers(s, None, "invalid")
    BY <1>2, <2>1, AnswersBecomes
  <2>2. CASE Answers(s, None, "deadlock")
    BY <1>2, <2>2, AnswersBecomes
  <2>. QED  BY <1>2, <2>1, <2>2
<1>. QED  BY <1>1, <1>3, HandlerMoves

LEMMA InsertsBatchKeeps ==
  ASSUME IntakeInv, NEW s \in Sessions, InsertsBatch(s), UNCHANGED experts, Screened', Desked'
  PROVE  IntakeInv'
<1>0. jobs[s].at = "insert" /\ JobKept(s) /\ "at" \in DOMAIN jobs[s]
  BY KeptOf DEF InsertsBatch
<1>1. CASE KeyTaken(jobs[s].key)
  BY <1>0, <1>1, AtMoves DEF InsertsBatch, SameTables
<1>2. CASE ~KeyTaken(jobs[s].key)
  <2>. DEFINE b == NewId(batches)
              row == [key |-> jobs[s].key, by |-> s]
              j == [jobs[s] EXCEPT !.at = "rows", !.batch = b]
  <2>1. /\ batches' = Put(batches, b, row) /\ jobs' = [jobs EXCEPT ![s] = j]
        /\ UNCHANGED <<cards, revisions, rfqs, searches>>
    BY <1>2 DEF InsertsBatch
  <2>2. b \in Nat /\ b \notin DOMAIN batches
    BY NewIdIs DEF IntakeInv, Shaped, Table
  <2>3. DOMAIN row = BatchFields /\ row.key = jobs[s].key /\ row.by = s
    BY DEF BatchFields
  <2>4. Numbered(jobs[s].items) /\ jobs[s].results = <<>>
        /\ {"key", "items", "results", "batch", "created"} \subseteq DOMAIN jobs[s]
    BY <1>0 DEF JobKept
  <2>5. /\ DOMAIN j = DOMAIN jobs[s] /\ j.at = "rows" /\ j.batch = b
        /\ j.items = jobs[s].items /\ j.results = <<>>
    BY <1>0, <2>4
  <2>. HIDE DEF b, row, j
  <2>6. /\ DOMAIN batches' = DOMAIN batches \cup {b} /\ batches'[b] = row
        /\ \A d \in DOMAIN batches : batches'[d] = batches[d]
    BY <2>1, <2>2 DEF Put
  <2>7. DOMAIN jobs' = Sessions /\ jobs'[s] = j /\ \A t \in Sessions \ {s} : jobs'[t] = jobs[t]
    BY <2>1, KeptOf
  <2>8. Shaped'
    BY <2>1, <2>2, <2>3, PutKeeps DEF IntakeInv, Shaped
  <2>9. Owned'
    <3>1. \A w : Writer(w) => Writer(w)'
      BY <1>0, <2>5, <2>7 DEF Writer
    <3>2. Writer(s)'
      BY <2>5, <2>7 DEF Writer
    <3>. QED  BY <2>1, <2>3, <2>6, <3>1, <3>2 DEF IntakeInv, Owned
  <2>10. Related'
    BY <2>1, <2>6 DEF IntakeInv, Related
  <2>11. OneKey'
    BY <1>2, <2>3, <2>6 DEF IntakeInv, BatchInv, OneKey, KeyTaken
  <2>12. \A r \in DOMAIN rfqs : rfqs[r].batch # b
    <3>1. b # None
      BY <2>2, IntakeAssumption
    <3>. QED  BY <2>2, <3>1 DEF IntakeInv, Related
  <2>13. JobKept(s)'
    <3>1. AtRows(s)'
      <4>1. <<>> \in Seq(Answer) /\ Len(<<>>) = 0
        OBVIOUS
      <4>2. 0 <= Len(jobs[s].items)
        BY <2>4 DEF Numbered
      <4>. QED  BY <2>1, <2>3, <2>5, <2>6, <2>7, <2>12, <4>1, <4>2 DEF AtRows
    <3>. QED  BY <1>0, <2>4, <2>5, <2>7, <3>1 DEF JobKept
  <2>14. ASSUME NEW t \in Sessions \ {s} PROVE JobKept(t)'
    <3>1. JobKept(t) /\ (AtRows(t) => AtRows(t)')
      BY <2>1, <2>6, <2>7, KeptOf DEF AtRows
    <3>. QED  BY <2>1, <2>7, <3>1 DEF JobKept
  <2>15. JobsKept'
    BY <2>7, <2>13, <2>14 DEF JobsKept
  <2>16. OneRow' /\ Searched' /\ CardInv'
    BY <2>1, ExpertsStay DEF IntakeInv, BatchInv, CardInv, OneRow, Searched, OneNumber, Drafted, Draft,
       Trail, Explains, Changing, About
  <2>. QED  BY <2>8, <2>9, <2>10, <2>11, <2>15, <2>16 DEF IntakeInv, BatchInv
<1>. QED  BY <1>1, <1>2

-----------------------------------------------------------------------------
(* A request is written, with its card, the card's revision and its searches. *)

\* The card of a request: none without a number, the one of the number, or a new one.
LEMMA CardForIs ==
  ASSUME IntakeInv, NEW w, NEW values, NEW c, c = CardFor(w, values),
         \A d \in DOMAIN cards : "cas" \in DOMAIN values /\ cards[d].cas = values["cas"] =>
           cards[d].by \in {Nobody, w}
  PROVE  \/ c = None
         \/ /\ c # None /\ c \in DOMAIN cards /\ "cas" \in DOMAIN values
            /\ cards[c].cas = values["cas"] /\ cards[c].by \in {Nobody, w}
         \/ /\ c # None /\ c = NewId(cards) /\ "cas" \in DOMAIN values
            /\ \A d \in DOMAIN cards : cards[d].cas # values["cas"]
<1>1. NewId(cards) \in Nat /\ NewId(cards) # None
  BY NewIdIs, IntakeAssumption DEF IntakeInv, Shaped, Table
<1>2. CASE "cas" \notin DOMAIN values
  BY <1>2 DEF CardFor
<1>3. CASE "cas" \in DOMAIN values
  <2>. DEFINE found == CardsOf(w, values["cas"])
  <2>1. found = {d \in DOMAIN cards : cards[d].cas = values["cas"] /\ cards[d].by \in {Nobody, w}}
    BY DEF CardsOf, Sees
  <2>2. CASE found = {}
    BY <1>1, <1>3, <2>1, <2>2 DEF CardFor
  <2>3. CASE found # {}
    <3>1. c \in found
      BY <1>3, <2>3 DEF CardFor
    <3>2. c # None
      BY <2>1, <3>1, IntakeAssumption DEF IntakeInv, Shaped, Table
    <3>. QED  BY <1>3, <2>1, <3>1, <3>2
  <2>. QED  BY <2>2, <2>3
<1>. QED  BY <1>2, <1>3

\* What is written when a request is.
Adds(w, id, batch, row, wanted, countries) ==
  /\ id \in Nat /\ id \notin DOMAIN rfqs /\ DOMAIN rfqs' = DOMAIN rfqs \cup {id}
  /\ \A r \in DOMAIN rfqs : rfqs'[r] = rfqs[r]
  /\ rfqs'[id].by = w /\ rfqs'[id].batch = batch /\ rfqs'[id].row = row /\ rfqs'[id].countries = wanted
  /\ DOMAIN cards \subseteq DOMAIN cards'
  /\ \A c \in DOMAIN cards : cards'[c] = cards[c]
  /\ \A c \in DOMAIN cards' : c \in DOMAIN cards \/ cards'[c].by = w
  /\ searches \subseteq searches'
  /\ \A run \in searches' \ searches : run.rfq = id /\ run.by = w /\ run.country \in countries
  /\ \A k \in countries : \E run \in searches' : run.rfq = id /\ run.country = k

LEMMA RequestWritten ==
  ASSUME IntakeInv, NEW w, NEW values, NEW batch, NEW proof, NEW countries,
         TablesAre(WithRequest(Tables, w, values, batch, proof, countries)),
         UNCHANGED <<batches, experts>>,
         batch # None => batch \in DOMAIN batches /\ batches[batch].by = w,
         \A d \in DOMAIN cards : "cas" \in DOMAIN values /\ cards[d].cas = values["cas"] =>
           cards[d].by \in {Nobody, w}
  PROVE  /\ Shaped' /\ Related' /\ CardInv'
         /\ Adds(w, NewId(rfqs), batch, ValueOf(values, "row"), CountriesOf(values), countries)
<1>. DEFINE c == CardFor(w, values)
            fresh == c # None /\ c \notin DOMAIN cards
            card == DraftCard(w, values["cas"], values["name"], proof)
            table == IF fresh THEN Put(cards, c, card) ELSE cards
            k == NewId(revisions)
            rev == Revision(w, c, "created_from_request", Reported(table[c]), table[c])
            id == NewId(rfqs)
            rfq == Request(w, values, batch, c, proof)
            of == IF c = None THEN None ELSE table[c]
<1>1. /\ cards' = table
      /\ revisions' = IF fresh THEN Put(revisions, k, rev) ELSE revisions
      /\ rfqs' = Put(rfqs, id, rfq)
      /\ searches' = searches \cup {SearchOf(w, id, rfq, country, of) : country \in countries}
  BY DEF TablesAre, WithRequest, Tables
<1>2. /\ DOMAIN card = CardFields /\ card.by = w /\ card.cas = values["cas"]
      /\ card.status = "unreviewed"
  BY DEF DraftCard, CardFields
<1>3. /\ DOMAIN rev = RevisionFields /\ rev.by = w /\ rev.card = c
      /\ \A f \in Audited : rev.snapshot[f] = table[c][f]
  BY DEF Revision, RevisionFields, Snapshot
<1>4. /\ DOMAIN rfq = RequestFields /\ rfq.by = w /\ rfq.batch = batch /\ rfq.substance = c
      /\ rfq.row = ValueOf(values, "row") /\ rfq.countries = CountriesOf(values)
      /\ rfq.cas = ValueOf(values, "cas")
  BY DEF Request, RequestFields
<1>5. \A country : /\ DOMAIN SearchOf(w, id, rfq, country, of) = RunFields
                   /\ SearchOf(w, id, rfq, country, of).rfq = id
                   /\ SearchOf(w, id, rfq, country, of).by = w
                   /\ SearchOf(w, id, rfq, country, of).country = country
  BY DEF SearchOf, RunFields
<1>6. /\ k \in Nat /\ k \notin DOMAIN revisions /\ \A i \in DOMAIN revisions : i < k
      /\ id \in Nat /\ id \notin DOMAIN rfqs
      /\ NewId(cards) \in Nat /\ NewId(cards) \notin DOMAIN cards
  BY NewIdIs DEF IntakeInv, Shaped, Table
<1>7. \/ c = None
      \/ /\ c # None /\ c \in DOMAIN cards /\ "cas" \in DOMAIN values
         /\ cards[c].cas = values["cas"] /\ cards[c].by \in {Nobody, w}
      \/ /\ c # None /\ c = NewId(cards) /\ "cas" \in DOMAIN values
         /\ \A d \in DOMAIN cards : cards[d].cas # values["cas"]
  BY CardForIs
<1>8. /\ DOMAIN rfqs' = DOMAIN rfqs \cup {id} /\ rfqs'[id] = rfq
      /\ \A r \in DOMAIN rfqs : rfqs'[r] = rfqs[r]
  BY <1>1, <1>6 DEF Put
<1>9. /\ fresh => /\ DOMAIN cards' = DOMAIN cards \cup {c} /\ cards'[c] = card /\ table[c] = card
      /\ ~fresh => cards' = cards
      /\ \A d \in DOMAIN cards : cards'[d] = cards[d]
      /\ fresh => c \in Nat
  BY <1>1, <1>6, <1>7 DEF Put
<1>10. /\ fresh => /\ DOMAIN revisions' = DOMAIN revisions \cup {k} /\ revisions'[k] = rev
       /\ ~fresh => revisions' = revisions
       /\ \A i \in DOMAIN revisions : revisions'[i] = revisions[i]
  BY <1>1, <1>6 DEF Put
<1>11. \A run \in searches' : run \in searches \/ \E country \in countries : run = SearchOf(w, id, rfq, country, of)
  BY <1>1
<1>12. searches \subseteq searches'
       /\ \A country \in countries : SearchOf(w, id, rfq, country, of) \in searches'
  BY <1>1
<1>13. c = None \/ c \in DOMAIN cards'
  BY <1>9
<1>14. Table(cards, CardFields) /\ Table(revisions, RevisionFields) /\ Table(rfqs, RequestFields)
       /\ Table(batches, BatchFields) /\ \A run \in searches : DOMAIN run = RunFields
  BY DEF IntakeInv, Shaped
<1>c. fresh => cards' = Put(cards, c, card) /\ revisions' = Put(revisions, k, rev)
  BY <1>1
<1>. HIDE DEF c, card, table, k, rev, id, rfq, of
<1>o. c # None => /\ c \in DOMAIN cards' /\ cards'[c].by \in {Nobody, w}
                 /\ "cas" \in DOMAIN values /\ cards'[c].cas = values["cas"]
  <2>1. CASE fresh
    BY <1>2, <1>7, <1>9, <2>1
  <2>2. CASE ~fresh
    BY <1>6, <1>7, <1>9, <2>2
  <2>. QED  BY <2>1, <2>2
<1>15. Shaped'
  <2>1. Table(rfqs, RequestFields)'
    BY <1>1, <1>4, <1>6, <1>14, PutKeeps
  <2>2. Table(cards, CardFields)'
    <3>1. CASE fresh
      BY <1>2, <1>9, <1>14, <1>c, <3>1, PutKeeps
    <3>2. CASE ~fresh
      BY <1>9, <1>14, <3>2
    <3>. QED  BY <3>1, <3>2
  <2>3. Table(revisions, RevisionFields)'
    <3>1. CASE fresh
      BY <1>3, <1>6, <1>14, <1>c, <3>1, PutKeeps
    <3>2. CASE ~fresh
      BY <1>10, <1>14, <3>2
    <3>. QED  BY <3>1, <3>2
  <2>4. \A run \in searches' : DOMAIN run = RunFields
    BY <1>5, <1>11, <1>14
  <2>. QED  BY <1>14, <2>1, <2>2, <2>3, <2>4 DEF Shaped
<1>16. Related'
  <2>1. ASSUME NEW r \in DOMAIN rfqs'
        PROVE  /\ rfqs'[r].batch # None =>
                    rfqs'[r].batch \in DOMAIN batches' /\ batches'[rfqs'[r].batch].by = rfqs'[r].by
               /\ rfqs'[r].substance # None =>
                    /\ rfqs'[r].substance \in DOMAIN cards'
                    /\ cards'[rfqs'[r].substance].by \in {Nobody, rfqs'[r].by}
    <3>1. CASE r = id
      <4>1. rfqs'[r].by = w /\ rfqs'[r].batch = batch /\ rfqs'[r].substance = c
        BY <1>4, <1>8, <3>1
      <4>2. batch # None => batch \in DOMAIN batches' /\ batches'[batch].by = w
        OBVIOUS
      <4>. QED  BY <1>o, <4>1, <4>2
    <3>2. CASE r # id
      <4>1. r \in DOMAIN rfqs /\ rfqs'[r] = rfqs[r]
        BY <1>8, <3>2
      <4>. QED  BY <1>9, <4>1 DEF IntakeInv, Related
    <3>. QED  BY <3>1, <3>2
  <2>2. ASSUME NEW i \in DOMAIN revisions'
        PROVE  revisions'[i].card \in DOMAIN cards' /\ cards'[revisions'[i].card].by = revisions'[i].by
    <3>1. CASE i \in DOMAIN revisions
      BY <1>9, <1>10, <3>1 DEF IntakeInv, Related
    <3>2. CASE i \notin DOMAIN revisions
      BY <1>2, <1>3, <1>9, <1>10, <3>2
    <3>. QED  BY <3>1, <3>2
  <2>3. ASSUME NEW run \in searches' PROVE run.rfq \in DOMAIN rfqs' /\ rfqs'[run.rfq].by = run.by
    <3>1. CASE run \in searches
      BY <1>6, <1>8, <3>1 DEF IntakeInv, Related
    <3>2. CASE run \notin searches
      BY <1>4, <1>5, <1>8, <1>11, <3>2
    <3>. QED  BY <3>1, <3>2
  <2>. QED  BY <2>1, <2>2, <2>3 DEF Related
<1>17. OneNumber'
  BY <1>2, <1>7, <1>9 DEF IntakeInv, CardInv, OneNumber
<1>18. Drafted'
  <2>1. ASSUME NEW d \in DOMAIN cards', cards'[d].status = "unreviewed"
        PROVE  \E r \in DOMAIN rfqs' : rfqs'[r].substance = d /\ rfqs'[r].by = cards'[d].by
    <3>1. CASE d \in DOMAIN cards
      <4>1. PICK r \in DOMAIN rfqs : rfqs[r].substance = d /\ rfqs[r].by = cards[d].by
        BY <1>9, <2>1, <3>1 DEF IntakeInv, CardInv, Drafted, Draft
      <4>. QED  BY <1>8, <1>9, <3>1, <4>1
    <3>2. CASE d \notin DOMAIN cards
      BY <1>2, <1>4, <1>8, <1>9, <3>2
    <3>. QED  BY <3>1, <3>2
  <2>2. ASSUME NEW r \in DOMAIN rfqs', rfqs'[r].substance # None,
               cards'[rfqs'[r].substance].status = "unreviewed"
        PROVE  rfqs'[r].cas = cards'[rfqs'[r].substance].cas
    <3>1. CASE r = id
      <4>1. rfqs'[r].cas = ValueOf(values, "cas") /\ rfqs'[r].substance = c
        BY <1>4, <1>8, <3>1
      <4>2. c # None
        BY <2>2, <4>1
      <4>. QED  BY <1>o, <4>1, <4>2 DEF ValueOf
    <3>2. CASE r # id
      <4>1. r \in DOMAIN rfqs /\ rfqs'[r] = rfqs[r]
        BY <1>8, <3>2
      <4>. QED  BY <1>9, <2>2, <4>1 DEF IntakeInv, CardInv, Drafted, Draft, Related
    <3>. QED  BY <3>1, <3>2
  <2>. QED  BY <2>1, <2>2 DEF Drafted, Draft
<1>19. ExpertsKept'
  <2>1. ASSUME NEW e \in Experts, experts[e].at = "saving", Saving(e) PROVE Saving(e)'
    <3>. DEFINE job == experts[e]
    <3>1. job.id # None => cards'[job.id] = cards[job.id] /\ job.id \in DOMAIN cards'
      BY <1>9, <2>1 DEF Saving
    <3>2. ASSUME job.intent.kind = "decide", NEW d \in DOMAIN cards', d # job.id,
                 rfqs'[job.intent.rfq].substance = d
          PROVE  cards'[d].status # "unreviewed"
      <4>1. job.intent.rfq \in DOMAIN rfqs /\ rfqs'[job.intent.rfq] = rfqs[job.intent.rfq]
        BY <1>8, <2>1, <3>2 DEF Saving
      <4>2. d \in DOMAIN cards
        BY <3>2, <4>1, <1>9, <1>6, IntakeAssumption DEF IntakeInv, Related
      <4>. QED  BY <1>9, <2>1, <3>2, <4>1, <4>2 DEF Saving, Draft
    <3>. QED  BY <1>8, <2>1, <3>1, <3>2 DEF Saving, Draft
  <2>. QED  BY <2>1 DEF IntakeInv, CardInv, ExpertsKept
<1>20. Trail'
  <2>1. ASSUME NEW d \in DOMAIN cards', NEW f \in Audited
        PROVE  \E i \in DOMAIN revisions' : Explains(i, d, f)' /\ revisions'[i].snapshot[f] = cards'[d][f]
    <3>1. CASE d \in DOMAIN cards
      <4>1. PICK i \in DOMAIN revisions : Explains(i, d, f) /\ revisions[i].snapshot[f] = cards[d][f]
        BY <3>1 DEF IntakeInv, CardInv, Trail
      <4>2. About(d)' = About(d) /\ Changing(d, f)' = Changing(d, f)
        BY <1>3, <1>10, <3>1 DEF About, Changing
      <4>3. Explains(i, d, f)'
        BY <1>10, <4>1, <4>2 DEF Explains
      <4>4. i \in DOMAIN revisions' /\ revisions'[i] = revisions[i] /\ cards'[d] = cards[d]
        BY <1>9, <1>10, <3>1
      <4>. QED  BY <4>1, <4>3, <4>4
    <3>2. CASE d \notin DOMAIN cards
      <4>1. fresh /\ d = c
        BY <1>9, <3>2
      <4>0. PICK n \in Nat : n = k
        BY <1>6
      <4>2. \A i \in DOMAIN revisions' : revisions'[i].card = d <=> i = n
        <5>1. \A i \in DOMAIN revisions : revisions[i].card # d
          BY <4>1 DEF IntakeInv, Related
        <5>2. n \in DOMAIN revisions' /\ revisions'[n].card = d
          BY <1>3, <1>10, <4>0, <4>1
        <5>3. ASSUME NEW i \in DOMAIN revisions', i # n PROVE revisions'[i].card # d
          BY <1>10, <4>0, <4>1, <5>1, <5>3
        <5>. QED  BY <5>2, <5>3
      <4>3. \A i : i \in About(d)' <=> i = n
        <5>1. n \in DOMAIN revisions'
          BY <1>10, <4>0, <4>1
        <5>. QED  BY <4>2, <5>1 DEF About
      <4>4. Explains(n, d, f)'
        <5>1. n <= n
          OBVIOUS
        <5>2. CASE f \in revisions'[n].changes
          BY <4>3, <5>1, <5>2 DEF Explains, Changing
        <5>3. CASE f \notin revisions'[n].changes
          BY <4>3, <5>1, <5>3 DEF Explains, Changing
        <5>. QED  BY <5>2, <5>3
      <4>5. revisions'[n].snapshot[f] = cards'[d][f] /\ n \in DOMAIN revisions'
        BY <1>3, <1>9, <1>10, <4>0, <4>1
      <4>. QED  BY <4>4, <4>5
    <3>. QED  BY <3>1, <3>2
  <2>. QED  BY <2>1 DEF Trail
<1>21. Adds(w, id, batch, ValueOf(values, "row"), CountriesOf(values), countries)
  <2>1. \A run \in searches' \ searches : run.rfq = id /\ run.by = w /\ run.country \in countries
    BY <1>5, <1>11
  <2>2. \A country \in countries : \E run \in searches' : run.rfq = id /\ run.country = country
    BY <1>5, <1>12
  <2>3. /\ DOMAIN cards \subseteq DOMAIN cards' /\ \A d \in DOMAIN cards : cards'[d] = cards[d]
        /\ \A d \in DOMAIN cards' : d \in DOMAIN cards \/ cards'[d].by = w
    BY <1>2, <1>9
  <2>. QED  BY <1>4, <1>6, <1>8, <1>12, <2>1, <2>2, <2>3 DEF Adds
<1>. QED  BY <1>15, <1>16, <1>17, <1>18, <1>19, <1>20, <1>21 DEF CardInv, id

\* The searches of the requests there were stay as they were, those of the new one are
\* of its countries.
LEMMA AddsSearches ==
  ASSUME IntakeInv, NEW w, NEW id, NEW batch, NEW row, NEW wanted, NEW countries,
         Adds(w, id, batch, row, wanted, countries), batch # None => wanted = countries
  PROVE  Searched'
<1>. SUFFICES ASSUME NEW r \in DOMAIN rfqs', rfqs'[r].batch # None
              PROVE  {run.country : run \in {x \in searches' : x.rfq = r}} = rfqs'[r].countries
  BY DEF Searched
<1>1. CASE r = id
  <2>1. \A run \in searches : run.rfq # id
    BY DEF IntakeInv, Related, Adds
  <2>2. \A k : k \in countries <=> \E run \in searches' : run.rfq = id /\ run.country = k
    BY <2>1 DEF Adds
  <2>3. rfqs'[r].countries = countries
    BY <1>1 DEF Adds
  <2>. QED  BY <1>1, <2>2, <2>3
<1>2. CASE r # id
  <2>1. r \in DOMAIN rfqs /\ rfqs'[r] = rfqs[r]
    BY <1>2 DEF Adds
  <2>2. {x \in searches' : x.rfq = r} = {x \in searches : x.rfq = r}
    BY <1>2 DEF Adds
  <2>. QED  BY <2>1, <2>2 DEF IntakeInv, BatchInv, Searched
<1>. QED  BY <1>1, <1>2

LEMMA AddsOwned ==
  ASSUME IntakeInv, NEW w, NEW id, NEW batch, NEW row, NEW wanted, NEW countries,
         Adds(w, id, batch, row, wanted, countries), UNCHANGED batches,
         \A b : Writer(b) => Writer(b)', Writer(w)'
  PROVE  Owned'
<1>1. ASSUME NEW c \in DOMAIN cards' PROVE Writer(cards[c].by)'
  <2>1. CASE c \in DOMAIN cards
    BY <2>1 DEF IntakeInv, Owned, Adds, Writer
  <2>2. CASE c \notin DOMAIN cards
    BY <2>2 DEF Adds, Writer
  <2>. QED  BY <2>1, <2>2
<1>2. ASSUME NEW r \in DOMAIN rfqs' PROVE Writer(rfqs[r].by)'
  <2>1. CASE r = id
    BY <2>1 DEF Adds, Writer
  <2>2. CASE r # id
    BY <2>2 DEF IntakeInv, Owned, Adds, Writer
  <2>. QED  BY <2>1, <2>2
<1>3. \A b \in DOMAIN batches' : Writer(batches[b].by)'
  BY DEF IntakeInv, Owned, Writer
<1>. QED  BY <1>1, <1>2, <1>3 DEF Owned

LEMMA CreatesRowKeeps ==
  ASSUME IntakeInv, NEW s \in Sessions, CreatesRow(s), UNCHANGED experts, Screened', Desked'
  PROVE  IntakeInv'
<1>. DEFINE values == Put(Values(s), "row", Item(s).row)
            batch == jobs[s].batch
            countries == CountriesOf(values)
<1>0. HasItem(s) /\ JobKept(s) /\ jobs[s].at = "rows" /\ UNCHANGED batches
  BY KeptOf DEF CreatesRow, HasItem
<1>1. CASE ~FitsColumns(Values(s))
  <2>1. Answers(s, None, "overlong") /\ TablesAre(Tables)
    BY <1>1 DEF CreatesRow, Savepoint
  <2>2. SameTables
    BY <1>0, <2>1 DEF TablesAre, Tables, SameTables
  <2>3. \E j : Becomes(s, j) /\ jobs' = [jobs EXCEPT ![s] = j]
    BY <1>0, <2>1, AnswersBecomes
  <2>. QED  BY <2>2, <2>3, HandlerMoves
<1>2. CASE FitsColumns(Values(s))
  <2>1. /\ Answers(s, NewId(rfqs), "created")
        /\ TablesAre(WithRequest(Tables, s, values, batch, None, countries))
    <3>1. \A before, after : Savepoint(before, after, FitsColumns(Values(s))) = after
      BY <1>2 DEF Savepoint
    <3>. QED  BY <1>2, <3>1 DEF CreatesRow
  <2>2. /\ DOMAIN values = DOMAIN Values(s) \cup {"row"} /\ values["row"] = Item(s).row
        /\ \A f \in DOMAIN Values(s) : f # "row" => values[f] = Values(s)[f]
    BY DEF Put
  <2>3. AtRows(s) /\ Numbered(jobs[s].items) /\ batch \in DOMAIN batches /\ batches[batch].by = s
    BY <1>0 DEF JobKept, AtRows
  <2>4. batch # None
    BY <2>3, IntakeAssumption DEF IntakeInv, Shaped, Table
  <2>. HIDE DEF values
  <2>5. /\ ValueOf(values, "row") = Item(s).row
        /\ "cas" \in DOMAIN values => ValueOf(Values(s), "cas") = values["cas"]
    BY <2>2 DEF ValueOf, CountriesOf
  <2>6. \A d \in DOMAIN cards : "cas" \in DOMAIN values /\ cards[d].cas = values["cas"] =>
           cards[d].by \in {Nobody, s}
    BY <2>5 DEF CreatesRow, NumberHeld, Sees
  <2>c. CountriesOf(values) = countries
    OBVIOUS
  <2>. HIDE DEF batch, countries
  <2>7. /\ Shaped' /\ Related' /\ CardInv'
        /\ Adds(s, NewId(rfqs), batch, ValueOf(values, "row"), CountriesOf(values), countries)
    BY <1>0, <2>1, <2>3, <2>6, RequestWritten
  <2>8. PICK id \in Nat : id = NewId(rfqs) /\ Adds(s, id, batch, Item(s).row, countries, countries)
    <3>1. NewId(rfqs) \in Nat
      BY <2>7 DEF Adds
    <3>. QED  BY <2>5, <2>7, <2>c, <3>1
  <2>9. NewId(rfqs) \in Nat \cup {None}
    BY <2>8
  <2>10. \E j : /\ Becomes(s, j) /\ jobs' = [jobs EXCEPT ![s] = j]
                /\ j.results = Append(jobs[s].results, [row |-> Item(s).row, rfq |-> NewId(rfqs), why |-> "created"])
                /\ Len(j.results) = Len(jobs[s].results) + 1
    BY <1>0, <2>1, <2>9, AnswersBecomes
  <2>11. PICK j : /\ Becomes(s, j) /\ jobs' = [jobs EXCEPT ![s] = j]
                  /\ Len(j.results) = Len(jobs[s].results) + 1
    BY <2>10
  <2>12. DOMAIN jobs' = Sessions /\ jobs'[s] = j /\ \A t \in Sessions \ {s} : jobs'[t] = jobs[t]
    BY <2>11, KeptOf
  <2>13. j.at = "rows" /\ j.items = jobs[s].items /\ j.batch = jobs[s].batch
         /\ j.results \in Seq(Answer) /\ Len(j.results) <= Len(j.items)
         /\ {"key", "items", "results", "batch", "created"} \subseteq DOMAIN j /\ "at" \in DOMAIN j
    BY <1>0, <2>11 DEF Becomes
  <2>14. Owned'
    <3>1. \A b : Writer(b) => Writer(b)'
      BY <1>0, <2>12, <2>13 DEF Writer
    <3>2. Writer(s)'
      BY <2>12, <2>13 DEF Writer
    <3>. QED  BY <1>0, <2>8, <3>1, <3>2, AddsOwned
  <2>15. Searched'
    BY <2>8, AddsSearches
  <2>16. PICK n \in Nat, m \in Nat : /\ n = Len(jobs[s].results) /\ m = Len(jobs[s].items) /\ n < m
                                     /\ n + 1 = Len(j.results) /\ DOMAIN jobs[s].items = 1 .. m
    <3>1. Len(jobs[s].results) \in Nat /\ Len(jobs[s].items) \in Nat
      BY <2>3, LenProperties DEF AtRows, Numbered
    <3>. QED  BY <1>0, <2>3, <2>11, <3>1 DEF HasItem, Numbered
  <2>17. Item(s).row = jobs[s].items[n + 1].row
    BY <2>16 DEF Item
  <2>18. \A r \in DOMAIN rfqs : rfqs[r].batch = batch => \E i \in 1 .. n : rfqs[r].row = jobs[s].items[i].row
    BY <2>3, <2>16 DEF AtRows, batch
  <2>19. \A i \in 1 .. n : jobs[s].items[i].row # Item(s).row
    <3>1. \A i \in 1 .. n : i \in 1 .. m /\ n + 1 \in 1 .. m /\ i # n + 1
      BY <2>16
    <3>. QED  BY <2>3, <2>16, <2>17, <3>1 DEF Numbered
  <2>20. OneRow'
    <3>1. \A r \in DOMAIN rfqs : rfqs[r].batch = batch => rfqs[r].row # Item(s).row
      BY <2>18, <2>19
    <3>. SUFFICES ASSUME NEW r \in DOMAIN rfqs', NEW q \in DOMAIN rfqs',
                         rfqs'[r].batch # None, rfqs'[r].batch = rfqs'[q].batch,
                         rfqs'[r].row = rfqs'[q].row, r # q
                  PROVE  FALSE
      BY DEF OneRow
    <3>2. CASE r = id
      BY <2>8, <3>1, <3>2 DEF Adds
    <3>3. CASE q = id
      BY <2>8, <3>1, <3>3 DEF Adds
    <3>4. CASE r # id /\ q # id
      BY <2>8, <3>4 DEF Adds, IntakeInv, BatchInv, OneRow
    <3>. QED  BY <3>2, <3>3, <3>4
  <2>21. AtRows(s)'
    <3>1. \A r \in DOMAIN rfqs' : rfqs'[r].batch = batch =>
             \E i \in 1 .. (n + 1) : rfqs'[r].row = jobs[s].items[i].row
      <4>1. ASSUME NEW r \in DOMAIN rfqs', rfqs'[r].batch = batch
            PROVE  \E i \in 1 .. (n + 1) : rfqs'[r].row = jobs[s].items[i].row
        <5>1. CASE r = id
          <6>1. rfqs'[r].row = jobs[s].items[n + 1].row /\ n + 1 \in 1 .. (n + 1)
            BY <2>8, <2>17, <5>1 DEF Adds
          <6>. QED  BY <6>1
        <5>2. CASE r # id
          <6>1. PICK i \in 1 .. n : rfqs[r].row = jobs[s].items[i].row
            BY <2>8, <2>18, <4>1, <5>2 DEF Adds
          <6>2. rfqs'[r].row = jobs[s].items[i].row /\ i \in 1 .. (n + 1)
            BY <2>8, <5>2, <6>1 DEF Adds
          <6>. QED  BY <6>2
        <5>. QED  BY <5>1, <5>2
      <4>. QED  BY <4>1
    <3>. QED  BY <1>0, <2>3, <2>12, <2>13, <2>16, <3>1 DEF AtRows, batch
  <2>22. JobKept(s)'
    BY <2>3, <2>12, <2>13, <2>21 DEF JobKept
  <2>23. ASSUME NEW t \in Sessions \ {s} PROVE JobKept(t)'
    <3>1. JobKept(t) /\ jobs'[t] = jobs[t]
      BY <2>12, KeptOf
    <3>2. AtRows(t) => AtRows(t)'
      <4>. SUFFICES ASSUME AtRows(t) PROVE AtRows(t)'
        OBVIOUS
      <4>1. jobs[t].batch # batch
        BY <2>3 DEF AtRows
      <4>2. \A r \in DOMAIN rfqs' : rfqs'[r].batch = jobs[t].batch => r \in DOMAIN rfqs /\ rfqs'[r] = rfqs[r]
        BY <2>8, <4>1 DEF Adds
      <4>. QED  BY <1>0, <3>1, <4>2 DEF AtRows
    <3>3. jobs[t].at = "runs" => jobs[t].rfq \in DOMAIN rfqs' /\ rfqs'[jobs[t].rfq] = rfqs[jobs[t].rfq]
      BY <2>8, <3>1 DEF JobKept, Adds
    <3>. QED  BY <3>1, <3>2, <3>3 DEF JobKept
  <2>24. JobsKept'
    BY <2>12, <2>22, <2>23 DEF JobsKept
  <2>25. OneKey'
    BY <1>0 DEF IntakeInv, BatchInv, OneKey
  <2>. QED  BY <2>7, <2>14, <2>15, <2>20, <2>24, <2>25 DEF IntakeInv, BatchInv
<1>. QED  BY <1>1, <1>2

LEMMA InsertsRequestKeeps ==
  ASSUME IntakeInv, NEW s \in Sessions, InsertsRequest(s), UNCHANGED experts, Screened', Desked'
  PROVE  IntakeInv'
<1>. DEFINE values == jobs[s].values
<1>1. PICK proof : TablesAre(WithRequest(Tables, Nobody, values, None, proof, {}))
  BY DEF InsertsRequest
<1>2. /\ UNCHANGED batches /\ jobs[s].at = "request" /\ ~NumberHeld(s, ValueOf(values, "cas"))
      /\ jobs' = [jobs EXCEPT ![s] = [at |-> "runs", rfq |-> NewId(rfqs), for |-> "form"]]
  BY DEF InsertsRequest
<1>3. \A d \in DOMAIN cards : "cas" \in DOMAIN values /\ cards[d].cas = values["cas"] =>
         cards[d].by \in {Nobody, Nobody}
  <2>1. \A d \in DOMAIN cards : cards[d].by # s
    BY <1>2, IntakeAssumption DEF IntakeInv, Owned, Writer
  <2>. QED  BY <1>2, <2>1 DEF NumberHeld, Sees, ValueOf
<1>. HIDE DEF values
<1>4. /\ Shaped' /\ Related' /\ CardInv'
      /\ Adds(Nobody, NewId(rfqs), None, ValueOf(values, "row"), CountriesOf(values), {})
  BY <1>1, <1>2, <1>3, RequestWritten
<1>5. PICK id \in Nat : id = NewId(rfqs)
                        /\ Adds(Nobody, id, None, ValueOf(values, "row"), CountriesOf(values), {})
  <2>1. NewId(rfqs) \in Nat
    BY <1>4 DEF Adds
  <2>. QED  BY <1>4, <2>1
<1>6. /\ DOMAIN jobs' = Sessions /\ jobs'[s] = [at |-> "runs", rfq |-> id, for |-> "form"]
      /\ \A t \in Sessions \ {s} : jobs'[t] = jobs[t]
  BY <1>2, <1>5, KeptOf
<1>7. Owned'
  <2>1. \A b : Writer(b) => Writer(b)'
    BY <1>2, <1>6 DEF Writer
  <2>2. Writer(Nobody)'
    BY DEF Writer
  <2>. QED  BY <1>2, <1>5, <2>1, <2>2, AddsOwned
<1>8. Searched'
  BY <1>5, AddsSearches
<1>9. OneRow'
  <2>. SUFFICES ASSUME NEW r \in DOMAIN rfqs', NEW q \in DOMAIN rfqs',
                       rfqs'[r].batch # None, rfqs'[r].batch = rfqs'[q].batch,
                       rfqs'[r].row = rfqs'[q].row
                PROVE  r = q
    BY DEF OneRow
  <2>1. r # id /\ q # id
    BY <1>5 DEF Adds
  <2>. QED  BY <1>5, <2>1 DEF Adds, IntakeInv, BatchInv, OneRow
<1>10. JobKept(s)'
  BY <1>5, <1>6 DEF JobKept, Adds
<1>11. ASSUME NEW t \in Sessions \ {s} PROVE JobKept(t)'
  <2>1. JobKept(t) /\ jobs'[t] = jobs[t]
    BY <1>6, KeptOf
  <2>2. AtRows(t) => AtRows(t)'
    <3>. SUFFICES ASSUME AtRows(t) PROVE AtRows(t)'
      OBVIOUS
    <3>1. jobs[t].batch # None
      BY IntakeAssumption DEF AtRows, IntakeInv, Shaped, Table
    <3>2. \A r \in DOMAIN rfqs' : rfqs'[r].batch = jobs[t].batch => r \in DOMAIN rfqs /\ rfqs'[r] = rfqs[r]
      BY <1>5, <3>1 DEF Adds
    <3>. QED  BY <1>2, <2>1, <3>2 DEF AtRows
  <2>3. jobs[t].at = "runs" => jobs[t].rfq \in DOMAIN rfqs' /\ rfqs'[jobs[t].rfq] = rfqs[jobs[t].rfq]
    BY <1>5, <2>1 DEF JobKept, Adds
  <2>. QED  BY <2>1, <2>2, <2>3 DEF JobKept
<1>12. JobsKept'
  BY <1>6, <1>10, <1>11 DEF JobsKept
<1>13. OneKey'
  BY <1>2 DEF IntakeInv, BatchInv, OneKey
<1>. QED  BY <1>4, <1>7, <1>8, <1>9, <1>12, <1>13 DEF IntakeInv, BatchInv

LEMMA QueuesSearchesKeeps ==
  ASSUME IntakeInv, NEW s \in Sessions, QueuesSearches(s), UNCHANGED experts, Screened', Desked'
  PROVE  IntakeInv'
<1>. DEFINE id == jobs[s].rfq
            j == [jobs[s] EXCEPT !.at = "created"]
<1>1. /\ jobs[s].at = "runs" /\ UNCHANGED <<cards, revisions, rfqs, batches>>
      /\ jobs' = [jobs EXCEPT ![s] = j]
  BY DEF QueuesSearches
<1>2. JobKept(s) /\ "at" \in DOMAIN jobs[s]
  BY KeptOf
<1>3. id \in DOMAIN rfqs /\ rfqs[id].by = Nobody /\ rfqs[id].batch = None
  BY <1>1, <1>2 DEF JobKept
<1>4. Becomes(s, j)
  BY <1>1, <1>2 DEF Becomes
<1>. HIDE DEF j
<1>5. Owned' /\ JobsKept'
  BY <1>1, <1>4, JobMoves
<1>6. \A run \in searches' \ searches : run.rfq = id /\ run.by = Nobody /\ DOMAIN run = RunFields
  <2>1. \A rfq, country, card :
          LET run == SearchOf(Nobody, id, rfq, country, card)
          IN  run.rfq = id /\ run.by = Nobody /\ DOMAIN run = RunFields
    BY DEF SearchOf, RunFields
  <2>2. \A run \in searches' \ searches :
          \E rfq, country, card : run = SearchOf(Nobody, id, rfq, country, card)
    BY DEF QueuesSearches
  <2>. QED  BY <2>1, <2>2
<1>7. searches \subseteq searches'
  BY DEF QueuesSearches
<1>. HIDE DEF id
<1>8. Shaped' /\ Related'
  BY <1>1, <1>3, <1>6 DEF IntakeInv, Shaped, Related
<1>9. Searched'
  <2>. SUFFICES ASSUME NEW r \in DOMAIN rfqs, rfqs[r].batch # None
                PROVE  {run.country : run \in {x \in searches' : x.rfq = r}} = rfqs[r].countries
    BY <1>1 DEF Searched
  <2>1. {x \in searches' : x.rfq = r} = {x \in searches : x.rfq = r}
    BY <1>3, <1>6, <1>7
  <2>. QED  BY <2>1 DEF IntakeInv, BatchInv, Searched
<1>10. OneKey' /\ OneRow' /\ CardInv'
  BY <1>1, ExpertsStay DEF IntakeInv, BatchInv, CardInv, OneKey, OneRow, OneNumber, Drafted, Draft,
     Trail, Explains, Changing, About
<1>. QED  BY <1>5, <1>8, <1>9, <1>10 DEF IntakeInv, BatchInv

-----------------------------------------------------------------------------
(* The end of a transaction. *)

\* A committed row is as it was, but for who wrote it.
LEMMA KeepsIs ==
  ASSUME NEW s, NEW row, NEW fields, DOMAIN row = fields, "by" \in fields
  PROVE  /\ DOMAIN Keeps(s, row) = fields
         /\ Keeps(s, row).by = IF row.by = s THEN Nobody ELSE row.by
         /\ \A f \in fields \ {"by"} : Keeps(s, row)[f] = row[f]
BY DEF Keeps

\* A row of each table, as it is after the commit.
LEMMA CommitIs ==
  ASSUME IntakeInv, NEW s \in Sessions, CommitsBatch(s)
  PROVE  /\ DOMAIN cards' = DOMAIN cards /\ DOMAIN revisions' = DOMAIN revisions
         /\ DOMAIN rfqs' = DOMAIN rfqs /\ DOMAIN batches' = DOMAIN batches
         /\ \A c \in DOMAIN cards :
              /\ DOMAIN cards'[c] = CardFields
              /\ cards'[c].by = IF cards[c].by = s THEN Nobody ELSE cards[c].by
              /\ \A f \in Audited : cards'[c][f] = cards[c][f]
         /\ \A i \in DOMAIN revisions :
              /\ DOMAIN revisions'[i] = RevisionFields
              /\ revisions'[i].by = IF revisions[i].by = s THEN Nobody ELSE revisions[i].by
              /\ revisions'[i].card = revisions[i].card /\ revisions'[i].changes = revisions[i].changes
              /\ revisions'[i].snapshot = revisions[i].snapshot
         /\ \A r \in DOMAIN rfqs :
              /\ DOMAIN rfqs'[r] = RequestFields
              /\ rfqs'[r].by = IF rfqs[r].by = s THEN Nobody ELSE rfqs[r].by
              /\ rfqs'[r].batch = rfqs[r].batch /\ rfqs'[r].row = rfqs[r].row
              /\ rfqs'[r].substance = rfqs[r].substance /\ rfqs'[r].cas = rfqs[r].cas
              /\ rfqs'[r].countries = rfqs[r].countries
         /\ \A b \in DOMAIN batches :
              /\ DOMAIN batches'[b] = BatchFields
              /\ batches'[b].by = IF batches[b].by = s THEN Nobody ELSE batches[b].by
              /\ batches'[b].key = batches[b].key
<1>1. /\ cards' = [c \in DOMAIN cards |-> Keeps(s, cards[c])]
      /\ revisions' = [i \in DOMAIN revisions |-> Keeps(s, revisions[i])]
      /\ rfqs' = [r \in DOMAIN rfqs |-> Keeps(s, rfqs[r])]
      /\ batches' = [b \in DOMAIN batches |-> Keeps(s, batches[b])]
  BY DEF CommitsBatch
<1>2. /\ \A c \in DOMAIN cards : DOMAIN cards[c] = CardFields
      /\ \A i \in DOMAIN revisions : DOMAIN revisions[i] = RevisionFields
      /\ \A r \in DOMAIN rfqs : DOMAIN rfqs[r] = RequestFields
      /\ \A b \in DOMAIN batches : DOMAIN batches[b] = BatchFields
  BY DEF IntakeInv, Shaped, Table
<1>3. ASSUME NEW c \in DOMAIN cards
      PROVE  /\ DOMAIN cards'[c] = CardFields
             /\ cards'[c].by = IF cards[c].by = s THEN Nobody ELSE cards[c].by
             /\ \A f \in Audited : cards'[c][f] = cards[c][f]
  <2>1. "by" \in CardFields /\ Audited \subseteq CardFields \ {"by"}
    BY DEF CardFields, Audited
  <2>2. cards'[c] = Keeps(s, cards[c])
    BY <1>1
  <2>. QED  BY <1>2, <2>1, <2>2, KeepsIs
<1>4. ASSUME NEW i \in DOMAIN revisions
      PROVE  /\ DOMAIN revisions'[i] = RevisionFields
             /\ revisions'[i].by = IF revisions[i].by = s THEN Nobody ELSE revisions[i].by
             /\ revisions'[i].card = revisions[i].card /\ revisions'[i].changes = revisions[i].changes
             /\ revisions'[i].snapshot = revisions[i].snapshot
  <2>1. "by" \in RevisionFields /\ {"card", "changes", "snapshot"} \subseteq RevisionFields \ {"by"}
    BY DEF RevisionFields
  <2>2. revisions'[i] = Keeps(s, revisions[i])
    BY <1>1
  <2>. QED  BY <1>2, <2>1, <2>2, KeepsIs
<1>5. ASSUME NEW r \in DOMAIN rfqs
      PROVE  /\ DOMAIN rfqs'[r] = RequestFields
             /\ rfqs'[r].by = IF rfqs[r].by = s THEN Nobody ELSE rfqs[r].by
             /\ rfqs'[r].batch = rfqs[r].batch /\ rfqs'[r].row = rfqs[r].row
             /\ rfqs'[r].substance = rfqs[r].substance /\ rfqs'[r].cas = rfqs[r].cas
             /\ rfqs'[r].countries = rfqs[r].countries
  <2>1. "by" \in RequestFields
        /\ {"batch", "row", "substance", "cas", "countries"} \subseteq RequestFields \ {"by"}
    BY DEF RequestFields
  <2>2. rfqs'[r] = Keeps(s, rfqs[r])
    BY <1>1
  <2>. QED  BY <1>2, <2>1, <2>2, KeepsIs
<1>6. ASSUME NEW b \in DOMAIN batches
      PROVE  /\ DOMAIN batches'[b] = BatchFields
             /\ batches'[b].by = IF batches[b].by = s THEN Nobody ELSE batches[b].by
             /\ batches'[b].key = batches[b].key
  <2>1. "by" \in BatchFields /\ "key" \in BatchFields \ {"by"}
    BY DEF BatchFields
  <2>2. batches'[b] = Keeps(s, batches[b])
    BY <1>1
  <2>. QED  BY <1>2, <2>1, <2>2, KeepsIs
<1>. QED  BY <1>1, <1>3, <1>4, <1>5, <1>6

\* The same for the searches.
LEMMA RunsCommitted ==
  ASSUME IntakeInv, NEW s \in Sessions, CommitsBatch(s)
  PROVE  /\ \A x \in searches' : \E run \in searches :
              /\ DOMAIN x = RunFields /\ x.rfq = run.rfq /\ x.country = run.country
              /\ x.by = IF run.by = s THEN Nobody ELSE run.by
         /\ \A run \in searches : \E x \in searches' : x.rfq = run.rfq /\ x.country = run.country
<1>1. searches' = {Keeps(s, run) : run \in searches}
  BY DEF CommitsBatch
<1>2. ASSUME NEW run \in searches
      PROVE  /\ DOMAIN Keeps(s, run) = RunFields
             /\ Keeps(s, run).by = IF run.by = s THEN Nobody ELSE run.by
             /\ Keeps(s, run).rfq = run.rfq /\ Keeps(s, run).country = run.country
  <2>1. "by" \in RunFields /\ {"rfq", "country"} \subseteq RunFields \ {"by"}
    BY DEF RunFields
  <2>2. DOMAIN run = RunFields
    BY DEF IntakeInv, Shaped
  <2>. QED  BY <2>1, <2>2, KeepsIs
<1>. QED  BY <1>1, <1>2

LEMMA CommitsBatchKeeps ==
  ASSUME IntakeInv, NEW s \in Sessions, CommitsBatch(s), UNCHANGED experts, Screened', Desked'
  PROVE  IntakeInv'
<1>. DEFINE then(b) == IF b = s THEN Nobody ELSE b
            j == [jobs[s] EXCEPT !.at = "created"]
<1>0. Nobody # s /\ \A b : then(b) # s
  BY IntakeAssumption
<1>1. /\ DOMAIN cards' = DOMAIN cards /\ DOMAIN revisions' = DOMAIN revisions
      /\ DOMAIN rfqs' = DOMAIN rfqs /\ DOMAIN batches' = DOMAIN batches
  BY CommitIs
<1>2. \A c \in DOMAIN cards :
         /\ DOMAIN cards'[c] = CardFields /\ cards'[c].by = then(cards[c].by)
         /\ \A f \in Audited : cards'[c][f] = cards[c][f]
  BY CommitIs
<1>3. \A i \in DOMAIN revisions :
         /\ DOMAIN revisions'[i] = RevisionFields /\ revisions'[i].by = then(revisions[i].by)
         /\ revisions'[i].card = revisions[i].card /\ revisions'[i].changes = revisions[i].changes
         /\ revisions'[i].snapshot = revisions[i].snapshot
  BY CommitIs
<1>4. \A r \in DOMAIN rfqs :
         /\ DOMAIN rfqs'[r] = RequestFields /\ rfqs'[r].by = then(rfqs[r].by)
         /\ rfqs'[r].batch = rfqs[r].batch /\ rfqs'[r].row = rfqs[r].row
         /\ rfqs'[r].substance = rfqs[r].substance /\ rfqs'[r].cas = rfqs[r].cas
         /\ rfqs'[r].countries = rfqs[r].countries
  BY CommitIs
<1>5. \A b \in DOMAIN batches :
         /\ DOMAIN batches'[b] = BatchFields /\ batches'[b].by = then(batches[b].by)
         /\ batches'[b].key = batches[b].key
  BY CommitIs
<1>6. /\ \A x \in searches' : \E run \in searches :
            DOMAIN x = RunFields /\ x.rfq = run.rfq /\ x.country = run.country /\ x.by = then(run.by)
      /\ \A run \in searches : \E x \in searches' : x.rfq = run.rfq /\ x.country = run.country
  BY RunsCommitted
<1>7. /\ DOMAIN jobs' = Sessions /\ jobs'[s].at = "created" /\ "at" \in DOMAIN jobs'[s]
      /\ \A t \in Sessions \ {s} : jobs'[t] = jobs[t]
  BY KeptOf DEF CommitsBatch
<1>8. /\ \A c \in DOMAIN cards : cards'[c].cas = cards[c].cas /\ cards'[c].status = cards[c].status
      /\ \A b : b # s => then(b) = b
      /\ then(s) = Nobody
  BY <1>2 DEF Audited
<1>9. Shaped'
  BY <1>1, <1>2, <1>3, <1>4, <1>5, <1>6 DEF IntakeInv, Shaped, Table
<1>10. Owned'
  <2>1. \A b : Writer(b) => then(b) = Nobody \/ (then(b) \in Sessions \ {s} /\ jobs'[then(b)].at = "rows")
    BY <1>7 DEF Writer
  <2>2. /\ \A c \in DOMAIN cards : Writer(cards[c].by)
        /\ \A r \in DOMAIN rfqs : Writer(rfqs[r].by)
        /\ \A b \in DOMAIN batches : Writer(batches[b].by)
    BY DEF IntakeInv, Owned
  <2>. HIDE DEF then
  <2>3. \A c \in DOMAIN cards' : Writer(cards[c].by)'
    BY <1>1, <1>2, <2>1, <2>2 DEF Writer
  <2>4. \A r \in DOMAIN rfqs' : Writer(rfqs[r].by)'
    BY <1>1, <1>4, <2>1, <2>2 DEF Writer
  <2>5. \A b \in DOMAIN batches' : Writer(batches[b].by)'
    BY <1>1, <1>5, <2>1, <2>2 DEF Writer
  <2>. QED  BY <2>3, <2>4, <2>5 DEF Owned
<1>. HIDE DEF then
<1>11. Related'
  <2>1. ASSUME NEW r \in DOMAIN rfqs'
        PROVE  /\ rfqs'[r].batch # None =>
                    rfqs'[r].batch \in DOMAIN batches' /\ batches'[rfqs'[r].batch].by = rfqs'[r].by
               /\ rfqs'[r].substance # None =>
                    /\ rfqs'[r].substance \in DOMAIN cards'
                    /\ cards'[rfqs'[r].substance].by \in {Nobody, rfqs'[r].by}
    <3>1. r \in DOMAIN rfqs
      BY <1>1
    <3>2. rfqs[r].batch # None => rfqs[r].batch \in DOMAIN batches /\ batches[rfqs[r].batch].by = rfqs[r].by
      BY <3>1 DEF IntakeInv, Related
    <3>3. rfqs[r].substance # None =>
            rfqs[r].substance \in DOMAIN cards /\ cards[rfqs[r].substance].by \in {Nobody, rfqs[r].by}
      BY <3>1 DEF IntakeInv, Related
    <3>4. then(Nobody) = Nobody
      BY <1>0, <1>8
    <3>. QED  BY <1>1, <1>2, <1>4, <1>5, <3>1, <3>2, <3>3, <3>4
  <2>2. ASSUME NEW i \in DOMAIN revisions'
        PROVE  revisions'[i].card \in DOMAIN cards' /\ cards'[revisions'[i].card].by = revisions'[i].by
    <3>1. i \in DOMAIN revisions /\ revisions[i].card \in DOMAIN cards /\ cards[revisions[i].card].by = revisions[i].by
      BY <1>1 DEF IntakeInv, Related
    <3>. QED  BY <1>1, <1>2, <1>3, <3>1
  <2>3. ASSUME NEW x \in searches' PROVE x.rfq \in DOMAIN rfqs' /\ rfqs'[x.rfq].by = x.by
    <3>1. PICK run \in searches : x.rfq = run.rfq /\ x.by = then(run.by)
      BY <1>6
    <3>2. run.rfq \in DOMAIN rfqs /\ rfqs[run.rfq].by = run.by
      BY DEF IntakeInv, Related
    <3>. QED  BY <1>1, <1>4, <3>1, <3>2
  <2>. QED  BY <2>1, <2>2, <2>3 DEF Related
<1>12. OneKey' /\ OneRow' /\ OneNumber'
  BY <1>1, <1>4, <1>5, <1>8 DEF IntakeInv, BatchInv, CardInv, OneKey, OneRow, OneNumber
<1>13. JobsKept'
  <2>1. JobKept(s)'
    BY <1>7 DEF JobKept
  <2>2. ASSUME NEW t \in Sessions \ {s} PROVE JobKept(t)'
    <3>1. JobKept(t) /\ jobs'[t] = jobs[t] /\ t # s /\ t # Nobody
      BY <1>7, KeptOf, IntakeAssumption
    <3>2. AtRows(t) => AtRows(t)'
      BY <1>1, <1>4, <1>5, <1>8, <3>1 DEF AtRows
    <3>3. then(Nobody) = Nobody
      BY <1>0, <1>8
    <3>. QED  BY <1>1, <1>4, <3>1, <3>2, <3>3 DEF JobKept
  <2>. QED  BY <1>7, <2>1, <2>2 DEF JobsKept
<1>14. Searched'
  <2>. SUFFICES ASSUME NEW r \in DOMAIN rfqs', rfqs'[r].batch # None
                PROVE  {run.country : run \in {x \in searches' : x.rfq = r}} = rfqs'[r].countries
    BY DEF Searched
  <2>1. r \in DOMAIN rfqs /\ rfqs[r].batch # None /\ rfqs'[r].countries = rfqs[r].countries
    BY <1>1, <1>4
  <2>2. {run.country : run \in {x \in searches : x.rfq = r}} = rfqs[r].countries
    BY <2>1 DEF IntakeInv, BatchInv, Searched
  <2>3. \A k : (\E x \in searches' : x.rfq = r /\ x.country = k) <=> (\E x \in searches : x.rfq = r /\ x.country = k)
    BY <1>6
  <2>. QED  BY <2>1, <2>2, <2>3
<1>15. Drafted'
  <2>1. ASSUME NEW d \in DOMAIN cards', cards'[d].status = "unreviewed"
        PROVE  \E r \in DOMAIN rfqs' : rfqs'[r].substance = d /\ rfqs'[r].by = cards'[d].by
    <3>1. PICK r \in DOMAIN rfqs : rfqs[r].substance = d /\ rfqs[r].by = cards[d].by
      BY <1>1, <1>8, <2>1 DEF IntakeInv, CardInv, Drafted, Draft
    <3>. QED  BY <1>1, <1>2, <1>4, <3>1
  <2>2. ASSUME NEW r \in DOMAIN rfqs', rfqs'[r].substance # None,
               cards'[rfqs'[r].substance].status = "unreviewed"
        PROVE  rfqs'[r].cas = cards'[rfqs'[r].substance].cas
    <3>1. r \in DOMAIN rfqs /\ rfqs[r].substance # None /\ rfqs[r].substance \in DOMAIN cards
      BY <1>1, <1>4, <2>2 DEF IntakeInv, Related
    <3>. QED  BY <1>4, <1>8, <2>2, <3>1 DEF IntakeInv, CardInv, Drafted, Draft
  <2>. QED  BY <2>1, <2>2 DEF Drafted, Draft
<1>16. ExpertsKept'
  <2>1. then(Nobody) = Nobody
    BY <1>0, <1>8
  <2>2. ASSUME NEW e \in Experts, Saving(e) PROVE Saving(e)'
    <3>1. experts' = experts
      OBVIOUS
    <3>. QED  BY <1>1, <1>2, <1>4, <1>8, <2>1, <2>2, <3>1 DEF Saving, Draft
  <2>. QED  BY <2>2 DEF IntakeInv, CardInv, ExpertsKept
<1>17. Trail'
  <2>1. ASSUME NEW c \in DOMAIN cards', NEW f \in Audited
        PROVE  \E i \in DOMAIN revisions' : Explains(i, c, f)' /\ revisions'[i].snapshot[f] = cards'[c][f]
    <3>1. PICK i \in DOMAIN revisions : Explains(i, c, f) /\ revisions[i].snapshot[f] = cards[c][f]
      BY <1>1 DEF IntakeInv, CardInv, Trail
    <3>2. About(c)' = About(c) /\ Changing(c, f)' = Changing(c, f)
      BY <1>1, <1>3 DEF About, Changing
    <3>3. Explains(i, c, f)'
      BY <1>1, <3>1, <3>2 DEF Explains
    <3>. QED  BY <1>1, <1>2, <1>3, <3>1, <3>3
  <2>. QED  BY <2>1 DEF Trail
<1>. QED  BY <1>9, <1>10, <1>11, <1>12, <1>13, <1>14, <1>15, <1>16, <1>17 DEF IntakeInv, BatchInv, CardInv

\* A transaction that is rolled back leaves the rows of the others, and what they
\* refer to.
LEMMA CrashesKeeps ==
  ASSUME IntakeInv, NEW s \in Sessions, Crashes(s), UNCHANGED experts, Screened', Desked'
  PROVE  IntakeInv'
<1>0. Nobody # s
  BY IntakeAssumption
<1>1. /\ \A c : c \in DOMAIN cards' <=> c \in DOMAIN cards /\ cards[c].by # s
      /\ \A c \in DOMAIN cards' : cards'[c] = cards[c]
  BY DEF Crashes, RollsBack, Without
<1>2. /\ \A i : i \in DOMAIN revisions' <=> i \in DOMAIN revisions /\ revisions[i].by # s
      /\ \A i \in DOMAIN revisions' : revisions'[i] = revisions[i]
  BY DEF Crashes, RollsBack, Without
<1>3. /\ \A r : r \in DOMAIN rfqs' <=> r \in DOMAIN rfqs /\ rfqs[r].by # s
      /\ \A r \in DOMAIN rfqs' : rfqs'[r] = rfqs[r]
  BY DEF Crashes, RollsBack, Without
<1>4. /\ \A b : b \in DOMAIN batches' <=> b \in DOMAIN batches /\ batches[b].by # s
      /\ \A b \in DOMAIN batches' : batches'[b] = batches[b]
  BY DEF Crashes, RollsBack, Without
<1>5. \A run : run \in searches' <=> run \in searches /\ run.by # s
  BY DEF Crashes, RollsBack
<1>6. /\ DOMAIN jobs' = Sessions /\ jobs'[s].at = "failed" /\ "at" \in DOMAIN jobs'[s]
      /\ \A t \in Sessions \ {s} : jobs'[t] = jobs[t]
  BY KeptOf DEF Crashes
<1>7. Shaped'
  <2>1. Table(cards, CardFields)'
    <3>1. Table(cards, CardFields) /\ DOMAIN cards' \subseteq DOMAIN cards
      BY <1>1 DEF IntakeInv, Shaped
    <3>2. \A i \in DOMAIN cards' : DOMAIN cards'[i] = CardFields
      BY <1>1, <3>1 DEF Table
    <3>. QED  BY <3>1, <3>2, LessKeeps
  <2>2. Table(revisions, RevisionFields)'
    <3>1. Table(revisions, RevisionFields) /\ DOMAIN revisions' \subseteq DOMAIN revisions
      BY <1>2 DEF IntakeInv, Shaped
    <3>2. \A i \in DOMAIN revisions' : DOMAIN revisions'[i] = RevisionFields
      BY <1>2, <3>1 DEF Table
    <3>. QED  BY <3>1, <3>2, LessKeeps
  <2>3. Table(rfqs, RequestFields)'
    <3>1. Table(rfqs, RequestFields) /\ DOMAIN rfqs' \subseteq DOMAIN rfqs
      BY <1>3 DEF IntakeInv, Shaped
    <3>2. \A i \in DOMAIN rfqs' : DOMAIN rfqs'[i] = RequestFields
      BY <1>3, <3>1 DEF Table
    <3>. QED  BY <3>1, <3>2, LessKeeps
  <2>4. Table(batches, BatchFields)'
    <3>1. Table(batches, BatchFields) /\ DOMAIN batches' \subseteq DOMAIN batches
      BY <1>4 DEF IntakeInv, Shaped
    <3>2. \A i \in DOMAIN batches' : DOMAIN batches'[i] = BatchFields
      BY <1>4, <3>1 DEF Table
    <3>. QED  BY <3>1, <3>2, LessKeeps
  <2>. QED  BY <1>5, <2>1, <2>2, <2>3, <2>4 DEF IntakeInv, Shaped
<1>8. Owned'
  <2>1. \A b : Writer(b) /\ b # s => Writer(b)'
    BY <1>6 DEF Writer
  <2>2. \A c \in DOMAIN cards' : Writer(cards[c].by)'
    BY <1>1, <2>1 DEF IntakeInv, Owned
  <2>3. \A r \in DOMAIN rfqs' : Writer(rfqs[r].by)'
    BY <1>3, <2>1 DEF IntakeInv, Owned
  <2>4. \A b \in DOMAIN batches' : Writer(batches[b].by)'
    BY <1>4, <2>1 DEF IntakeInv, Owned
  <2>. QED  BY <2>2, <2>3, <2>4 DEF Owned
<1>9. Related'
  <2>1. ASSUME NEW r \in DOMAIN rfqs'
        PROVE  /\ rfqs'[r].batch # None =>
                    rfqs'[r].batch \in DOMAIN batches' /\ batches'[rfqs'[r].batch].by = rfqs'[r].by
               /\ rfqs'[r].substance # None =>
                    /\ rfqs'[r].substance \in DOMAIN cards'
                    /\ cards'[rfqs'[r].substance].by \in {Nobody, rfqs'[r].by}
    <3>1. r \in DOMAIN rfqs /\ rfqs'[r] = rfqs[r] /\ rfqs[r].by # s
      BY <1>3
    <3>. QED  BY <1>0, <1>1, <1>4, <3>1 DEF IntakeInv, Related
  <2>2. ASSUME NEW i \in DOMAIN revisions'
        PROVE  revisions'[i].card \in DOMAIN cards' /\ cards'[revisions'[i].card].by = revisions'[i].by
    BY <1>1, <1>2 DEF IntakeInv, Related
  <2>3. ASSUME NEW x \in searches' PROVE x.rfq \in DOMAIN rfqs' /\ rfqs'[x.rfq].by = x.by
    BY <1>3, <1>5 DEF IntakeInv, Related
  <2>. QED  BY <2>1, <2>2, <2>3 DEF Related
<1>10. OneKey' /\ OneRow' /\ OneNumber'
  BY <1>1, <1>3, <1>4 DEF IntakeInv, BatchInv, CardInv, OneKey, OneRow, OneNumber
<1>11. JobsKept'
  <2>1. JobKept(s)'
    BY <1>6 DEF JobKept
  <2>2. ASSUME NEW t \in Sessions \ {s} PROVE JobKept(t)'
    <3>1. JobKept(t) /\ jobs'[t] = jobs[t]
      BY <1>6, KeptOf
    <3>2. AtRows(t) => AtRows(t)'
      BY <1>3, <1>4, <3>1 DEF AtRows
    <3>. QED  BY <1>0, <1>3, <3>1, <3>2 DEF JobKept
  <2>. QED  BY <1>6, <2>1, <2>2 DEF JobsKept
<1>12. Searched'
  <2>. SUFFICES ASSUME NEW r \in DOMAIN rfqs', rfqs'[r].batch # None
                PROVE  {run.country : run \in {x \in searches' : x.rfq = r}} = rfqs'[r].countries
    BY DEF Searched
  <2>1. r \in DOMAIN rfqs /\ rfqs'[r] = rfqs[r] /\ rfqs[r].by # s
    BY <1>3
  <2>2. {x \in searches' : x.rfq = r} = {x \in searches : x.rfq = r}
    BY <1>5, <2>1 DEF IntakeInv, Related
  <2>. QED  BY <2>1, <2>2 DEF IntakeInv, BatchInv, Searched
<1>13. Drafted'
  <2>1. ASSUME NEW d \in DOMAIN cards', cards'[d].status = "unreviewed"
        PROVE  \E r \in DOMAIN rfqs' : rfqs'[r].substance = d /\ rfqs'[r].by = cards'[d].by
    <3>1. PICK r \in DOMAIN rfqs : rfqs[r].substance = d /\ rfqs[r].by = cards[d].by
      BY <1>1, <2>1 DEF IntakeInv, CardInv, Drafted, Draft
    <3>. QED  BY <1>1, <1>3, <3>1
  <2>2. ASSUME NEW r \in DOMAIN rfqs', rfqs'[r].substance # None,
               cards'[rfqs'[r].substance].status = "unreviewed"
        PROVE  rfqs'[r].cas = cards'[rfqs'[r].substance].cas
    <3>1. r \in DOMAIN rfqs /\ rfqs'[r] = rfqs[r] /\ rfqs'[r].substance \in DOMAIN cards'
      BY <1>3, <1>9, <2>2 DEF Related
    <3>. QED  BY <1>1, <2>2, <3>1 DEF IntakeInv, CardInv, Drafted, Draft
  <2>. QED  BY <2>1, <2>2 DEF Drafted, Draft
<1>14. ExpertsKept'
  <2>1. ASSUME NEW e \in Experts, Saving(e) PROVE Saving(e)'
    <3>1. experts' = experts
      OBVIOUS
    <3>. QED  BY <1>0, <1>1, <1>3, <2>1, <3>1 DEF Saving, Draft
  <2>. QED  BY <2>1 DEF IntakeInv, CardInv, ExpertsKept
<1>15. Trail'
  <2>1. ASSUME NEW c \in DOMAIN cards', NEW f \in Audited
        PROVE  \E i \in DOMAIN revisions' : Explains(i, c, f)' /\ revisions'[i].snapshot[f] = cards'[c][f]
    <3>1. c \in DOMAIN cards /\ cards'[c] = cards[c] /\ cards[c].by # s
      BY <1>1
    <3>2. PICK i \in DOMAIN revisions : Explains(i, c, f) /\ revisions[i].snapshot[f] = cards[c][f]
      BY <3>1 DEF IntakeInv, CardInv, Trail
    <3>3. About(c)' = About(c) /\ Changing(c, f)' = Changing(c, f)
      BY <1>2, <3>1 DEF About, Changing, IntakeInv, Related
    <3>4. i \in About(c)
      BY <3>2 DEF Explains, Changing
    <3>5. i \in DOMAIN revisions' /\ revisions'[i] = revisions[i]
      BY <1>2, <3>3, <3>4 DEF About
    <3>6. Explains(i, c, f)'
      BY <3>2, <3>3, <3>5 DEF Explains
    <3>. QED  BY <3>1, <3>2, <3>5, <3>6
  <2>. QED  BY <2>1 DEF Trail
<1>. QED  BY <1>7, <1>8, <1>9, <1>10, <1>11, <1>12, <1>13, <1>14, <1>15 DEF IntakeInv, BatchInv, CardInv

-----------------------------------------------------------------------------
(* The windows. *)

\* The handlers that find, store and link substitutes, whatever they find.
LEMMA DeskStepKeeps ==
  ASSUME IntakeInv, NEW s \in Sessions, DeskStep(s), UNCHANGED experts, Screened', Desked'
  PROVE  IntakeInv'
<1>1. CASE FindsAnalogs(s)
  <2>1. /\ jobs[s].at = "suggest" /\ SameTables
        /\ \E w \in Suggestions :
             jobs' = [jobs EXCEPT ![s] =
                        [at |-> "store", rfq |-> jobs[s].rfq, for |-> "analog", old |-> Pending(jobs[s].rfq),
                         found |-> Finder!SuggestAnalogs(rfqs[jobs[s].rfq].name, rfqs[jobs[s].rfq].cas, w).candidates]]
    BY <1>1 DEF FindsAnalogs, SameTables
  <2>2. PICK old, found :
          jobs' = [jobs EXCEPT ![s] = [at |-> "store", rfq |-> jobs[s].rfq, for |-> "analog",
                                       old |-> old, found |-> found]]
    BY <2>1
  <2>. DEFINE j == [at |-> "store", rfq |-> jobs[s].rfq, for |-> "analog", old |-> old, found |-> found]
  <2>3. Becomes(s, j)
    BY <2>1 DEF Becomes
  <2>4. jobs' = [jobs EXCEPT ![s] = j]
    BY <2>2
  <2>. HIDE DEF j
  <2>. QED  BY <2>1, <2>3, <2>4, HandlerMoves
<1>2. CASE StoresAnalogs(s)
  BY <1>2, AtMoves, Zenon DEF StoresAnalogs, SameTables
<1>3. CASE ReadsChoice(s)
  BY <1>3, ReadsChoiceKeeps
<1>4. CASE LinksRequests(s)
  <2>1. /\ jobs[s].at = "created" /\ SameTables
        /\ \/ jobs' = [jobs EXCEPT ![s].at = "failed"]
           \/ jobs' = [jobs EXCEPT ![s].at = "answered"]
    BY <1>4 DEF LinksRequests, SameTables
  <2>. QED  BY <2>1, AtMoves
<1>. QED  BY <1>1, <1>2, <1>3, <1>4 DEF DeskStep

-----------------------------------------------------------------------------
(* Experts. *)

\* An expert starts: what is found is committed, and a request refers to no draft but
\* the one that is loaded.
LEMMA StartsKeeps ==
  ASSUME IntakeInv, NEW e \in Experts, StartsEntry(e) \/ StartsDecision(e) \/ StartsEdit(e),
         UNCHANGED <<batches, searches, jobs>>, Screened', Desked'
  PROVE  IntakeInv'
<1>. DEFINE Loaded(intent, id, card) ==
              /\ experts' = [experts EXCEPT ![e] =
                               [at |-> "saving", intent |-> intent, id |-> id, card |-> card]]
              /\ id # None => /\ id \in DOMAIN cards /\ cards[id].by = Nobody /\ card = cards[id]
              /\ intent.kind \in {"enter", "edit", "decide"}
              /\ intent.kind = "edit" => id # None
              /\ intent.kind = "decide" =>
                   /\ intent.rfq \in DOMAIN rfqs /\ rfqs[intent.rfq].by = Nobody
                   /\ \A c \in DOMAIN cards : c # id /\ rfqs[intent.rfq].substance = c => ~Draft(c)
<1>1. SameTables
  BY DEF StartsEntry, StartsDecision, StartsEdit, SameTables
<1>2. \A c \in DOMAIN cards : /\ c # None
                              /\ Sees(e, cards[c]) => cards[c].by = Nobody
  BY IntakeAssumption DEF IntakeInv, Shaped, Table, Owned, Writer, Sees
<1>3. ASSUME NEW intent, LoadsByNumber(e, intent)
      PROVE  \/ /\ CardsOf(e, Subject(intent)) = {}
                /\ experts' = [experts EXCEPT ![e] =
                                 [at |-> "saving", intent |-> intent, id |-> None, card |-> None]]
             \/ \E c \in CardsOf(e, Subject(intent)) :
                  experts' = [experts EXCEPT ![e] =
                                [at |-> "saving", intent |-> intent, id |-> c, card |-> cards[c]]]
  <2>1. CASE CardsOf(e, Subject(intent)) = {}
    BY <1>3, <2>1 DEF LoadsByNumber, Holds
  <2>2. CASE CardsOf(e, Subject(intent)) # {}
    <3>1. PICK c \in CardsOf(e, Subject(intent)) : Holds(e, intent, c, cards[c])
      BY <1>3, <2>2 DEF LoadsByNumber
    <3>. QED  BY <3>1 DEF Holds
  <2>. QED  BY <2>1, <2>2
<1>4. \E intent, id, card : Loaded(intent, id, card)
  <2>1. CASE StartsEntry(e)
    <3>1. PICK intent \in Intents[e] : intent.kind = "enter" /\ LoadsByNumber(e, intent)
      BY <2>1 DEF StartsEntry
    <3>2. CASE experts' = [experts EXCEPT ![e] =
                             [at |-> "saving", intent |-> intent, id |-> None, card |-> None]]
      <4>1. Loaded(intent, None, None)
        BY <3>1, <3>2
      <4>. QED  BY <4>1
    <3>3. ASSUME NEW c \in CardsOf(e, Subject(intent)),
                 experts' = [experts EXCEPT ![e] =
                               [at |-> "saving", intent |-> intent, id |-> c, card |-> cards[c]]]
          PROVE  Loaded(intent, c, cards[c])
      BY <1>2, <3>1, <3>3 DEF CardsOf
    <3>. HIDE DEF Loaded
    <3>. QED  BY <1>3, <3>1, <3>2, <3>3
  <2>2. CASE StartsDecision(e)
    <3>1. PICK intent \in Intents[e] :
            /\ intent.kind = "decide" /\ LoadsByNumber(e, intent)
            /\ intent.rfq \in DOMAIN rfqs /\ rfqs[intent.rfq].by = Nobody
      BY <2>2 DEF StartsDecision
    <3>2. Subject(intent) = rfqs[intent.rfq].cas
      BY <3>1 DEF Subject
    <3>3. \A c \in DOMAIN cards : rfqs[intent.rfq].substance = c /\ Draft(c) =>
             c \in CardsOf(e, Subject(intent))
      <4>. SUFFICES ASSUME NEW c \in DOMAIN cards, rfqs[intent.rfq].substance = c, Draft(c)
                    PROVE  c \in CardsOf(e, Subject(intent))
        OBVIOUS
      <4>1. rfqs[intent.rfq].cas = cards[c].cas /\ cards[c].by = Nobody
        BY <1>2, <3>1 DEF IntakeInv, CardInv, Drafted, Related
      <4>. QED  BY <3>2, <4>1 DEF CardsOf, Sees
    <3>4. CASE /\ CardsOf(e, Subject(intent)) = {}
               /\ experts' = [experts EXCEPT ![e] =
                                [at |-> "saving", intent |-> intent, id |-> None, card |-> None]]
      <4>1. Loaded(intent, None, None)
        BY <3>1, <3>3, <3>4
      <4>. QED  BY <4>1
    <3>5. ASSUME NEW c \in CardsOf(e, Subject(intent)),
                 experts' = [experts EXCEPT ![e] =
                               [at |-> "saving", intent |-> intent, id |-> c, card |-> cards[c]]]
          PROVE  Loaded(intent, c, cards[c])
      <4>1. \A d \in DOMAIN cards : d # c /\ rfqs[intent.rfq].substance = d => ~Draft(d)
        BY <3>3 DEF CardsOf, IntakeInv, CardInv, OneNumber
      <4>2. c \in DOMAIN cards /\ cards[c].by = Nobody
        BY <1>2 DEF CardsOf
      <4>. QED  BY <3>1, <3>5, <4>1, <4>2
    <3>. HIDE DEF Loaded
    <3>. QED  BY <1>3, <3>1, <3>4, <3>5
  <2>3. CASE StartsEdit(e)
    <3>1. PICK intent \in Intents[e] :
            /\ intent.kind = "edit" /\ intent.card \in DOMAIN cards /\ Sees(e, cards[intent.card])
            /\ Holds(e, intent, intent.card, cards[intent.card])
      BY <2>3 DEF StartsEdit
    <3>2. Loaded(intent, intent.card, cards[intent.card])
      BY <1>2, <3>1 DEF Holds
    <3>. QED  BY <3>2
  <2>. QED  BY <2>1, <2>2, <2>3
<1>5. PICK intent, id, card : Loaded(intent, id, card)
  BY <1>4
<1>6. /\ DOMAIN experts' = Experts
      /\ experts'[e] = [at |-> "saving", intent |-> intent, id |-> id, card |-> card]
      /\ \A d \in Experts \ {e} : experts'[d] = experts[d]
  BY <1>5 DEF IntakeInv, CardInv, ExpertsKept
<1>7. Saving(e)'
  <2>1. id # None => DOMAIN card = CardFields
    BY <1>5 DEF IntakeInv, Shaped, Table
  <2>2. id # None /\ card.status # "unreviewed" => ~Draft(id)
    BY <1>5 DEF Draft
  <2>. QED  BY <1>1, <1>5, <1>6, <2>1, <2>2 DEF Saving, SameTables, Draft
<1>8. ExpertsKept'
  <2>1. ASSUME NEW d \in Experts \ {e}, experts'[d].at = "saving" PROVE Saving(d)'
    BY <1>1, <1>6, <2>1 DEF IntakeInv, CardInv, ExpertsKept, Saving, SameTables, Draft
  <2>. QED  BY <1>6, <1>7, <2>1 DEF ExpertsKept
<1>9. Owned' /\ JobsKept'
  BY <1>1 DEF IntakeInv, BatchInv, SameTables, Owned, Writer, JobsKept, JobKept, AtRows
<1>. QED  BY <1>1, <1>8, <1>9, TablesStay DEF IntakeInv, BatchInv, CardInv

\* What an expert makes of a card: no draft.
LEMMA ResultIs ==
  ASSUME NEW job, job.intent.kind \in {"enter", "edit", "decide"},
         job.id # None => DOMAIN job.card = CardFields,
         job.intent.kind = "edit" => job.id # None
  PROVE  /\ DOMAIN Result(job) = CardFields
         /\ Result(job).status \in {"confirmed", "needs_review"}
         /\ Result(job).by = Nobody \/ (job.id # None /\ Result(job).by = job.card.by)
<1>1. CASE job.intent.kind = "enter"
  BY <1>1 DEF Result, Entered, CardFields
<1>2. CASE job.intent.kind = "edit"
  <2>. DEFINE loaded == job.card
              cas == Given(job.intent.cas, loaded.cas)
              corrected == Corrected(loaded, cas)
  <2>1. DOMAIN loaded = CardFields
    BY <1>2
  <2>2. DOMAIN corrected = CardFields /\ corrected.by = loaded.by
    <3>1. CASE cas = loaded.cas
      BY <2>1, <3>1 DEF Corrected
    <3>2. CASE cas # loaded.cas
      <4>1. corrected = [loaded EXCEPT !.cas = cas, !.proof = None]
        BY <3>2 DEF Corrected
      <4>. HIDE DEF corrected, cas
      <4>. QED  BY <2>1, <4>1 DEF CardFields
    <3>. QED  BY <3>1, <3>2
  <2>. DEFINE preferred == Given(job.intent.preferred, loaded.preferred)
              synonyms == {preferred} \cup Given(job.intent.synonyms, loaded.synonyms)
              excluded == Given(job.intent.excluded, loaded.excluded) \ synonyms
              notes == Given(job.intent.notes, loaded.notes)
  <2>3. Result(job) = [corrected EXCEPT !.preferred = preferred, !.synonyms = synonyms,
                                        !.excluded = excluded, !.notes = notes, !.status = "confirmed"]
    BY <1>2 DEF Result, Edited
  <2>. HIDE DEF corrected, preferred, synonyms, excluded, notes
  <2>4. DOMAIN Result(job) = CardFields /\ Result(job).by = loaded.by /\ Result(job).status = "confirmed"
    BY <2>2, <2>3 DEF CardFields
  <2>. QED  BY <1>2, <2>4
<1>3. CASE job.intent.kind = "decide"
  <2>. DEFINE rfq == rfqs[job.intent.rfq]
              loaded == IF job.id = None THEN BareCard(job.intent, rfq) ELSE job.card
  <2>1. DOMAIN loaded = CardFields
        /\ (loaded.by = Nobody \/ (job.id # None /\ loaded.by = job.card.by))
    BY DEF BareCard, DraftCard, CardFields
  <2>. DEFINE confirms == job.intent.action = "confirm"
              preferred == Given(job.intent.preferred,
                                 IF confirms THEN job.intent.suggested ELSE loaded.preferred)
              synonyms == loaded.synonyms \cup {rfq.name, preferred}
                          \cup (IF confirms THEN {job.intent.suggested} \cup job.intent.synonyms ELSE {})
              excluded == (loaded.excluded \cup (IF confirms THEN {} ELSE {job.intent.suggested})) \ synonyms
              status == IF confirms \/ job.intent.preferred # None THEN "confirmed" ELSE "needs_review"
              notes == Given(job.intent.notes, loaded.notes)
              proof == rfq.proof
  <2>2. Result(job) = Decided(job.intent, loaded, rfq)
    BY <1>3 DEF Result
  <2>3. Decided(job.intent, loaded, rfq) =
          [loaded EXCEPT !.preferred = preferred, !.synonyms = synonyms, !.excluded = excluded,
                         !.status = status, !.notes = notes, !.proof = proof]
    <3>. HIDE DEF loaded
    <3>. QED  BY <2>1 DEF Decided, CardFields
  <2>4. status \in {"confirmed", "needs_review"}
    OBVIOUS
  <2>. HIDE DEF loaded, preferred, synonyms, excluded, status, notes, proof
  <2>5. DOMAIN Result(job) = CardFields /\ Result(job).by = loaded.by /\ Result(job).status = status
    BY <2>1, <2>2, <2>3 DEF CardFields
  <2>. QED  BY <2>1, <2>4, <2>5
<1>. QED  BY <1>1, <1>2, <1>3

\* An expert commits: the columns that were changed, the revision that says so, and the
\* request the decision was about.
LEMMA SavesKeeps ==
  ASSUME IntakeInv, NEW e \in Experts, Saves(e),
         UNCHANGED <<batches, searches, jobs>>, Screened', Desked'
  PROVE  IntakeInv'
<1>. DEFINE job == experts[e]
            result == Result(job)
            new == IF job.id = None THEN NewId(cards) ELSE job.id
            row == IF job.id = None THEN result ELSE Written(cards[new], job.card, result)
            next == NewId(revisions)
            rev == Revision(Nobody, new, Action(job), ChangedBy(job), result)
<1>1. Saving(e) /\ experts[e].at = "saving" /\ DOMAIN experts = Experts
  BY DEF Saves, IntakeInv, CardInv, ExpertsKept
<1>2. /\ DOMAIN experts' = Experts /\ experts'[e] = [at |-> "done"]
      /\ \A d \in Experts \ {e} : experts'[d] = experts[d]
  BY <1>1 DEF Saves
<1>3. CASE NumberTaken(job, result)
  <2>1. SameTables
    BY <1>3 DEF Saves, SameTables
  <2>2. ExpertsKept'
    <3>1. ASSUME NEW d \in Experts \ {e}, experts'[d].at = "saving" PROVE Saving(d)'
      BY <1>2, <2>1, <3>1 DEF IntakeInv, CardInv, ExpertsKept, Saving, SameTables, Draft
    <3>. QED  BY <1>2, <3>1 DEF ExpertsKept
  <2>3. Owned' /\ JobsKept'
    BY <2>1 DEF IntakeInv, BatchInv, SameTables, Owned, Writer, JobsKept, JobKept, AtRows
  <2>. QED  BY <2>1, <2>2, <2>3, TablesStay DEF IntakeInv, BatchInv, CardInv
<1>4. CASE ~NumberTaken(job, result)
  <2>1. /\ cards' = Put(cards, new, row) /\ revisions' = Put(revisions, next, rev)
        /\ rfqs' = IF job.intent.kind = "decide"
                   THEN [rfqs EXCEPT ![job.intent.rfq].substance = new] ELSE rfqs
    BY <1>4 DEF Saves
  <2>2. /\ DOMAIN result = CardFields /\ result.status \in {"confirmed", "needs_review"}
        /\ result.by = Nobody \/ (job.id # None /\ result.by = job.card.by)
    <3>1. /\ job.intent.kind \in {"enter", "edit", "decide"}
          /\ job.id # None => DOMAIN job.card = CardFields
          /\ job.intent.kind = "edit" => job.id # None
      BY <1>1 DEF Saving
    <3>. QED  BY <3>1, ResultIs
  <2>3. /\ DOMAIN rev = RevisionFields /\ rev.by = Nobody /\ rev.card = new
        /\ rev.changes = ChangedBy(job) /\ \A f \in Audited : rev.snapshot[f] = result[f]
    BY DEF Revision, RevisionFields, Snapshot
  <2>4. /\ NewId(cards) \in Nat /\ NewId(cards) \notin DOMAIN cards
        /\ next \in Nat /\ next \notin DOMAIN revisions /\ \A i \in DOMAIN revisions : i < next
    BY NewIdIs DEF IntakeInv, Shaped, Table
  <2>5. job.id = None => new = NewId(cards) /\ row = result
    OBVIOUS
  <2>6. job.id # None => /\ new = job.id /\ new \in DOMAIN cards /\ cards[new].by = Nobody
                         /\ row = Written(cards[new], job.card, result)
                         /\ DOMAIN cards[new] = CardFields /\ DOMAIN job.card = CardFields
                         /\ (job.card.status # "unreviewed" => cards[new].status # "unreviewed")
    BY <1>1 DEF Saving, Draft, IntakeInv, Shaped, Table
  <2>7. ChangedBy(job) = IF job.id # None THEN Changes(job.card, result) ELSE ChangedBy(job)
    BY DEF ChangedBy
  <2>8. /\ \A c \in DOMAIN cards : c # job.id /\ job.id = None => cards[c].cas # result.cas
        /\ job.id # None /\ result.cas # job.card.cas =>
             \A c \in DOMAIN cards : c # job.id => cards[c].cas # result.cas
    BY <1>4 DEF NumberTaken
  <2>9. job.intent.kind = "decide" =>
          /\ job.intent.rfq \in DOMAIN rfqs /\ rfqs[job.intent.rfq].by = Nobody
          /\ \A c \in DOMAIN cards :
               c # job.id /\ rfqs[job.intent.rfq].substance = c => cards[c].status # "unreviewed"
    BY <1>1 DEF Saving, Draft
  <2>. HIDE DEF result, row, rev, next, new, job
  <2>10. /\ new \in Nat /\ new # None /\ DOMAIN row = CardFields /\ row.by = Nobody
         /\ row.status # "unreviewed"
    <3>1. CASE job.id = None
      BY <2>2, <2>4, <2>5, <3>1, IntakeAssumption
    <3>2. CASE job.id # None
      <4>1. \A f \in CardFields :
              row[f] = IF result[f] # job.card[f] THEN result[f] ELSE cards[new][f]
        BY <2>6, <3>2 DEF Written
      <4>2. DOMAIN row = CardFields
        BY <2>6, <3>2 DEF Written
      <4>3. row.by = Nobody /\ row.status # "unreviewed"
        BY <2>2, <2>6, <3>2, <4>1 DEF CardFields
      <4>4. new \in Nat
        BY <2>6, <3>2 DEF IntakeInv, Shaped, Table
      <4>. QED  BY <2>6, <3>2, <4>2, <4>3, <4>4
    <3>. QED  BY <3>1, <3>2
  <2>11. /\ DOMAIN cards' = DOMAIN cards \cup {new} /\ cards'[new] = row
         /\ \A c \in DOMAIN cards : c # new => cards'[c] = cards[c]
         /\ new \in DOMAIN cards => cards[new].by = Nobody /\ job.id # None /\ new = job.id
    BY <2>1, <2>4, <2>5, <2>6 DEF Put
  <2>12. /\ DOMAIN revisions' = DOMAIN revisions \cup {next} /\ revisions'[next] = rev
         /\ \A i \in DOMAIN revisions : revisions'[i] = revisions[i]
    BY <2>1, <2>4 DEF Put
  <2>13. /\ DOMAIN rfqs' = DOMAIN rfqs
         /\ \A r \in DOMAIN rfqs :
              /\ DOMAIN rfqs'[r] = RequestFields
              /\ \A f \in RequestFields \ {"substance"} : rfqs'[r][f] = rfqs[r][f]
              /\ \/ rfqs'[r].substance = rfqs[r].substance
                 \/ /\ job.intent.kind = "decide" /\ r = job.intent.rfq /\ rfqs'[r].substance = new
    <3>1. \A r \in DOMAIN rfqs : DOMAIN rfqs[r] = RequestFields
      BY DEF IntakeInv, Shaped, Table
    <3>2. CASE job.intent.kind = "decide"
      <4>1. rfqs' = [rfqs EXCEPT ![job.intent.rfq].substance = new]
        BY <2>1, <3>2
      <4>. QED  BY <2>9, <3>1, <3>2, <4>1 DEF RequestFields
    <3>3. CASE job.intent.kind # "decide"
      BY <2>1, <3>1, <3>3
    <3>. QED  BY <3>2, <3>3
  <2>14. \A r \in DOMAIN rfqs : /\ rfqs'[r].by = rfqs[r].by /\ rfqs'[r].batch = rfqs[r].batch
                                /\ rfqs'[r].row = rfqs[r].row /\ rfqs'[r].cas = rfqs[r].cas
                                /\ rfqs'[r].countries = rfqs[r].countries
    BY <2>13 DEF RequestFields
  <2>15. Shaped'
    <3>0. Table(cards, CardFields) /\ Table(revisions, RevisionFields)
          /\ Table(rfqs, RequestFields) /\ Table(batches, BatchFields)
      BY DEF IntakeInv, Shaped
    <3>1. Table(cards, CardFields)'
      BY <2>1, <2>10, <3>0, PutKeeps
    <3>2. Table(revisions, RevisionFields)'
      BY <2>1, <2>3, <2>4, <3>0, PutKeeps
    <3>3. Table(rfqs, RequestFields)'
      BY <2>13, <3>0 DEF Table
    <3>4. Table(batches, BatchFields)' /\ \A run \in searches' : DOMAIN run = RunFields
      BY DEF IntakeInv, Shaped
    <3>. QED  BY <3>1, <3>2, <3>3, <3>4 DEF Shaped
  <2>16. Owned'
    <3>1. \A c \in DOMAIN cards' : Writer(cards[c].by)'
      BY <2>10, <2>11 DEF IntakeInv, Owned, Writer
    <3>2. \A r \in DOMAIN rfqs' : Writer(rfqs[r].by)'
      BY <2>13, <2>14 DEF IntakeInv, Owned, Writer
    <3>3. \A b \in DOMAIN batches' : Writer(batches[b].by)'
      BY DEF IntakeInv, Owned, Writer
    <3>. QED  BY <3>1, <3>2, <3>3 DEF Owned
  <2>17. \A c \in DOMAIN cards : c \in DOMAIN cards' /\ cards'[c].by = cards[c].by
    BY <2>10, <2>11
  <2>18. Related'
    <3>1. ASSUME NEW r \in DOMAIN rfqs'
          PROVE  /\ rfqs'[r].batch # None =>
                      rfqs'[r].batch \in DOMAIN batches' /\ batches'[rfqs'[r].batch].by = rfqs'[r].by
                 /\ rfqs'[r].substance # None =>
                      /\ rfqs'[r].substance \in DOMAIN cards'
                      /\ cards'[rfqs'[r].substance].by \in {Nobody, rfqs'[r].by}
      <4>1. r \in DOMAIN rfqs
        BY <2>13
      <4>2. CASE rfqs'[r].substance = rfqs[r].substance
        BY <2>14, <2>17, <4>1, <4>2 DEF IntakeInv, Related
      <4>3. CASE rfqs'[r].substance = new
        BY <2>10, <2>11, <2>14, <4>1, <4>3 DEF IntakeInv, Related
      <4>. QED  BY <2>13, <4>1, <4>2, <4>3
    <3>2. ASSUME NEW i \in DOMAIN revisions'
          PROVE  revisions'[i].card \in DOMAIN cards' /\ cards'[revisions'[i].card].by = revisions'[i].by
      <4>1. CASE i \in DOMAIN revisions
        BY <2>12, <2>17, <4>1 DEF IntakeInv, Related
      <4>2. CASE i \notin DOMAIN revisions
        BY <2>3, <2>10, <2>11, <2>12, <4>2
      <4>. QED  BY <4>1, <4>2
    <3>3. ASSUME NEW run \in searches' PROVE run.rfq \in DOMAIN rfqs' /\ rfqs'[run.rfq].by = run.by
      BY <2>13, <2>14 DEF IntakeInv, Related
    <3>. QED  BY <3>1, <3>2, <3>3 DEF Related
  <2>19. OneKey' /\ OneRow'
    BY <2>13, <2>14 DEF IntakeInv, BatchInv, OneKey, OneRow
  <2>20. Searched'
    BY <2>13, <2>14 DEF IntakeInv, BatchInv, Searched
  <2>21. JobsKept'
    <3>1. ASSUME NEW t \in Sessions PROVE JobKept(t)'
      <4>1. JobKept(t)
        BY KeptOf
      <4>2. AtRows(t) => AtRows(t)'
        BY <2>13, <2>14 DEF AtRows
      <4>. QED  BY <2>13, <2>14, <4>1, <4>2 DEF JobKept
    <3>. QED  BY <3>1 DEF IntakeInv, BatchInv, JobsKept
  <2>22. OneNumber'
    <3>1. \A c \in DOMAIN cards : c # new => cards[c].cas # row.cas
      <4>1. CASE job.id = None
        BY <2>2, <2>5, <2>8, <4>1, IntakeAssumption DEF IntakeInv, Shaped, Table
      <4>2. CASE job.id # None
        <5>1. row.cas = IF result.cas # job.card.cas THEN result.cas ELSE cards[new].cas
          BY <2>6, <4>2 DEF Written, CardFields
        <5>. QED  BY <2>6, <2>8, <4>2, <5>1 DEF IntakeInv, CardInv, OneNumber
      <4>. QED  BY <4>1, <4>2
    <3>. QED  BY <2>11, <3>1 DEF IntakeInv, CardInv, OneNumber
  <2>23. Drafted'
    <3>1. ASSUME NEW d \in DOMAIN cards', cards'[d].status = "unreviewed"
          PROVE  \E r \in DOMAIN rfqs' : rfqs'[r].substance = d /\ rfqs'[r].by = cards'[d].by
      <4>1. d # new /\ d \in DOMAIN cards /\ cards'[d] = cards[d]
        BY <2>10, <2>11, <3>1
      <4>2. PICK r \in DOMAIN rfqs : rfqs[r].substance = d /\ rfqs[r].by = cards[d].by
        BY <3>1, <4>1 DEF IntakeInv, CardInv, Drafted, Draft
      <4>3. d # job.id
        <5>1. CASE job.id = None
          BY <4>1, <5>1, IntakeAssumption DEF IntakeInv, Shaped, Table
        <5>2. CASE job.id # None
          BY <2>6, <4>1, <5>2
        <5>. QED  BY <5>1, <5>2
      <4>4. ~(job.intent.kind = "decide" /\ r = job.intent.rfq)
        BY <2>9, <3>1, <4>1, <4>2, <4>3
      <4>. QED  BY <2>13, <2>14, <4>1, <4>2, <4>4
    <3>2. ASSUME NEW r \in DOMAIN rfqs', rfqs'[r].substance # None,
                 cards'[rfqs'[r].substance].status = "unreviewed"
          PROVE  rfqs'[r].cas = cards'[rfqs'[r].substance].cas
      <4>1. r \in DOMAIN rfqs /\ rfqs'[r].substance # new
        BY <2>10, <2>11, <2>13, <3>2
      <4>2. rfqs'[r].substance = rfqs[r].substance
        BY <2>13, <4>1
      <4>3. rfqs[r].substance \in DOMAIN cards /\ cards'[rfqs[r].substance] = cards[rfqs[r].substance]
        BY <2>11, <3>2, <4>1, <4>2 DEF IntakeInv, Related
      <4>. QED  BY <2>14, <3>2, <4>1, <4>2, <4>3 DEF IntakeInv, CardInv, Drafted, Draft
    <3>. QED  BY <3>1, <3>2 DEF Drafted, Draft
  <2>24. ExpertsKept'
    <3>1. ASSUME NEW d \in Experts \ {e}, experts'[d].at = "saving" PROVE Saving(d)'
      <4>. DEFINE other == experts[d]
      <4>1. Saving(d) /\ experts'[d] = other
        BY <1>2, <3>1 DEF IntakeInv, CardInv, ExpertsKept
      <4>. HIDE DEF other
      <4>2. other.id # None =>
              /\ other.id \in DOMAIN cards' /\ cards'[other.id].by = Nobody
              /\ DOMAIN other.card = CardFields
              /\ other.card.status # "unreviewed" => cards'[other.id].status # "unreviewed"
        BY <2>10, <2>11, <2>17, <4>1 DEF Saving, Draft, other
      <4>3. other.intent.kind = "decide" =>
              /\ other.intent.rfq \in DOMAIN rfqs' /\ rfqs'[other.intent.rfq].by = Nobody
              /\ \A c \in DOMAIN cards' :
                   c # other.id /\ rfqs'[other.intent.rfq].substance = c => cards'[c].status # "unreviewed"
        <5>. SUFFICES ASSUME other.intent.kind = "decide"
                      PROVE  /\ other.intent.rfq \in DOMAIN rfqs' /\ rfqs'[other.intent.rfq].by = Nobody
                             /\ \A c \in DOMAIN cards' :
                                  c # other.id /\ rfqs'[other.intent.rfq].substance = c =>
                                    cards'[c].status # "unreviewed"
          OBVIOUS
        <5>1. /\ other.intent.rfq \in DOMAIN rfqs /\ rfqs[other.intent.rfq].by = Nobody
              /\ \A c \in DOMAIN cards : c # other.id /\ rfqs[other.intent.rfq].substance = c =>
                                           cards[c].status # "unreviewed"
          BY <4>1 DEF Saving, Draft, other
        <5>2. ASSUME NEW c \in DOMAIN cards', c # other.id, rfqs'[other.intent.rfq].substance = c, c # new
              PROVE  cards'[c].status # "unreviewed"
          <6>1. rfqs[other.intent.rfq].substance = c /\ c \in DOMAIN cards /\ cards'[c] = cards[c]
            BY <2>11, <2>13, <5>1, <5>2
          <6>. QED  BY <5>1, <5>2, <6>1
        <5>. QED  BY <2>10, <2>11, <2>13, <2>14, <5>1, <5>2
      <4>4. other.intent.kind \in {"enter", "edit", "decide"} /\ (other.intent.kind = "edit" => other.id # None)
        BY <4>1 DEF Saving, other
      <4>. QED  BY <4>1, <4>2, <4>3, <4>4 DEF Saving, Draft
    <3>. QED  BY <1>2, <3>1 DEF ExpertsKept
  <2>25. Trail'
    <3>. SUFFICES ASSUME NEW c \in DOMAIN cards', NEW f \in Audited
                  PROVE  \E i \in DOMAIN revisions' : Explains(i, c, f)' /\ revisions'[i].snapshot[f] = cards'[c][f]
      BY DEF Trail
    <3>0. PICK k \in Nat : k = next
      BY <2>4
    <3>1. \A i \in DOMAIN revisions : i \in Nat /\ i < k
      BY <2>4, <3>0 DEF IntakeInv, Shaped, Table
    <3>2. CASE c # new
      <4>1. c \in DOMAIN cards /\ cards'[c] = cards[c]
        BY <2>11, <3>2
      <4>2. PICK i \in DOMAIN revisions : Explains(i, c, f) /\ revisions[i].snapshot[f] = cards[c][f]
        BY <4>1 DEF IntakeInv, CardInv, Trail
      <4>3. About(c)' = About(c) /\ Changing(c, f)' = Changing(c, f)
        BY <2>3, <2>12, <3>2 DEF About, Changing
      <4>4. Explains(i, c, f)'
        BY <2>12, <4>2, <4>3 DEF Explains
      <4>. QED  BY <2>12, <4>1, <4>2, <4>4
    <3>3. CASE c = new /\ job.id = None
      <4>1. \A i : i \in About(c)' <=> i = k
        <5>1. c \notin DOMAIN cards
          BY <2>4, <2>5, <3>3
        <5>2. \A i \in DOMAIN revisions : revisions[i].card # c
          BY <5>1 DEF IntakeInv, Related
        <5>. QED  BY <2>3, <2>12, <3>0, <3>3, <5>2 DEF About
      <4>2. Explains(k, c, f)'
        BY <4>1 DEF Explains, Changing
      <4>3. revisions'[k].snapshot[f] = cards'[c][f] /\ k \in DOMAIN revisions'
        BY <2>3, <2>5, <2>11, <2>12, <3>0, <3>3
      <4>. QED  BY <4>2, <4>3
    <3>4. CASE c = new /\ job.id # None
      <4>1. c \in DOMAIN cards
        BY <2>6, <3>4
      <4>2. cards'[c][f] = IF result[f] # job.card[f] THEN result[f] ELSE cards[c][f]
        BY <2>6, <2>11, <3>4 DEF Written, Audited, CardFields
      <4>3. f \in rev.changes <=> job.card[f] # result[f]
        BY <2>3, <2>7, <3>4 DEF Changes
      <4>4. \A i : i \in About(c)' <=> i = k \/ i \in About(c)
        BY <2>3, <2>12, <3>0, <3>4 DEF About
      <4>5. CASE f \in rev.changes
        <5>1. k \in Changing(c, f)' /\ \A i \in Changing(c, f)' : i <= k
          BY <2>12, <3>0, <3>1, <4>4, <4>5 DEF Changing, About
        <5>2. revisions'[k].snapshot[f] = cards'[c][f] /\ k \in DOMAIN revisions'
          BY <2>3, <2>12, <3>0, <4>2, <4>3, <4>5
        <5>3. Explains(k, c, f)'
          BY <5>1 DEF Explains
        <5>. QED  BY <5>2, <5>3
      <4>6. CASE f \notin rev.changes
        <5>1. PICK i \in DOMAIN revisions : Explains(i, c, f) /\ revisions[i].snapshot[f] = cards[c][f]
          BY <4>1 DEF IntakeInv, CardInv, Trail
        <5>2. \A x : x \in Changing(c, f)' <=> x \in Changing(c, f)
          BY <2>12, <3>0, <4>4, <4>6 DEF Changing, About
        <5>3. Explains(i, c, f)'
          <6>1. i <= k
            BY <3>1
          <6>2. CASE i \in Changing(c, f) /\ \A x \in Changing(c, f) : x <= i
            BY <5>2, <6>2 DEF Explains
          <6>3. CASE i \in About(c) /\ Changing(c, f) = {} /\ \A x \in About(c) : i <= x
            BY <4>4, <5>2, <6>1, <6>3 DEF Explains
          <6>. QED  BY <5>1, <6>2, <6>3 DEF Explains
        <5>. QED  BY <2>12, <4>2, <4>3, <4>6, <5>1, <5>3
      <4>. QED  BY <4>5, <4>6
    <3>. QED  BY <3>2, <3>3, <3>4
  <2>. QED  BY <2>15, <2>16, <2>18, <2>19, <2>20, <2>21, <2>22, <2>23, <2>24, <2>25
            DEF IntakeInv, BatchInv, CardInv
<1>. QED  BY <1>3, <1>4

-----------------------------------------------------------------------------
(* The window of an import. *)

\* The rows of a file bear the numbers of different lines.
LEMMA ParsedIs ==
  ASSUME NEW file, IsFiniteSet(DOMAIN file.lines), DOMAIN file.lines \subseteq Nat,
         ParseImportFile(file).read
  PROVE  \E n \in Nat : \E q \in [1 .. n -> Nat] :
           /\ \A i, k \in 1 .. n : q[i] = q[k] => i = k
           /\ DOMAIN ParseImportFile(file).rows = 1 .. n
           /\ \A i \in 1 .. n : ParseImportFile(file).rows[i].row = q[i]
<1>. DEFINE table == ReadTable(file)
            filled == {l \in DOMAIN table : ~IsEmpty(table[l])}
            header == Min(filled)
            columns == MatchColumns(table[header])
            body == {l \in filled : l > header /\ l <= header + MaxRows}
            q == InOrder(body)
            n == Cardinality(body)
            rows == [i \in DOMAIN q |-> ParseRow(q[i], RowValues(table[q[i]], columns))]
            parsed == ParseImportFile(file).rows
<1>1. parsed = Flagged(rows)
  BY Zenon DEF ParseImportFile, Unread
<1>2. DOMAIN table = DOMAIN file.lines
  BY DEF ReadTable
<1>3. body \subseteq Nat /\ IsFiniteSet(body)
  <2>1. body \in SUBSET (DOMAIN file.lines)
    BY <1>2
  <2>. HIDE DEF body
  <2>. QED  BY <2>1, FS_Subset
<1>4. \A i \in DOMAIN q : rows[i].row = q[i]
  BY DEF ParseRow
<1>. HIDE DEF body
<1>5. n \in Nat /\ q \in [1 .. n -> body] /\ \A i, k \in 1 .. n : q[i] = q[k] => i = k
  BY <1>3, InOrderIs
<1>6. DOMAIN rows = DOMAIN q
  OBVIOUS
<1>7. \A i \in DOMAIN rows : \E warnings :
         Flagged(rows)[i] = rows[i] \/ Flagged(rows)[i] = [rows[i] EXCEPT !.warnings = warnings]
  <2>. HIDE DEF rows
  <2>. QED  BY Zenon DEF Flagged
<1>8. DOMAIN Flagged(rows) = DOMAIN rows
  BY DEF Flagged
<1>9. \A i \in DOMAIN rows : DOMAIN rows[i] = {"row", "raw", "values", "errors", "warnings"}
  BY DEF ParseRow
<1>. HIDE DEF q, n, rows, parsed
<1>10. \A i \in DOMAIN rows : Flagged(rows)[i].row = rows[i].row
  BY <1>7, <1>9
<1>11. /\ q \in [1 .. n -> Nat] /\ \A i, k \in 1 .. n : q[i] = q[k] => i = k
       /\ DOMAIN parsed = 1 .. n /\ \A i \in 1 .. n : parsed[i].row = q[i]
  <2>1. DOMAIN q = 1 .. n
    BY <1>5
  <2>. QED  BY <1>1, <1>3, <1>4, <1>5, <1>6, <1>8, <1>10, <2>1
<1>. QED  BY <1>5, <1>11 DEF parsed

\* The window with other rows, of the same numbers.
LEMMA SameNumbers ==
  ASSUME Screened, DOMAIN screen' = ScreenFields, uploading' \in DOMAIN Files \cup {None},
         DOMAIN screen'.rows = DOMAIN screen.rows,
         \A i \in DOMAIN screen.rows : screen'.rows[i].row = screen.rows[i].row
  PROVE  Screened'
BY DEF Screened

LEMMA NoRows ==
  ASSUME Screened, screen' = [screen EXCEPT !.rows = <<>>], uploading' = None
  PROVE  Screened'
<1>1. DOMAIN screen' = ScreenFields /\ screen'.rows = <<>>
  BY DEF Screened, ScreenFields
<1>2. DOMAIN screen'.rows = {} /\ IsFiniteSet({})
  BY <1>1, FS_EmptySet
<1>. QED  BY <1>1, <1>2 DEF Screened

LEMMA PreviewKeeps == ASSUME Screened, PreviewArrives PROVE Screened'
<1>. DEFINE preview == ParseImportFile(Files[uploading])
<1>1. uploading \in DOMAIN Files /\ uploading' = None
  BY DEF PreviewArrives, Screened
<1>2. CASE ~preview.read
  BY <1>2, NoRows DEF PreviewArrives
<1>3. CASE preview.read
  <2>. DEFINE rows == [i \in DOMAIN preview.rows |-> Clean(preview.rows[i], uploads)]
  <2>1. screen' = [screen EXCEPT !.rows = rows, !.excluded = {}, !.key = uploads, !.result = None]
    BY <1>3 DEF PreviewArrives
  <2>2. PICK n \in Nat : \E q \in [1 .. n -> Nat] :
           /\ \A i, k \in 1 .. n : q[i] = q[k] => i = k
           /\ DOMAIN preview.rows = 1 .. n
           /\ \A i \in 1 .. n : preview.rows[i].row = q[i]
    <3>1. IsFiniteSet(DOMAIN Files[uploading].lines) /\ DOMAIN Files[uploading].lines \subseteq Nat
      BY <1>1, IntakeAssumption
    <3>. QED  BY <1>3, <3>1, ParsedIs
  <2>3. PICK q \in [1 .. n -> Nat] :
           /\ \A i, k \in 1 .. n : q[i] = q[k] => i = k
           /\ DOMAIN preview.rows = 1 .. n
           /\ \A i \in 1 .. n : preview.rows[i].row = q[i]
    BY <2>2
  <2>. HIDE DEF preview
  <2>4. DOMAIN rows = 1 .. n /\ \A i \in 1 .. n : rows[i].row = q[i]
    BY <2>3 DEF Clean, WindowRow
  <2>. HIDE DEF rows
  <2>5. DOMAIN screen' = ScreenFields /\ screen'.rows = rows
    BY <2>1 DEF Screened, ScreenFields
  <2>6. IsFiniteSet(1 .. n) /\ 1 .. n \subseteq Nat
    BY FS_Interval
  <2>. QED  BY <1>1, <2>3, <2>4, <2>5, <2>6 DEF Screened
<1>. QED  BY <1>2, <1>3

LEMMA ScreenKeeps == ASSUME Screened, ScreenNext PROVE Screened'
<1>1. CASE Uploads
  BY <1>1 DEF Uploads, Screened
<1>2. CASE PreviewArrives
  BY <1>2, PreviewKeeps
<1>3. CASE UploadFails
  BY <1>3, NoRows DEF UploadFails
<1>4. CASE Excludes
  BY <1>4, SameNumbers DEF Excludes, Screened, ScreenFields
<1>5. CASE EditsCell
  <2>1. PICK i \in DOMAIN screen.rows, f \in DOMAIN Corrections :
          screen' = [screen EXCEPT !.rows[i] =
                       WindowRow(screen.rows[i], Put(screen.rows[i].raw, f, Corrections[f]), TRUE,
                                 screen.rows[i].list)]
    BY <1>5 DEF EditsCell
  <2>. DEFINE row == WindowRow(screen.rows[i], Put(screen.rows[i].raw, f, Corrections[f]), TRUE,
                               screen.rows[i].list)
              rows == [screen.rows EXCEPT ![i] = row]
  <2>2. row.row = screen.rows[i].row
    BY DEF WindowRow
  <2>. HIDE DEF row
  <2>3. DOMAIN rows = DOMAIN screen.rows /\ \A k \in DOMAIN screen.rows : rows[k].row = screen.rows[k].row
    BY <2>2
  <2>4. screen' = [screen EXCEPT !.rows = rows]
    BY <2>1 DEF row, Screened, ScreenFields
  <2>. HIDE DEF rows
  <2>5. DOMAIN screen' = ScreenFields /\ screen'.rows = rows
    BY <2>4 DEF Screened, ScreenFields
  <2>. QED  BY <1>5, <2>3, <2>5, SameNumbers DEF EditsCell, Screened
<1>6. CASE LeavesCell
  BY <1>6, SameNumbers DEF LeavesCell, Screened, ScreenFields
<1>7. CASE RowArrives
  <2>1. PICK c \in checking :
          screen' = [screen EXCEPT
            !.rechecking = None,
            !.rows = [i \in DOMAIN @ |-> IF @[i].row = c.row THEN Clean(ParseImportRow(c.row, c.raw), c.list)
                                         ELSE @[i]]]
    BY <1>7, Zenon DEF RowArrives
  <2>. DEFINE checked == Clean(ParseImportRow(c.row, c.raw), c.list)
              rows == [i \in DOMAIN screen.rows |-> IF screen.rows[i].row = c.row THEN checked
                                                    ELSE screen.rows[i]]
  <2>2. checked.row = c.row
    BY DEF Clean, WindowRow, ParseImportRow, ParseRow
  <2>. HIDE DEF checked
  <2>3. DOMAIN rows = DOMAIN screen.rows /\ \A i \in DOMAIN rows : rows[i].row = screen.rows[i].row
    BY <2>2
  <2>4. screen' = [screen EXCEPT !.rechecking = None, !.rows = rows]
    BY <2>1 DEF checked
  <2>. HIDE DEF rows
  <2>5. DOMAIN screen' = ScreenFields /\ screen'.rows = rows
    BY <2>4 DEF Screened, ScreenFields
  <2>. QED  BY <1>7, <2>3, <2>5, SameNumbers DEF RowArrives, Screened
<1>8. CASE RowCheckFails
  BY <1>8, SameNumbers DEF RowCheckFails, Screened, ScreenFields
<1>9. ASSUME NEW s \in Sessions, Presses(s) \/ ResultArrives(s) \/ ResultLost(s) PROVE Screened'
  <2>1. CASE Presses(s)
    BY <2>1, SameNumbers DEF Presses, Screened, ScreenFields
  <2>2. CASE ResultArrives(s)
    BY <2>2, SameNumbers DEF ResultArrives, Screened, ScreenFields
  <2>3. CASE ResultLost(s)
    BY <2>3, SameNumbers DEF ResultLost, Screened, ScreenFields
  <2>. QED  BY <1>9, <2>1, <2>2, <2>3
<1>. QED  BY <1>1, <1>2, <1>3, <1>4, <1>5, <1>6, <1>7, <1>8, <1>9 DEF ScreenNext

LEMMA ImportKeeps == IntakeInv /\ ImportStep => IntakeInv'
<1>. SUFFICES ASSUME IntakeInv, ImportStep PROVE IntakeInv'
  OBVIOUS
<1>1. Screened' /\ UNCHANGED experts /\ ScreenNext
  BY ScreenKeeps DEF ImportStep, IntakeInv, BatchInv
<1>2. Desked'
  BY DeskStays DEF ImportStep, deskVars
<1>3. ASSUME NEW s \in Sessions, Presses(s) PROVE IntakeInv'
  BY <1>1, <1>2, <1>3, PressesKeeps
<1>4. ASSUME NEW s \in Sessions, ResultArrives(s) PROVE IntakeInv'
  <2>1. SameTables /\ jobs[s].at = "created" /\ jobs' = [jobs EXCEPT ![s].at = "done"]
    BY <1>4 DEF ResultArrives, SameTables
  <2>. QED  BY <1>1, <1>2, <2>1, AtMoves
<1>5. CASE \/ Uploads \/ PreviewArrives \/ UploadFails \/ Excludes \/ EditsCell \/ LeavesCell
           \/ RowArrives \/ RowCheckFails \/ \E s \in Sessions : ResultLost(s)
  <2>1. UNCHANGED batchVars
    BY <1>5, Zenon DEF Uploads, PreviewArrives, UploadFails, Excludes, EditsCell, LeavesCell, RowArrives,
                RowCheckFails, ResultLost
  <2>2. SameTables /\ UNCHANGED jobs
    BY <2>1 DEF batchVars, SameTables
  <2>. QED  BY <1>1, <1>2, <2>2, WindowMoves
<1>. QED  BY <1>1, <1>3, <1>4, <1>5 DEF ScreenNext

-----------------------------------------------------------------------------
(* The form and the window of substitutes. *)

LEMMA FormKeeps == IntakeInv /\ FormStep => IntakeInv'
<1>. SUFFICES ASSUME IntakeInv, FormStep PROVE IntakeInv'
  OBVIOUS
<1>1. Screened' /\ Desked' /\ UNCHANGED experts /\ FormNext
  BY ScreenStays, DeskStays DEF FormStep, deskVars
<1>2. ASSUME NEW s \in FormSessions, s \in Sessions, Creates(s) PROVE IntakeInv'
  <2>. DEFINE j == [at |-> "request", values |-> Payload, for |-> "form"]
  <2>1. jobs' = [jobs EXCEPT ![s] = j] /\ SameTables /\ jobs[s].at = "resting"
    BY <1>2 DEF Creates, SameTables, Resting
  <2>2. j.at = "request" /\ DOMAIN j = {"at", "values", "for"}
    OBVIOUS
  <2>. HIDE DEF j
  <2>3. Becomes(s, j)
    BY <2>1, <2>2 DEF Becomes
  <2>. QED  BY <1>1, <1>2, <2>1, <2>3, HandlerMoves
<1>3. ASSUME NEW s \in FormSessions, s \in Sessions, RequestOpens(s) PROVE IntakeInv'
  <2>1. SameTables /\ jobs[s].at = "created" /\ jobs' = [jobs EXCEPT ![s].at = "done"]
    BY <1>3 DEF RequestOpens, SameTables
  <2>. QED  BY <1>1, <1>3, <2>1, AtMoves
<1>4. CASE \/ TypesName \/ TypesCas \/ MovesNumber \/ TogglesAnalog \/ Unlocks \/ ChangesSynonyms
           \/ TogglesExcluded \/ Checks \/ CheckArrives \/ CheckFails \/ Chooses \/ Undoes
           \/ Copies \/ CopyArrives \/ \E s \in FormSessions : RequestLost(s)
  <2>1. UNCHANGED batchVars
    BY <1>4, Zenon DEF TypesName, TypesCas, MovesNumber, TogglesAnalog, Unlocks, ChangesSynonyms,
                TogglesExcluded, Checks, CheckArrives, CheckFails, Chooses, Undoes, Copies,
                CopyArrives, RequestLost, Touches
  <2>2. SameTables /\ UNCHANGED jobs
    BY <2>1 DEF batchVars, SameTables
  <2>. QED  BY <1>1, <2>2, WindowMoves
<1>5. FormSessions \subseteq Sessions
  BY IntakeAssumption
<1>. QED  BY <1>1, <1>2, <1>3, <1>4, <1>5 DEF FormNext

\* A choice is a sequence, whatever is added to it or taken out of it.
LEMMA PickedIsSeq ==
  ASSUME NEW list, NEW places, places \subseteq Nat, IsFiniteSet(places)
  PROVE  IsSeq(Picked(list, places))
<1>. DEFINE p == Picked(list, places)
<1>1. Picks(p, list, places)
  BY PickedIs
<1>2. p = [k \in DOMAIN p |-> p[k]]
  BY DEF Picked
<1>. HIDE DEF p
<1>3. PICK n \in Nat : DOMAIN p = 1 .. n
  BY <1>1 DEF Picks
<1>4. p \in [1 .. n -> {p[i] : i \in DOMAIN p}]
  BY <1>2, <1>3
<1>5. IsSeq(p)
  BY <1>4, <1>3, IsASeq DEF IsSeq
<1>. QED  BY <1>5 DEF p

LEMMA AppendedIsSeq == ASSUME NEW q, IsSeq(q), NEW a PROVE IsSeq(Append(q, a))
<1>. DEFINE S == {q[i] : i \in DOMAIN q}
            p == Append(q, a)
            T == S \cup {a}
<1>1. q \in Seq(T) /\ a \in T
  <2>1. q \in Seq(S)
    BY DEF IsSeq
  <2>. HIDE DEF S
  <2>. QED  BY <2>1
<1>2. p \in Seq(T) /\ Len(p) = Len(q) + 1
  <2>. HIDE DEF T
  <2>. QED  BY <1>1, AppendProperties
<1>. HIDE DEF p, T
<1>3. PICK n \in Nat : DOMAIN p = 1 .. n /\ p \in [1 .. n -> T]
  BY <1>2, LenProperties
<1>4. p \in [1 .. n -> {p[i] : i \in DOMAIN p}]
  BY <1>3
<1>5. IsSeq(p)
  BY <1>3, <1>4, IsASeq DEF IsSeq
<1>. QED  BY <1>5 DEF p

LEMMA DeskKeeps == IntakeInv /\ AnalogStep => IntakeInv'
<1>. SUFFICES ASSUME IntakeInv, AnalogStep PROVE IntakeInv'
  OBVIOUS
<1>1. Screened' /\ UNCHANGED experts /\ DeskNext
  BY ScreenStays DEF AnalogStep
<1>2. DOMAIN desk = DeskFields /\ IsSeq(desk.chosen)
  BY DEF IntakeInv, BatchInv, Desked
<1>3. IsSeq(<<>>)
  BY DEF IsSeq
<1>4. CASE Loads
  <2>1. SameTables /\ UNCHANGED jobs
    BY <1>4 DEF Loads, batchVars, SameTables
  <2>2. Desked'
    BY <1>2, <1>3, <1>4 DEF Loads, Desked, DeskFields
  <2>. QED  BY <1>1, <2>1, <2>2, WindowMoves
<1>5. CASE Toggles
  <2>1. SameTables /\ UNCHANGED jobs
    BY <1>5 DEF Toggles, batchVars, SameTables
  <2>2. PICK a \in desk.shown :
          desk' = [desk EXCEPT !.chosen = IF a \in ToSet(@) THEN Picked(@, {i \in DOMAIN @ : @[i] # a})
                                          ELSE Append(@, a)]
    BY <1>5 DEF Toggles
  <2>. DEFINE places == {i \in DOMAIN desk.chosen : desk.chosen[i] # a}
  <2>3. places \subseteq Nat /\ IsFiniteSet(places)
    <3>1. Len(desk.chosen) \in Nat /\ DOMAIN desk.chosen = 1 .. Len(desk.chosen)
      BY <1>2, LenProperties DEF IsSeq
    <3>2. IsFiniteSet(1 .. Len(desk.chosen)) /\ places \in SUBSET (1 .. Len(desk.chosen))
      BY <3>1, FS_Interval
    <3>. QED  BY <3>2, FS_Subset
  <2>. HIDE DEF places
  <2>4. DOMAIN desk' = DeskFields
        /\ (desk'.chosen = Picked(desk.chosen, places) \/ desk'.chosen = Append(desk.chosen, a))
    BY <1>2, <2>2 DEF DeskFields, places
  <2>5. IsSeq(desk'.chosen)
    BY <1>2, <2>3, <2>4, PickedIsSeq, AppendedIsSeq
  <2>6. Desked'
    BY <2>4, <2>5 DEF Desked, IsSeq
  <2>. QED  BY <1>1, <2>1, <2>6, WindowMoves
<1>6. ASSUME NEW s \in Sessions, AsksSuggestion(s) PROVE IntakeInv'
  <2>. DEFINE j == [at |-> "suggest", rfq |-> desk.rfq, for |-> "analog"]
  <2>1. jobs' = [jobs EXCEPT ![s] = j] /\ SameTables /\ jobs[s].at = "resting"
    BY <1>6 DEF AsksSuggestion, SameTables, Resting
  <2>2. Becomes(s, j)
    BY <2>1 DEF Becomes
  <2>. HIDE DEF j
  <2>3. Desked'
    BY <1>2, <1>6 DEF AsksSuggestion, Desked, DeskFields
  <2>. QED  BY <1>1, <2>1, <2>2, <2>3, HandlerMoves
<1>7. ASSUME NEW s \in Sessions, AsksRequests(s) PROVE IntakeInv'
  <2>. DEFINE j == [at |-> "choice", rfq |-> desk.rfq, chosen |-> desk.chosen, for |-> "analog"]
  <2>1. jobs' = [jobs EXCEPT ![s] = j] /\ SameTables /\ jobs[s].at = "resting"
    BY <1>7 DEF AsksRequests, SameTables, Resting
  <2>2. Becomes(s, j)
    BY <1>2, <2>1 DEF Becomes
  <2>. HIDE DEF j
  <2>3. Desked'
    BY <1>2, <1>7 DEF AsksRequests, Desked, DeskFields
  <2>. QED  BY <1>1, <2>1, <2>2, <2>3, HandlerMoves
<1>8. ASSUME NEW s \in Sessions, AnswerArrives(s) PROVE IntakeInv'
  <2>1. SameTables /\ jobs[s].at = "answered" /\ jobs' = [jobs EXCEPT ![s].at = "done"]
    BY <1>8 DEF AnswerArrives, SameTables
  <2>2. Desked'
    BY <1>2, <1>3, <1>8 DEF AnswerArrives, Desked, DeskFields
  <2>. QED  BY <1>1, <2>1, <2>2, AtMoves
<1>9. ASSUME NEW s \in Sessions, AnswerLost(s) PROVE IntakeInv'
  <2>1. SameTables /\ UNCHANGED jobs
    BY <1>9 DEF AnswerLost, batchVars, SameTables
  <2>2. Desked'
    BY <1>2, <1>9 DEF AnswerLost, Desked, DeskFields
  <2>. QED  BY <1>1, <2>1, <2>2, WindowMoves
<1>. QED  BY <1>1, <1>4, <1>5, <1>6, <1>7, <1>8, <1>9 DEF DeskNext

-----------------------------------------------------------------------------
(* The intake. *)

LEMMA ServerKeeps == ASSUME IntakeInv, NEW s \in Sessions, ServerStep(s) PROVE IntakeInv'
<1>1. Server(s) /\ UNCHANGED experts /\ Screened' /\ Desked'
  BY ScreenStays, DeskStays DEF ServerStep, windowVars
<1>2. CASE BatchStep(s)
  BY <1>1, <1>2, FindsBatchKeeps, InsertsBatchKeeps, RefusesRowKeeps, CreatesRowKeeps, CommitsBatchKeeps
     DEF BatchStep
<1>3. CASE RequestStep(s)
  BY <1>1, <1>3, InsertsRequestKeeps, QueuesSearchesKeeps DEF RequestStep
<1>4. CASE DeskStep(s)
  BY <1>1, <1>4, DeskStepKeeps
<1>. QED  BY <1>1, <1>2, <1>3, <1>4 DEF Server

LEMMA CrashKeeps == ASSUME IntakeInv, NEW s \in Sessions, CrashStep(s) PROVE IntakeInv'
<1>1. Crashes(s) /\ UNCHANGED experts /\ Screened' /\ Desked'
  BY ScreenStays, DeskStays DEF CrashStep, windowVars
<1>. QED  BY <1>1, CrashesKeeps

LEMMA ExpertKeeps == IntakeInv /\ ExpertStep => IntakeInv'
<1>. SUFFICES ASSUME IntakeInv, ExpertStep PROVE IntakeInv'
  OBVIOUS
<1>1. CatalogNext /\ UNCHANGED <<batches, searches, jobs>> /\ Screened' /\ Desked'
  BY ScreenStays, DeskStays DEF ExpertStep, deskVars
<1>. QED  BY <1>1, StartsKeeps, SavesKeeps DEF CatalogNext

LEMMA IntakeInit == Init => IntakeInv
<1>. SUFFICES ASSUME Init PROVE IntakeInv
  OBVIOUS
<1>1. /\ cards = <<>> /\ revisions = <<>> /\ batches = <<>> /\ searches = {}
      /\ jobs = [s \in Sessions |-> Resting] /\ experts = [e \in Experts |-> Idle]
      /\ screen = Closed /\ uploading = None /\ entry \in Entries /\ rfqs = PastRequests[entry]
      /\ desk = [rfq |-> None, shown |-> {}, chosen |-> <<>>, suggesting |-> None, confirming |-> None]
  BY DEF Init, BatchInit, ScreenInit, DeskInit
<1>2. DOMAIN cards = {} /\ DOMAIN revisions = {} /\ DOMAIN batches = {} /\ IsFiniteSet({})
  BY <1>1, FS_EmptySet
<1>3. /\ IsFiniteSet(DOMAIN rfqs) /\ DOMAIN rfqs \subseteq Nat
      /\ \A r \in DOMAIN rfqs : /\ DOMAIN rfqs[r] = RequestFields /\ rfqs[r].by = Nobody
                                /\ rfqs[r].batch = None /\ rfqs[r].substance = None
  BY <1>1, IntakeAssumption
<1>4. Shaped
  BY <1>1, <1>2, <1>3 DEF Shaped, Table
<1>5. Owned /\ Related
  BY <1>1, <1>2, <1>3 DEF Owned, Related, Writer
<1>6. OneKey /\ OneRow /\ Searched /\ OneNumber /\ Drafted /\ Trail
  BY <1>1, <1>2, <1>3 DEF OneKey, OneRow, Searched, OneNumber, Drafted, Trail
<1>7. JobsKept /\ ExpertsKept
  BY <1>1 DEF JobsKept, JobKept, ExpertsKept, Resting, Idle
<1>8. Screened
  <2>1. DOMAIN screen = ScreenFields /\ screen.rows = <<>>
    BY <1>1 DEF Closed, ScreenFields
  <2>2. DOMAIN screen.rows = {}
    BY <2>1
  <2>. QED  BY <1>1, <1>2, <2>1, <2>2 DEF Screened
<1>9. Desked
  <2>1. IsSeq(<<>>)
    BY DEF IsSeq
  <2>. QED  BY <1>1, <2>1 DEF Desked, DeskFields
<1>. QED  BY <1>4, <1>5, <1>6, <1>7, <1>8, <1>9 DEF IntakeInv, BatchInv, CardInv

\* The invariant under the four properties holds in every state.
THEOREM IntakeKept == Spec => []IntakeInv
<1>1. IntakeInv /\ [Next]_vars => IntakeInv'
  <2>. SUFFICES ASSUME IntakeInv, [Next]_vars PROVE IntakeInv'
    OBVIOUS
  <2>1. CASE UNCHANGED vars
    <3>1. SameTables /\ UNCHANGED <<jobs, experts, desk>> /\ UNCHANGED screenVars
      BY <2>1 DEF vars, catalogVars, deskVars, SameTables
    <3>. QED  BY <3>1, WindowMoves, ScreenStays, DeskStays
  <2>2. CASE Next
    BY <2>2, ImportKeeps, OtherKeeps, FormKeeps, ExpertKeeps, DeskKeeps, ServerKeeps, CrashKeeps DEF Next
  <2>. QED  BY <2>1, <2>2
<1>. QED  BY <1>1, IntakeInit, PTL DEF Spec

\* However often a list is submitted, each of its rows is one request at most: find_batch
\* and uq_rfq_batches_owner_key, for any sessions, keys and lists.
THEOREM RowsAreOnce == Spec => []EachRowOnce
<1>1. ASSUME IntakeInv PROVE EachRowOnce
  <2>. SUFFICES ASSUME NEW r \in Committed(rfqs), NEW q \in Committed(rfqs),
                       rfqs[r].batch # None, rfqs[q].batch # None, rfqs[r].row = rfqs[q].row,
                       batches[rfqs[r].batch].key = batches[rfqs[q].batch].key
                PROVE  r = q
    BY DEF EachRowOnce
  <2>1. r \in DOMAIN rfqs /\ q \in DOMAIN rfqs
    BY DEF Committed
  <2>2. rfqs[r].batch = rfqs[q].batch
    BY <1>1, <2>1 DEF IntakeInv, Related, BatchInv, OneKey
  <2>. QED  BY <1>1, <2>1, <2>2 DEF IntakeInv, BatchInv, OneRow
<1>. QED  BY <1>1, IntakeKept, PTL

\* A row that fails takes everything it wrote with it, one that succeeds leaves all of
\* it: the savepoint of create_rfq_batch, for any sessions and lists.
THEOREM SavepointsHold == Spec => []RowsStandAlone
<1>1. ASSUME IntakeInv PROVE RowsStandAlone
  <2>1. ASSUME NEW c \in Committed(cards), cards[c].status = "unreviewed"
        PROVE  \E r \in Committed(rfqs) : rfqs[r].substance = c
    <3>1. c \in DOMAIN cards /\ cards[c].by = Nobody
      BY DEF Committed
    <3>2. PICK r \in DOMAIN rfqs : rfqs[r].substance = c /\ rfqs[r].by = cards[c].by
      BY <1>1, <2>1, <3>1 DEF IntakeInv, CardInv, Drafted, Draft
    <3>. QED  BY <3>1, <3>2 DEF Committed
  <2>2. ASSUME NEW r \in Committed(rfqs), rfqs[r].batch # None
        PROVE  {run.country : run \in {x \in searches : x.rfq = r /\ x.by = Nobody}} = rfqs[r].countries
    <3>1. r \in DOMAIN rfqs /\ rfqs[r].by = Nobody
      BY DEF Committed
    <3>2. {x \in searches : x.rfq = r /\ x.by = Nobody} = {x \in searches : x.rfq = r}
      BY <1>1, <3>1 DEF IntakeInv, Related
    <3>. QED  BY <1>1, <2>2, <3>1, <3>2 DEF IntakeInv, BatchInv, Searched
  <2>. QED  BY <2>1, <2>2 DEF RowsStandAlone
<1>. QED  BY <1>1, IntakeKept, PTL

\* The latest revision that changed a column says what the column holds, and the first
\* snapshot where none did: _record_revision, for any experts however they overlap.
THEOREM TrailIsKept == Spec => []TrailExplainsCards
<1>1. ASSUME IntakeInv PROVE TrailExplainsCards
  <2>. SUFFICES ASSUME NEW c \in Committed(cards)
                PROVE  LET trail == {i \in DOMAIN revisions : revisions[i].card = c /\ revisions[i].by = Nobody}
                           about(f) == {i \in trail : f \in revisions[i].changes}
                           last(f) == IF about(f) = {} THEN Min(trail) ELSE Max(about(f))
                       IN  trail # {} /\ \A f \in Audited : revisions[last(f)].snapshot[f] = cards[c][f]
    BY DEF TrailExplainsCards
  <2>. DEFINE trail == {i \in DOMAIN revisions : revisions[i].card = c /\ revisions[i].by = Nobody}
              about(f) == {i \in trail : f \in revisions[i].changes}
              last(f) == IF about(f) = {} THEN Min(trail) ELSE Max(about(f))
  <2>1. c \in DOMAIN cards /\ cards[c].by = Nobody
    BY DEF Committed
  <2>2. trail = About(c)
    BY <1>1, <2>1 DEF IntakeInv, Related, About
  <2>3. \A f : about(f) = Changing(c, f)
    BY <2>2 DEF Changing
  <2>4. IsFiniteSet(DOMAIN revisions) /\ DOMAIN revisions \subseteq Nat
    BY <1>1 DEF IntakeInv, Shaped, Table
  <2>5. ASSUME NEW f \in Audited
        PROVE  trail # {} /\ revisions[last(f)].snapshot[f] = cards[c][f]
    <3>1. PICK i \in DOMAIN revisions : Explains(i, c, f) /\ revisions[i].snapshot[f] = cards[c][f]
      BY <1>1, <2>1 DEF IntakeInv, CardInv, Trail
    <3>2. i \in trail
      BY <2>2, <3>1 DEF Explains, Changing
    <3>. HIDE DEF trail
    <3>3. CASE i \in Changing(c, f) /\ \A k \in Changing(c, f) : k <= i
      <4>. DEFINE S == Changing(c, f)
      <4>1. S \in SUBSET DOMAIN revisions /\ S # {}
        BY <3>3 DEF Changing, About
      <4>2. S \subseteq Nat /\ IsFiniteSet(S)
        BY <2>4, <4>1, FS_Subset
      <4>. HIDE DEF S
      <4>3. Max(S) \in S /\ \A y \in S : y <= Max(S)
        BY <4>1, <4>2, MaxIs
      <4>4. Max(S) = i
        <5>1. i \in S /\ Max(S) <= i /\ i <= Max(S)
          BY <3>3, <4>3 DEF S
        <5>2. i \in Nat /\ Max(S) \in Nat
          BY <4>2, <4>3, <5>1
        <5>. QED  BY <5>1, <5>2
      <4>5. last(f) = i
        BY <2>3, <4>1, <4>4 DEF S
      <4>. QED  BY <3>1, <3>2, <4>5
    <3>4. CASE i \in About(c) /\ Changing(c, f) = {} /\ \A k \in About(c) : i <= k
      <4>1. trail \subseteq Nat /\ i \in trail /\ \A k \in trail : i <= k
        BY <2>2, <2>4, <3>2, <3>4 DEF About
      <4>2. Min(trail) \in trail /\ \A k \in trail : Min(trail) <= k
        BY <4>1 DEF Min
      <4>3. Min(trail) = i
        <5>1. i \in Nat /\ Min(trail) \in Nat /\ i <= Min(trail) /\ Min(trail) <= i
          BY <4>1, <4>2
        <5>. QED  BY <5>1
      <4>4. last(f) = i
        BY <2>3, <3>4, <4>3
      <4>. QED  BY <3>1, <3>2, <4>4
    <3>. QED  BY <3>1, <3>3, <3>4 DEF Explains
  <2>6. "cas" \in Audited
    BY DEF Audited
  <2>. QED  BY <2>5, <2>6
<1>. QED  BY <1>1, IntakeKept, PTL

-----------------------------------------------------------------------------
(* The form. *)

\* The form has its fields, and a check is of a name.
FormInv == DOMAIN form = DOMAIN Empty /\ (checks # None => checks.name # None)

\* What a candidate brings with it changes fields of the form; when the form chooses,
\* the name typed is one of the names.
LEMMA AppliedIs ==
  ASSUME NEW f, DOMAIN f = DOMAIN Empty, NEW closure, NEW c, NEW candidates
  PROVE  /\ DOMAIN Applied(f, closure, c, candidates, TRUE) = DOMAIN Empty
         /\ DOMAIN Applied(f, closure, c, candidates, FALSE) = DOMAIN Empty
         /\ Applied(f, closure, c, candidates, TRUE).name = c.name
         /\ ({closure.name} \ {c.name, None}) \ closure.dismissed
              \subseteq Applied(f, closure, c, candidates, TRUE).synonyms
<1>. DEFINE found == NamesFound(c, candidates)
            own == {closure.name} \ {c.name, None}
            cas == IF c.cas = None THEN f.cas ELSE c.cas
            suggested == found \cup own
            both == (f.synonyms \ {c.name}) \cup ((found \cup own) \ closure.dismissed)
            names == (f.synonyms \ {c.name}) \cup ((found \cup {}) \ closure.dismissed)
            applied == Applied(f, closure, c, candidates, TRUE)
            chosen == Applied(f, closure, c, candidates, FALSE)
<1>1. DOMAIN f = {"name", "cas", "synonyms", "excluded", "suggested", "dismissed", "locked", "checked",
                  "applied", "undo", "candidates", "query", "analog", "busy", "sent"}
  BY DEF Empty
<1>2. applied = [f EXCEPT !.name = c.name, !.cas = cas, !.suggested = suggested,
                          !.synonyms = both, !.locked = TRUE]
  BY <1>1 DEF Applied
<1>3. chosen = [f EXCEPT !.name = c.name, !.cas = cas, !.suggested = suggested,
                         !.synonyms = names, !.locked = TRUE]
  BY <1>1 DEF Applied
<1>4. own \ closure.dismissed \subseteq both
  OBVIOUS
<1>. HIDE DEF cas, suggested, both, names, applied, chosen
<1>5. DOMAIN applied = DOMAIN f /\ applied.name = c.name /\ applied.synonyms = both
  BY <1>1, <1>2
<1>6. DOMAIN chosen = DOMAIN f
  BY <1>3
<1>. QED  BY <1>4, <1>5, <1>6 DEF applied, chosen

\* The answer of a check: the fields stay, and where a name is replaced, the name typed
\* is among the names unless it had been taken out.
LEMMA ResolvedIs ==
  ASSUME NEW f, DOMAIN f = DOMAIN Empty, NEW closure, closure.name # None, NEW candidates
  PROVE  /\ DOMAIN Resolved(f, closure, candidates) = DOMAIN Empty
         /\ Resolved(f, closure, candidates).applied # None =>
              closure.name \in Resolved(f, closure, candidates).synonyms \cup closure.dismissed
                               \cup {Resolved(f, closure, candidates).name}
<1>. DEFINE best == {c \in ToSet(candidates) : c.recommended}
            base == [f EXCEPT !.candidates = candidates, !.query = closure.name, !.checked = closure.name]
            c == CHOOSE c \in best : TRUE
            undo == [name |-> closure.name, cas |-> closure.cas, synonyms |-> closure.synonyms,
                     suggested |-> closure.suggested]
            applied == Applied(base, closure, c, candidates, TRUE)
            resolved == Resolved(f, closure, candidates)
<1>1. resolved = IF closure.name \in International \/ best = {}
                 THEN [base EXCEPT !.applied = None, !.undo = None]
                 ELSE [applied EXCEPT !.applied = c.name, !.undo = undo]
  BY DEF Resolved
<1>2. DOMAIN f = {"name", "cas", "synonyms", "excluded", "suggested", "dismissed", "locked", "checked",
                  "applied", "undo", "candidates", "query", "analog", "busy", "sent"}
  BY DEF Empty
<1>3. DOMAIN base = DOMAIN f
  OBVIOUS
<1>. HIDE DEF best, base, c, undo
<1>4. /\ DOMAIN applied = DOMAIN f /\ applied.name = c.name
      /\ ({closure.name} \ {c.name, None}) \ closure.dismissed \subseteq applied.synonyms
  <2>1. DOMAIN base = DOMAIN Empty
    BY <1>3
  <2>2. DOMAIN applied = DOMAIN Empty
    BY <2>1, AppliedIs
  <2>3. applied.name = c.name
    <3>1. "name" \in DOMAIN base
      BY <1>2, <1>3
    <3>2. \E cas, suggested, synonyms :
            applied = [base EXCEPT !.name = c.name, !.cas = cas, !.suggested = suggested,
                                   !.synonyms = synonyms, !.locked = TRUE]
      BY Zenon DEF Applied, applied
    <3>. HIDE DEF applied
    <3>. QED  BY <3>1, <3>2
  <2>4. ({closure.name} \ {c.name, None}) \ closure.dismissed \subseteq applied.synonyms
    BY <2>1, AppliedIs
  <2>. QED  BY <2>2, <2>3, <2>4
<1>. HIDE DEF applied, resolved
<1>5. CASE closure.name \in International \/ best = {}
  <2>1. resolved = [base EXCEPT !.applied = None, !.undo = None]
    BY <1>1, <1>5
  <2>2. DOMAIN resolved = DOMAIN base /\ resolved.applied = None
    BY <1>2, <1>3, <2>1
  <2>. QED  BY <1>3, <2>2 DEF resolved
<1>6. CASE ~(closure.name \in International \/ best = {})
  <2>1. resolved = [applied EXCEPT !.applied = c.name, !.undo = undo]
    BY <1>1, <1>6
  <2>2. DOMAIN resolved = DOMAIN f /\ resolved.name = applied.name /\ resolved.synonyms = applied.synonyms
    BY <1>2, <1>4, <2>1
  <2>. QED  BY <1>4, <2>2 DEF resolved
<1>. QED  BY <1>5, <1>6

LEMMA FormStays ==
  ASSUME FormInv, FormStep PROVE FormInv'
<1>0. DOMAIN form = {"name", "cas", "synonyms", "excluded", "suggested", "dismissed", "locked", "checked",
                     "applied", "undo", "candidates", "query", "analog", "busy", "sent"}
  BY DEF FormInv, Empty
<1>1. CASE CheckArrives
  <2>1. PICK candidates : form' = Resolved(form, checks, candidates)
    BY <1>1 DEF CheckArrives
  <2>. QED  BY <1>1, <2>1, ResolvedIs DEF FormInv, CheckArrives
<1>2. CASE Chooses
  <2>1. PICK c : form' = [Applied(form, form, c, form.candidates, FALSE) EXCEPT !.applied = None, !.undo = None]
    BY <1>2, Zenon DEF Chooses
  <2>. DEFINE applied == Applied(form, form, c, form.candidates, FALSE)
  <2>2. DOMAIN applied = DOMAIN Empty
    BY AppliedIs DEF FormInv
  <2>. HIDE DEF applied
  <2>3. DOMAIN form' = DOMAIN applied
    BY <2>1 DEF applied
  <2>. QED  BY <1>2, <2>2, <2>3 DEF FormInv, Chooses, Touches
<1>3. CASE Checks
  BY <1>3 DEF FormInv, Checks
<1>4. CASE CheckFails
  BY <1>4 DEF FormInv, CheckFails
<1>5. CASE TypesName \/ TypesCas \/ MovesNumber \/ TogglesAnalog \/ Unlocks \/ TogglesExcluded
  BY <1>5 DEF FormInv, TypesName, TypesCas, MovesNumber, TogglesAnalog, Unlocks, TogglesExcluded, Touches
<1>6. CASE ChangesSynonyms
  BY <1>6 DEF FormInv, ChangesSynonyms, Touches
<1>7. CASE Undoes
  BY <1>7 DEF FormInv, Undoes, Touches
<1>8. CASE Copies
  BY <1>8 DEF FormInv, Copies
<1>9. CASE CopyArrives
  BY <1>9 DEF FormInv, CopyArrives
<1>10. ASSUME NEW s \in FormSessions, Creates(s) \/ RequestOpens(s) \/ RequestLost(s) PROVE FormInv'
  BY <1>10 DEF FormInv, Creates, RequestOpens, RequestLost
<1>. QED  BY <1>1, <1>2, <1>3, <1>4, <1>5, <1>6, <1>7, <1>8, <1>9, <1>10 DEF FormStep, FormNext

\* The steps of the others leave the form alone.
LEMMA FormIsLeft ==
  ASSUME Next, ~FormStep PROVE UNCHANGED <<form, checks>>
<1>1. ASSUME NEW s \in Sessions, ServerStep(s) \/ CrashStep(s) PROVE UNCHANGED formVars
  BY <1>1 DEF ServerStep, CrashStep, windowVars
<1>2. ImportStep \/ OtherStep \/ ExpertStep \/ AnalogStep => UNCHANGED formVars
  BY DEF ImportStep, OtherStep, ExpertStep, AnalogStep
<1>3. UNCHANGED formVars
  BY <1>1, <1>2 DEF Next
<1>. QED  BY <1>3 DEF formVars

\* When the form replaces the buyer's spelling of its own accord, the spelling stays
\* among the names unless it had been taken out: applyCandidateFrom, for whatever the
\* services outside answer and whatever the buyer does meanwhile.
THEOREM SpellingIsKept == Spec => OwnSpellingKept
<1>. DEFINE Kept == checks # None /\ checks' = None /\ form'.candidates # <<>> /\ form'.applied # None =>
                      checks.name \in form'.synonyms \cup checks.dismissed \cup {form'.name}
<1>1. Init => FormInv
  <2>. SUFFICES ASSUME Init PROVE FormInv
    OBVIOUS
  <2>1. (form = FilledIn \/ form = Empty) /\ checks = None
    BY DEF Init
  <2>. QED  BY <2>1, IntakeAssumption DEF FormInv
<1>2. FormInv /\ [Next]_vars => FormInv'
  <2>. SUFFICES ASSUME FormInv, [Next]_vars PROVE FormInv'
    OBVIOUS
  <2>1. CASE UNCHANGED vars
    BY <2>1 DEF vars, formVars, FormInv
  <2>2. CASE FormStep
    BY <2>2, FormStays
  <2>3. CASE Next /\ ~FormStep
    BY <2>3, FormIsLeft DEF FormInv
  <2>. QED  BY <2>1, <2>2, <2>3
<1>3. FormInv /\ [Next]_vars => [Kept]_<<form, checks>>
  <2>. SUFFICES ASSUME FormInv, [Next]_vars, ~UNCHANGED <<form, checks>> PROVE Kept
    OBVIOUS
  <2>1. FormStep
    BY FormIsLeft DEF vars, formVars
  <2>. SUFFICES ASSUME checks # None, checks' = None, form'.candidates # <<>>, form'.applied # None
                PROVE  checks.name \in form'.synonyms \cup checks.dismissed \cup {form'.name}
    OBVIOUS
  <2>2. CheckArrives \/ CheckFails
    BY <2>1, Zenon DEF FormStep, FormNext, TypesName, TypesCas, MovesNumber, TogglesAnalog, Unlocks,
                ChangesSynonyms, TogglesExcluded, Checks, Chooses, Undoes, Copies, CopyArrives,
                Creates, RequestOpens, RequestLost, Touches
  <2>3. CASE CheckArrives
    <3>1. PICK candidates : form' = Resolved(form, checks, candidates)
      BY <2>3 DEF CheckArrives
    <3>. QED  BY <3>1, ResolvedIs DEF FormInv
  <2>4. CASE CheckFails
    <3>1. form' = [form EXCEPT !.candidates = <<>>, !.query = None]
      BY <2>4 DEF CheckFails
    <3>2. form'.candidates = <<>>
      BY <3>1 DEF FormInv, Empty
    <3>. QED  BY <3>2
  <2>. QED  BY <2>2, <2>3, <2>4
<1>. HIDE DEF Kept
<1>4. Spec => [][Kept]_<<form, checks>>
  BY <1>1, <1>2, <1>3, PTL DEF Spec
<1>. QED  BY <1>4 DEF OwnSpellingKept, Kept

\* A set of numbers that has a member has a least one.
LEMMA MinIs ==
  ASSUME NEW S, S \subseteq Nat, IsFiniteSet(S), S # {}
  PROVE  Min(S) \in S /\ \A y \in S : Min(S) <= y
<1>. DEFINE rank == Rank(S)
<1>1. /\ Cardinality(S) \in Nat /\ rank \in [S -> 1 .. Cardinality(S)]
      /\ \A x, y \in S : x < y => rank[x] < rank[y]
      /\ \A i \in 1 .. Cardinality(S) : \E x \in S : rank[x] = i
  BY Ranked
<1>. HIDE DEF rank
<1>2. 1 \in 1 .. Cardinality(S)
  BY <1>1, FS_EmptySet
<1>3. PICK x \in S : rank[x] = 1
  BY <1>1, <1>2
<1>4. \A y \in S : x <= y
  BY <1>1, <1>3
<1>. QED  BY <1>4 DEF Min

\* A list of the members of a function over places.
LEMMA ListIsSeq ==
  ASSUME NEW n \in Nat, NEW q, q = [i \in 1 .. n |-> q[i]]
  PROVE  IsSeq(q)
<1>1. DOMAIN q = 1 .. n
  OBVIOUS
<1>2. q \in [1 .. n -> {q[i] : i \in DOMAIN q}]
  BY <1>1
<1>. QED  BY <1>2, IsASeq DEF IsSeq

\* Every member of a list is one of another at these places.
Taken(q, list, places) == \A k \in DOMAIN q : \E i \in places : q[k] = list[i]

\* What leads a list is a list of its members.
LEMMA LeadingIs ==
  ASSUME NEW list, NEW places, places \subseteq Nat, IsFiniteSet(places), NEW n \in Nat
  PROVE  IsSeq(Leading(list, places, n)) /\ Taken(Leading(list, places, n), list, places)
<1>. DEFINE rank == Rank(places)
            m == Min({Cardinality(places), n})
            at(k) == CHOOSE i \in places : Cardinality({j \in places : j <= i}) = k
            q == Leading(list, places, n)
<1>1. /\ Cardinality(places) \in Nat
      /\ \A i \in 1 .. Cardinality(places) : \E x \in places : rank[x] = i
  BY Ranked
<1>2. m \in Nat /\ m <= Cardinality(places)
  <2>. DEFINE S == {Cardinality(places), n}
  <2>1. \A x, y \in Nat : Min({x, y}) \in {x, y} /\ Min({x, y}) <= x
    BY DEF Min
  <2>. QED  BY <1>1, <2>1
<1>3. q = [k \in 1 .. m |-> list[at(k)]]
  BY DEF Leading
<1>4. ASSUME NEW k \in 1 .. m PROVE at(k) \in places
  <2>1. k \in 1 .. Cardinality(places)
    BY <1>1, <1>2
  <2>2. PICK x \in places : rank[x] = k
    BY <1>1, <2>1
  <2>3. Cardinality({j \in places : j <= x}) = k
    BY <2>2 DEF Rank
  <2>. QED  BY <2>3
<1>. HIDE DEF m, at, q
<1>5. DOMAIN q = 1 .. m /\ \A k \in 1 .. m : q[k] = list[at(k)]
  BY <1>3
<1>6. IsSeq(q)
  BY <1>2, <1>3, ListIsSeq
<1>7. Taken(q, list, places)
  BY <1>4, <1>5 DEF Taken
<1>. QED  BY <1>6, <1>7 DEF q

-----------------------------------------------------------------------------
(* The recommendation. *)

\* The columns of a candidate before the recommendation is marked.
CandidateFields == {"name", "relation", "cas", "source", "quoted", "synonyms", "conflict", "recommended"}

\* A candidate that is not recommended yet.
Unmarked(c) == DOMAIN c = CandidateFields /\ c.recommended = FALSE

\* A list of candidates none of which is recommended yet.
Found(q) == IsSeq(q) /\ \A i \in DOMAIN q : Unmarked(q[i])

\* A candidate has its columns, and no mark.
LEMMA CandidateIs ==
  ASSUME NEW name, NEW relation, NEW cas, NEW source
  PROVE  Unmarked(Candidate(name, relation, cas, source))
BY DEF Candidate, Unmarked, CandidateFields

\* A list built by its places is found when its candidates are unmarked.
LEMMA FoundIs ==
  ASSUME NEW n \in Nat, NEW q, q = [i \in 1 .. n |-> q[i]], \A i \in 1 .. n : Unmarked(q[i])
  PROVE  Found(q)
BY ListIsSeq DEF Found

\* A list is the function from its places, which are the numbers up to its length.
LEMMA SeqIs ==
  ASSUME NEW q, IsSeq(q)
  PROVE  /\ Len(q) \in Nat /\ DOMAIN q = 1 .. Len(q) /\ q = [i \in 1 .. Len(q) |-> q[i]]
         /\ IsFiniteSet(DOMAIN q) /\ DOMAIN q \subseteq Nat
<1>1. Len(q) \in Nat /\ DOMAIN q = 1 .. Len(q)
  BY LenProperties DEF IsSeq
<1>2. q = [i \in 1 .. Len(q) |-> q[i]]
  BY LenProperties DEF IsSeq
<1>3. IsFiniteSet(1 .. Len(q)) /\ 1 .. Len(q) \subseteq Nat
  BY <1>1, FS_Interval
<1>. QED  BY <1>1, <1>2, <1>3

\* One list after another.
LEMMA JoinedIs ==
  ASSUME NEW p, NEW q, Found(p), Found(q)
  PROVE  Found(p \o q)
<1>. DEFINE S == {p[i] : i \in DOMAIN p} \cup {q[i] : i \in DOMAIN q}
            r == p \o q
<1>1. p \in Seq(S) /\ q \in Seq(S)
  <2>. DEFINE P == {p[i] : i \in DOMAIN p}
              Q == {q[i] : i \in DOMAIN q}
  <2>1. p \in Seq(P) /\ q \in Seq(Q)
    BY DEF Found, IsSeq
  <2>. HIDE DEF P, Q
  <2>2. p \in Seq(P \cup Q) /\ q \in Seq(P \cup Q)
    BY <2>1
  <2>. QED  BY <2>2 DEF P, Q
<1>2. \A c \in S : Unmarked(c)
  BY DEF Found
<1>. HIDE DEF S
<1>3. r \in Seq(S)
  BY <1>1, ConcatProperties
<1>. HIDE DEF r
<1>4. Len(r) \in Nat /\ DOMAIN r = 1 .. Len(r) /\ r = [i \in 1 .. Len(r) |-> r[i]]
      /\ \A i \in 1 .. Len(r) : r[i] \in S
  BY <1>3, LenProperties
<1>5. Found(r)
  BY <1>2, <1>4, FoundIs
<1>. QED  BY <1>5 DEF r

\* _merge gives candidates for candidates.
LEMMA MergedIs ==
  ASSUME NEW q, Found(q) PROVE Found(MergeNames(q))
<1>. DEFINE alike(i) == {j \in DOMAIN q : q[j].name = q[i].name}
            numbered(i) == {j \in alike(i) : Confirmed(q[j])}
            named(i) == {j \in alike(i) : q[j].synonyms # {}}
            kept(i) == q[Min(IF numbered(i) = {} THEN alike(i) ELSE numbered(i))]
            merged(i) == IF kept(i).synonyms # {} \/ named(i) = {} THEN kept(i)
                         ELSE [kept(i) EXCEPT !.synonyms = q[Min(named(i))].synonyms]
            entries == [i \in DOMAIN q |-> merged(i)]
            firsts == {i \in DOMAIN q : i = Min(alike(i))}
            m == Leading(entries, firsts, MaxCandidates)
<1>1. IsFiniteSet(DOMAIN q) /\ DOMAIN q \subseteq Nat
  BY SeqIs DEF Found
<1>2. ASSUME NEW i \in DOMAIN q PROVE Unmarked(merged(i))
  <2>. DEFINE S == IF numbered(i) = {} THEN alike(i) ELSE numbered(i)
  <2>1. S # {} /\ S \in SUBSET DOMAIN q
    OBVIOUS
  <2>2. IsFiniteSet(S) /\ S \subseteq Nat
    BY <1>1, <2>1, FS_Subset
  <2>3. kept(i) = q[Min(S)]
    OBVIOUS
  <2>. HIDE DEF S
  <2>4. Min(S) \in DOMAIN q
    BY <2>1, <2>2, MinIs
  <2>. HIDE DEF kept
  <2>5. Unmarked(kept(i))
    BY <2>3, <2>4 DEF Found
  <2>6. \A x : Unmarked([kept(i) EXCEPT !.synonyms = x])
    BY <2>5 DEF Unmarked, CandidateFields
  <2>. QED  BY <2>5, <2>6
<1>3. MaxCandidates \in Nat
  BY IntakeAssumption
<1>4. m = MergeNames(q)
  BY DEF MergeNames
<1>5. IsFiniteSet(firsts) /\ firsts \subseteq Nat /\ firsts \subseteq DOMAIN q
  <2>1. firsts \in SUBSET DOMAIN q
    OBVIOUS
  <2>. HIDE DEF firsts
  <2>. QED  BY <1>1, <2>1, FS_Subset
<1>. HIDE DEF firsts, merged
<1>6. \A i \in firsts : Unmarked(entries[i])
  BY <1>2, <1>5
<1>. HIDE DEF entries
<1>. HIDE DEF m
<1>7. IsSeq(m) /\ Taken(m, entries, firsts)
  BY <1>3, <1>5, LeadingIs DEF m
<1>8. Found(m)
  BY <1>6, <1>7 DEF Found, Taken
<1>. QED  BY <1>4, <1>8

\* What is recognised of a name is a list of candidates.
LEMMA RecognisedIs ==
  ASSUME NEW query, NEW w \in Worlds PROVE Found(Recognised(query, w))
<1>. DEFINE known == LookupPubchem(query, w)
            snippets == CollectSnippets(query, w)
            read == [i \in DOMAIN w.model |-> AcceptCandidate(w.model[i], snippets)]
<1>1. Found(known)
  <2>1. CASE w.registry = None
    <3>1. known = <<>>
      BY <2>1 DEF LookupPubchem
    <3>. QED  BY <3>1 DEF Found, IsSeq
  <2>2. CASE w.registry # None
    <3>1. \E name, cas, synonyms : known = <<[Candidate(name, "same", cas, "pubchem") EXCEPT !.synonyms = synonyms]>>
      BY <2>2 DEF LookupPubchem
    <3>2. PICK name, cas, synonyms :
            known = <<[Candidate(name, "same", cas, "pubchem") EXCEPT !.synonyms = synonyms]>>
      BY <3>1
    <3>. DEFINE c == [Candidate(name, "same", cas, "pubchem") EXCEPT !.synonyms = synonyms]
    <3>3. Unmarked(c)
      BY CandidateIs DEF Unmarked, CandidateFields
    <3>. HIDE DEF c
    <3>4. known = <<c>>
      BY <3>2 DEF c
    <3>. HIDE DEF known
    <3>5. known = [i \in 1 .. 1 |-> known[i]] /\ known[1] = c
      BY <3>4
    <3>6. \A i \in 1 .. 1 : Unmarked(known[i])
      BY <3>3, <3>5
    <3>. QED  BY <3>5, <3>6, FoundIs
  <2>. QED  BY <2>1, <2>2
<1>2. Found(read)
  <2>1. ASSUME NEW raw PROVE Unmarked(AcceptCandidate(raw, snippets))
    <3>1. \A cas, x : Unmarked([Candidate(raw.name, raw.relation, cas, "web") EXCEPT !.quoted = x])
      BY DEF Candidate, Unmarked, CandidateFields
    <3>. HIDE DEF snippets
    <3>. QED  BY <3>1 DEF AcceptCandidate
  <2>2. Len(w.model) \in Nat /\ DOMAIN w.model = 1 .. Len(w.model)
    BY IntakeAssumption
  <2>. HIDE DEF snippets
  <2>3. read = [i \in 1 .. Len(w.model) |-> read[i]] /\ \A i \in 1 .. Len(w.model) : Unmarked(read[i])
    BY <2>1, <2>2
  <2>. HIDE DEF read
  <2>. QED  BY <2>2, <2>3, FoundIs
<1>3. Recognised(query, w) = IF snippets = {} \/ ~w.reads THEN known ELSE MergeNames(known \o read)
  BY DEF Recognised
<1>. HIDE DEF known, snippets, read
<1>. QED  BY <1>1, <1>2, <1>3, JoinedIs, MergedIs

\* What the registry says of formulas marks none of the candidates.
LEMMA AnnotatedIs ==
  ASSUME NEW query, NEW q, Found(q), NEW w PROVE Found(AnnotateFormulas(query, q, w))
<1>. DEFINE a == AnnotateFormulas(query, q, w)
<1>1. Len(q) \in Nat /\ DOMAIN q = 1 .. Len(q)
  BY SeqIs DEF Found
<1>2. ASSUME NEW i \in DOMAIN q PROVE Unmarked(a[i])
  <2>1. Unmarked(q[i])
    BY DEF Found
  <2>2. \A x : Unmarked([q[i] EXCEPT !.conflict = x])
    BY <2>1 DEF Unmarked, CandidateFields
  <2>3. a[i] = q[i] \/ \E x : a[i] = [q[i] EXCEPT !.conflict = x]
    BY DEF AnnotateFormulas
  <2>. QED  BY <2>1, <2>2, <2>3
<1>3. a = [i \in 1 .. Len(q) |-> a[i]]
  BY <1>1 DEF AnnotateFormulas
<1>. HIDE DEF a
<1>4. Found(a)
  BY <1>1, <1>2, <1>3, FoundIs
<1>. QED  BY <1>4 DEF a

\* The Latin names a model translates are candidates like the others.
LEMMA FallbackIs ==
  ASSUME NEW q, Found(q), NEW w \in Worlds PROVE Found(InternationalFallback(q, w))
<1>. DEFINE names == w.translations
            places == {i \in DOMAIN names : names[i] \in International}
            taken == Leading(names, places, 2)
            proposed == [i \in DOMAIN taken |-> ConfirmTranslated(taken[i], w)]
<1>1. Len(names) \in Nat /\ DOMAIN names = 1 .. Len(names)
  BY IntakeAssumption
<1>2. places \in SUBSET (1 .. Len(names)) /\ IsFiniteSet(1 .. Len(names))
  BY <1>1, FS_Interval
<1>. HIDE DEF places
<1>3. IsFiniteSet(places) /\ places \subseteq Nat
  <2>1. IsFiniteSet(places)
    BY <1>2, FS_Subset
  <2>. QED  BY <1>1, <1>2, <2>1
<1>4. IsSeq(taken)
  BY <1>3, LeadingIs
<1>. HIDE DEF taken
<1>5. Len(taken) \in Nat /\ DOMAIN taken = 1 .. Len(taken)
  BY <1>4, SeqIs
<1>6. ASSUME NEW name PROVE Unmarked(ConfirmTranslated(name, w))
  <2>1. \A x : Unmarked([Candidate(name, "same", x, "web") EXCEPT !.quoted = TRUE])
    BY CandidateIs DEF Unmarked, CandidateFields
  <2>. QED  BY <2>1, CandidateIs DEF ConfirmTranslated
<1>7. proposed = [i \in 1 .. Len(taken) |-> proposed[i]] /\ \A i \in 1 .. Len(taken) : Unmarked(proposed[i])
  BY <1>5, <1>6
<1>. HIDE DEF proposed
<1>8. Found(proposed)
  BY <1>5, <1>7, FoundIs
<1>9. InternationalFallback(q, w) = MergeNames(q \o proposed)
  BY DEF InternationalFallback, proposed, taken, places
<1>. QED  BY <1>8, <1>9, JoinedIs, MergedIs

\* The score of a candidate is positive exactly when it may be recommended.
LEMMA ReliabilityIs ==
  ASSUME NEW query, NEW c
  PROVE  Reliability(query, c) \in 0 .. 17 /\ (Reliability(query, c) > 0 <=> Usable(query, c))
BY DEF Reliability

\* What RecommendationIsAnchor says of a list of candidates for a query.
Anchored(query, list) ==
  LET best == {c \in ToSet(list) : c.recommended}
  IN  /\ Cardinality(best) <= 1
      /\ \A c \in best : Usable(query, c)
      /\ (\E c \in ToSet(list) : Usable(query, c)) => best # {}

\* _mark_recommended marks one of the usable candidates when there is one.
LEMMA MarkedIs ==
  ASSUME NEW query, NEW q, Found(q) PROVE Anchored(query, MarkRecommended(query, q))
<1>. DEFINE score(i) == Reliability(query, q[i])
            first == {i \in DOMAIN q : score(i) > 0 /\ \A j \in DOMAIN q : score(j) <= score(i)}
            r == MarkRecommended(query, q)
            best == {c \in ToSet(r) : c.recommended}
<1>1. IsFiniteSet(DOMAIN q) /\ DOMAIN q \subseteq Nat
  BY SeqIs DEF Found
<1>2. \A i \in DOMAIN q : score(i) \in 0 .. 17 /\ (score(i) > 0 <=> Usable(query, q[i]))
  BY ReliabilityIs
<1>3. r = IF first = {} THEN q ELSE [q EXCEPT ![Min(first)].recommended = TRUE]
  BY DEF MarkRecommended
<1>4. CASE first = {}
  <2>1. r = q
    BY <1>3, <1>4
  <2>2. best = {}
    BY <2>1 DEF Found, Unmarked, ToSet
  <2>3. ASSUME NEW i \in DOMAIN q, Usable(query, q[i]) PROVE FALSE
    <3>. DEFINE S == {score(j) : j \in DOMAIN q}
    <3>1. S \in SUBSET (0 .. 17) /\ S # {} /\ score(i) \in S
      BY <1>2, <2>3
    <3>2. IsFiniteSet(0 .. 17) /\ 0 .. 17 \subseteq Nat
      <4>. DEFINE n == 17
      <4>1. n \in Nat
        OBVIOUS
      <4>. HIDE DEF n
      <4>2. IsFiniteSet(0 .. n)
        BY <4>1, FS_Interval
      <4>. QED  BY <4>1, <4>2 DEF n
    <3>3. IsFiniteSet(S) /\ S \subseteq Nat
      <4>. HIDE DEF S
      <4>. QED  BY <3>1, <3>2, FS_Subset
    <3>4. Max(S) \in S /\ \A x \in S : x <= Max(S)
      <4>. HIDE DEF S
      <4>. QED  BY <3>1, <3>3, MaxIs
    <3>5. PICK k \in DOMAIN q : score(k) = Max(S)
      BY <3>4
    <3>6. score(i) <= score(k) /\ \A j \in DOMAIN q : score(j) <= score(k)
      BY <3>4, <3>5
    <3>. HIDE DEF S, score
    <3>7. score(k) > 0
      BY <1>2, <2>3, <3>6
    <3>8. k \in first
      BY <3>6, <3>7
    <3>. QED  BY <1>4, <3>8
  <2>4. Cardinality(best) = 0
    BY <2>2, FS_EmptySet
  <2>. QED  BY <2>1, <2>2, <2>3, <2>4 DEF Anchored, ToSet
<1>5. CASE first # {}
  <2>. DEFINE m == Min(first)
  <2>1. m \in first
    <3>1. first \in SUBSET DOMAIN q
      OBVIOUS
    <3>2. IsFiniteSet(first) /\ first \subseteq Nat
      <4>. HIDE DEF first
      <4>. QED  BY <1>1, <3>1, FS_Subset
    <3>. HIDE DEF first
    <3>. QED  BY <1>5, <3>2, MinIs
  <2>2. m \in DOMAIN q /\ Usable(query, q[m])
    BY <1>2, <2>1
  <2>3. r = [q EXCEPT ![m].recommended = TRUE]
    BY <1>3, <1>5
  <2>. HIDE DEF m, r, first
  <2>4. \A i \in DOMAIN q : Unmarked(q[i])
    BY DEF Found
  <2>5. r[m] = [q[m] EXCEPT !.recommended = TRUE] /\ DOMAIN r = DOMAIN q
        /\ \A i \in DOMAIN q : i # m => r[i] = q[i]
    BY <2>2, <2>3
  <2>6. /\ r[m].recommended = TRUE /\ r[m].relation = q[m].relation
        /\ r[m].conflict = q[m].conflict /\ r[m].name = q[m].name
    BY <2>2, <2>4, <2>5 DEF Unmarked, CandidateFields
  <2>7. best = {r[m]}
    <3>1. r[m] \in ToSet(r)
      BY <2>2, <2>5 DEF ToSet
    <3>2. \A c \in ToSet(r) : c = r[m] \/ c.recommended = FALSE
      BY <2>4, <2>5 DEF ToSet, Unmarked
    <3>. QED  BY <2>6, <3>1, <3>2
  <2>8. Cardinality(best) = 1
    BY <2>7, FS_Singleton
  <2>9. Usable(query, r[m])
    BY <2>2, <2>6 DEF Usable
  <2>. HIDE DEF best
  <2>10. /\ Cardinality(best) <= 1 /\ best # {}
         /\ \A c \in best : Usable(query, c)
    BY <2>7, <2>8, <2>9
  <2>. QED  BY <2>10 DEF Anchored, best, r
<1>. QED  BY <1>4, <1>5

\* What the check of a name answers is anchored, whatever the services outside say.
LEMMA ResolutionIs ==
  ASSUME NEW query, NEW w \in Worlds PROVE Anchored(query, ResolveSubstance(query, w))
<1>. DEFINE found == AnnotateFormulas(query, Recognised(query, w), w)
<1>1. Found(found)
  BY RecognisedIs, AnnotatedIs
<1>2. Found(InternationalFallback(found, w))
  BY <1>1, FallbackIs
<1>3. \/ ResolveSubstance(query, w) = MarkRecommended(query, found)
      \/ ResolveSubstance(query, w) = MarkRecommended(query, InternationalFallback(found, w))
  BY DEF ResolveSubstance
<1>. HIDE DEF found
<1>. QED  BY <1>1, <1>2, <1>3, MarkedIs

\* What the answer of a check puts into the form.
LEMMA ResolvedHolds ==
  ASSUME NEW f, DOMAIN f = DOMAIN Empty, NEW closure, NEW candidates
  PROVE  /\ Resolved(f, closure, candidates).candidates = candidates
         /\ Resolved(f, closure, candidates).query = closure.name
<1>. DEFINE best == {c \in ToSet(candidates) : c.recommended}
            base == [f EXCEPT !.candidates = candidates, !.query = closure.name, !.checked = closure.name]
            c == CHOOSE c \in best : TRUE
            undo == [name |-> closure.name, cas |-> closure.cas, synonyms |-> closure.synonyms,
                     suggested |-> closure.suggested]
            applied == Applied(base, closure, c, candidates, TRUE)
            resolved == Resolved(f, closure, candidates)
<1>1. resolved = IF closure.name \in International \/ best = {}
                 THEN [base EXCEPT !.applied = None, !.undo = None]
                 ELSE [applied EXCEPT !.applied = c.name, !.undo = undo]
  BY DEF Resolved
<1>2. DOMAIN f = {"name", "cas", "synonyms", "excluded", "suggested", "dismissed", "locked", "checked",
                  "applied", "undo", "candidates", "query", "analog", "busy", "sent"}
  BY DEF Empty
<1>3. DOMAIN base = DOMAIN f /\ base.candidates = candidates /\ base.query = closure.name
  BY <1>2
<1>. HIDE DEF best, base, c, undo
<1>4. applied.candidates = candidates /\ applied.query = closure.name
  <2>1. \E cas, suggested, synonyms :
          applied = [base EXCEPT !.name = c.name, !.cas = cas, !.suggested = suggested,
                                 !.synonyms = synonyms, !.locked = TRUE]
    BY Zenon DEF Applied, applied
  <2>. HIDE DEF applied
  <2>. QED  BY <1>2, <1>3, <2>1
<1>. HIDE DEF applied, resolved
<1>5. resolved.candidates = candidates /\ resolved.query = closure.name
  BY <1>1, <1>3, <1>4
<1>. QED  BY <1>5 DEF resolved

\* Of the candidates in the form at most one is recommended, and one is whenever one may
\* be: the same substance, Latin for a Cyrillic name, with no conflict of composition.
\* It is what _reliability and _mark_recommended make of the candidates that are left,
\* whatever the services outside answer and however the buyer works on meanwhile.
THEOREM AnchorIsRecommended == Spec => []RecommendationIsAnchor
<1>. DEFINE Inv == FormInv /\ RecommendationIsAnchor
<1>0. RecommendationIsAnchor <=> Anchored(form.query, form.candidates)
  BY DEF RecommendationIsAnchor, Anchored
<1>e. ASSUME NEW query PROVE Anchored(query, <<>>)
  <2>. DEFINE members == ToSet(<<>>)
              best == {c \in members : c.recommended}
  <2>1. members = {}
    BY DEF ToSet
  <2>2. best = {}
    BY <2>1
  <2>3. Cardinality({}) = 0
    BY FS_EmptySet
  <2>. HIDE DEF best
  <2>4. /\ Cardinality(best) <= 1
        /\ \A c \in best : Usable(query, c)
        /\ (\E c \in members : Usable(query, c)) => best # {}
    BY <2>1, <2>2, <2>3
  <2>. QED  BY <2>4 DEF Anchored, best
<1>1. Init => Inv
  <2>. SUFFICES ASSUME Init PROVE Inv
    OBVIOUS
  <2>1. (form = FilledIn \/ form = Empty) /\ checks = None
    BY DEF Init
  <2>2. FormInv
    BY <2>1, IntakeAssumption DEF FormInv
  <2>3. form.candidates = <<>>
    BY <2>1, IntakeAssumption DEF Empty
  <2>. QED  BY <1>0, <1>e, <2>2, <2>3
<1>2. Inv /\ [Next]_vars => Inv'
  <2>. SUFFICES ASSUME FormInv, RecommendationIsAnchor, [Next]_vars PROVE Inv'
    OBVIOUS
  <2>0. RecommendationIsAnchor' <=> Anchored(form'.query, form'.candidates)
    BY DEF RecommendationIsAnchor, Anchored
  <2>1. CASE UNCHANGED <<form, checks>>
    BY <2>1 DEF FormInv, RecommendationIsAnchor
  <2>2. CASE FormStep
    <3>1. FormInv'
      BY <2>2, FormStays
    <3>2. DOMAIN form = {"name", "cas", "synonyms", "excluded", "suggested", "dismissed", "locked", "checked",
                         "applied", "undo", "candidates", "query", "analog", "busy", "sent"}
      BY DEF FormInv, Empty
    <3>3. CASE CheckArrives
      <4>1. PICK w \in Worlds : form' = Resolved(form, checks, ResolveSubstance(checks.name, w))
        BY <3>3 DEF CheckArrives
      <4>2. form'.candidates = ResolveSubstance(checks.name, w) /\ form'.query = checks.name
        BY <4>1, ResolvedHolds DEF FormInv
      <4>. QED  BY <2>0, <3>1, <4>2, ResolutionIs
    <3>4. CASE CheckFails
      <4>1. form'.candidates = <<>>
        BY <3>2, <3>4 DEF CheckFails
      <4>. QED  BY <1>e, <2>0, <3>1, <4>1
    <3>5. CASE Chooses
      <4>1. PICK c : form' = [Applied(form, form, c, form.candidates, FALSE) EXCEPT !.applied = None, !.undo = None]
        BY <3>5, Zenon DEF Chooses
      <4>. DEFINE applied == Applied(form, form, c, form.candidates, FALSE)
      <4>2. \E cas, suggested, synonyms :
              applied = [form EXCEPT !.name = c.name, !.cas = cas, !.suggested = suggested,
                                     !.synonyms = synonyms, !.locked = TRUE]
        BY Zenon DEF Applied
      <4>. HIDE DEF applied
      <4>3. applied.candidates = form.candidates /\ applied.query = form.query
        BY <3>2, <4>2
      <4>4. form' = [applied EXCEPT !.applied = None, !.undo = None]
        BY <4>1 DEF applied
      <4>5. form'.candidates = form.candidates /\ form'.query = form.query
        BY <4>3, <4>4
      <4>. QED  BY <1>0, <2>0, <3>1, <4>5
    <3>6. CASE \/ TypesName \/ TypesCas \/ MovesNumber \/ TogglesAnalog \/ Unlocks \/ ChangesSynonyms
               \/ TogglesExcluded \/ Checks \/ Undoes \/ Copies \/ CopyArrives
               \/ \E s \in FormSessions : Creates(s) \/ RequestOpens(s) \/ RequestLost(s)
      <4>1. form'.candidates = form.candidates /\ form'.query = form.query
        <5>1. CASE TypesName \/ TypesCas \/ MovesNumber \/ TogglesAnalog \/ Unlocks \/ TogglesExcluded
          BY <3>2, <5>1 DEF TypesName, TypesCas, MovesNumber, TogglesAnalog, Unlocks, TogglesExcluded
        <5>2. CASE ChangesSynonyms \/ Checks \/ Undoes \/ Copies \/ CopyArrives
          BY <3>2, <5>2, Zenon DEF ChangesSynonyms, Checks, Undoes, Copies, CopyArrives
        <5>3. ASSUME NEW s \in FormSessions, Creates(s) \/ RequestOpens(s) \/ RequestLost(s)
              PROVE  form'.candidates = form.candidates /\ form'.query = form.query
          BY <3>2, <5>3 DEF Creates, RequestOpens, RequestLost
        <5>. QED  BY <3>6, <5>1, <5>2, <5>3
      <4>. QED  BY <1>0, <2>0, <3>1, <4>1
    <3>. QED  BY <2>2, <3>3, <3>4, <3>5, <3>6 DEF FormStep, FormNext
  <2>. QED  BY <2>1, <2>2, FormIsLeft DEF vars, formVars
<1>. QED  BY <1>1, <1>2, PTL DEF Spec

-----------------------------------------------------------------------------
(* Substitutes. *)

\* A committed request of a table.
Stands(t, p) == p \in DOMAIN t /\ t[p].by = Nobody

\* A substance that may replace the position of a committed request.
For(t, p, name, cas) == Stands(t, p) /\ Another(name, cas, t[p])

\* What a batch with a key of a confirmation may hold.
Offered(t, key, name, cas) == key[1] = "analog" => For(t, key[2], name, cas)

\* The rows of a list are for substitutes of the position its key names.
RowsOffered(t, key, items, defaults) ==
  \A i \in DOMAIN items :
    LET values == MergedValues(items[i].values, defaults)
    IN  Offered(t, key, values["name"], ValueOf(values, "cas"))

\* A handler on its way from a suggestion to the rows of a batch.
Seeking(t, lots, j) ==
  /\ j.at \in {"suggest", "store"} => Stands(t, j.rfq)
  /\ j.at = "store" => /\ IsSeq(j.found)
                       /\ \A i \in DOMAIN j.found : For(t, j.rfq, j.found[i].name, j.found[i].cas)
  /\ j.at \in {"lookup", "insert", "rows"} =>
       "defaults" \in DOMAIN j /\ RowsOffered(t, j.key, j.items, j.defaults)
  /\ j.at = "rows" => lots[j.batch].key = j.key

\* A candidate there is.
Suggested(t, row) == For(t, row.rfq, row.name, row.cas)

\* A request of a batch.
Ordered(t, lots, row) == row.batch # None => Offered(t, lots[row.batch].key, row.name, row.cas)

\* Whatever is offered for a position, on its way or in a table, is another substance.
Sought ==
  /\ IsFiniteSet(DOMAIN analogs) /\ DOMAIN analogs \subseteq Nat
  /\ \A a \in DOMAIN analogs : Suggested(rfqs, analogs[a])
  /\ desk.rfq # None => Stands(rfqs, desk.rfq)
  /\ \A s \in Sessions : Seeking(rfqs, batches, jobs[s])
  /\ \A r \in DOMAIN rfqs : Ordered(rfqs, batches, rfqs[r])

\* Committed requests stay what they are.
Steady(t, u) ==
  \A p \in DOMAIN t : t[p].by = Nobody =>
    p \in DOMAIN u /\ u[p].by = Nobody /\ u[p].name = t[p].name /\ u[p].cas = t[p].cas

\* Later tables keep what was so of a position.
LEMMA ForStays ==
  ASSUME NEW t, NEW u, Steady(t, u)
  PROVE  /\ \A p : Stands(t, p) => Stands(u, p)
         /\ \A p, name, cas : For(t, p, name, cas) => For(u, p, name, cas)
         /\ \A key, name, cas : Offered(t, key, name, cas) => Offered(u, key, name, cas)
<1>1. \A p : Stands(t, p) => Stands(u, p)
  BY DEF Steady, Stands
<1>2. \A p, name, cas : For(t, p, name, cas) => For(u, p, name, cas)
  BY <1>1 DEF Steady, For, Stands, Another
<1>3. \A key, name, cas : Offered(t, key, name, cas) => Offered(u, key, name, cas)
  BY <1>2 DEF Offered
<1>. QED  BY <1>1, <1>2, <1>3

\* So with what a handler holds.
LEMMA SeekingStays ==
  ASSUME NEW t, NEW u, Steady(t, u), NEW lots, NEW others, NEW j, Seeking(t, lots, j),
         j.at = "rows" => others[j.batch].key = lots[j.batch].key
  PROVE  Seeking(u, others, j)
<1>1. j.at \in {"lookup", "insert", "rows"} => RowsOffered(u, j.key, j.items, j.defaults)
  BY ForStays DEF Seeking, RowsOffered
<1>2. j.at = "store" => \A i \in DOMAIN j.found : For(u, j.rfq, j.found[i].name, j.found[i].cas)
  BY ForStays DEF Seeking
<1>3. j.at \in {"suggest", "store"} => Stands(u, j.rfq)
  BY ForStays DEF Seeking
<1>. QED  BY <1>1, <1>2, <1>3 DEF Seeking

\* A step keeps what is sought when all that it writes is.
LEMMA SoughtStays ==
  ASSUME IntakeInv, IntakeInv', Sought, Steady(rfqs, rfqs'),
         \A b \in DOMAIN batches : b \in DOMAIN batches' => batches'[b].key = batches[b].key,
         IsFiniteSet(DOMAIN analogs'), DOMAIN analogs' \subseteq Nat,
         \A a \in DOMAIN analogs' : Suggested(rfqs, analogs'[a]),
         desk'.rfq = desk.rfq \/ (desk'.rfq # None => Stands(rfqs, desk'.rfq)),
         \A t \in Sessions : jobs'[t] = jobs[t] \/ Seeking(rfqs, batches', jobs'[t]),
         \A r \in DOMAIN rfqs' :
           \/ /\ r \in DOMAIN rfqs /\ rfqs'[r].batch = rfqs[r].batch
              /\ rfqs'[r].name = rfqs[r].name /\ rfqs'[r].cas = rfqs[r].cas
           \/ Ordered(rfqs, batches', rfqs'[r])
  PROVE  Sought'
<1>1. \A a \in DOMAIN analogs' : Suggested(rfqs', analogs'[a])
  BY ForStays DEF Suggested
<1>2. desk'.rfq # None => Stands(rfqs', desk'.rfq)
  BY ForStays DEF Sought
<1>3. ASSUME NEW t \in Sessions PROVE Seeking(rfqs', batches', jobs'[t])
  <2>. DEFINE j == jobs'[t]
  <2>1. CASE jobs'[t] = jobs[t]
    <3>1. Seeking(rfqs, batches, j)
      BY <2>1 DEF Sought
    <3>2. j.at = "rows" => batches'[j.batch].key = batches[j.batch].key
      <4>. SUFFICES ASSUME j.at = "rows" PROVE batches'[j.batch].key = batches[j.batch].key
        OBVIOUS
      <4>1. j.batch \in DOMAIN batches
        BY <2>1 DEF IntakeInv, BatchInv, JobsKept, JobKept, AtRows
      <4>2. j.batch \in DOMAIN batches'
        BY DEF IntakeInv, BatchInv, JobsKept, JobKept, AtRows
      <4>. QED  BY <4>1, <4>2
    <3>. HIDE DEF j
    <3>3. Seeking(rfqs', batches', j)
      BY <3>1, <3>2, SeekingStays
    <3>. QED  BY <3>3 DEF j
  <2>2. CASE Seeking(rfqs, batches', j)
    <3>. HIDE DEF j
    <3>1. Seeking(rfqs', batches', j)
      BY <2>2, SeekingStays
    <3>. QED  BY <3>1 DEF j
  <2>. QED  BY <2>1, <2>2
<1>4. ASSUME NEW r \in DOMAIN rfqs' PROVE Ordered(rfqs', batches', rfqs'[r])
  <2>1. CASE /\ r \in DOMAIN rfqs /\ rfqs'[r].batch = rfqs[r].batch
             /\ rfqs'[r].name = rfqs[r].name /\ rfqs'[r].cas = rfqs[r].cas
    <3>. DEFINE b == rfqs[r].batch
    <3>. SUFFICES ASSUME b # None
                  PROVE  Offered(rfqs', batches'[b].key, rfqs[r].name, rfqs[r].cas)
      BY <2>1 DEF Ordered
    <3>1. b \in DOMAIN batches /\ b \in DOMAIN batches'
      BY <2>1 DEF IntakeInv, Related
    <3>2. batches'[b].key = batches[b].key
      BY <3>1
    <3>3. Offered(rfqs, batches[b].key, rfqs[r].name, rfqs[r].cas)
      BY <2>1 DEF Sought, Ordered
    <3>. QED  BY <3>2, <3>3, ForStays
  <2>2. CASE Ordered(rfqs, batches', rfqs'[r])
    BY <2>2, ForStays DEF Ordered
  <2>. QED  BY <2>1, <2>2
<1>. QED  BY <1>1, <1>2, <1>3, <1>4 DEF Sought

\* _merge keeps nothing that was not accepted.
LEMMA MergedAnalogsAre ==
  ASSUME NEW list, NEW places, places \subseteq Nat, IsFiniteSet(places)
  PROVE  IsSeq(Finder!MergeAnalogs(list, places)) /\ Taken(Finder!MergeAnalogs(list, places), list, places)
<1>. DEFINE alike(i) == {j \in places : list[j].name = list[i].name}
            numbered(i) == {j \in alike(i) : list[j].cas # None}
            firsts == {i \in places : i = Min(alike(i))}
            first(k) == CHOOSE i \in firsts : Cardinality({j \in firsts : j <= i}) = k
            at(i) == IF numbered(i) = {} THEN i ELSE Min(numbered(i))
            m == Min({Cardinality(firsts), MaxAnalogs})
            rank == Rank(firsts)
            q == Finder!MergeAnalogs(list, places)
<1>1. q = [k \in 1 .. m |-> list[at(first(k))]]
  BY DEF Finder!MergeAnalogs, Finder!Min, Min, Finder!Cardinality, Cardinality
<1>2. ASSUME NEW i \in places PROVE at(i) \in places
  <2>1. numbered(i) \in SUBSET places
    OBVIOUS
  <2>. DEFINE S == numbered(i)
  <2>2. IsFiniteSet(S) /\ S \subseteq Nat
    BY <2>1, FS_Subset
  <2>3. at(i) = IF S = {} THEN i ELSE Min(S)
    OBVIOUS
  <2>4. S \subseteq places
    BY <2>1
  <2>. HIDE DEF S, at
  <2>. QED  BY <2>2, <2>3, <2>4, MinIs
<1>3. firsts \subseteq places
  OBVIOUS
<1>4. IsFiniteSet(firsts) /\ firsts \subseteq Nat
  <2>. HIDE DEF firsts
  <2>1. IsFiniteSet(firsts)
    BY <1>3, FS_Subset
  <2>. QED  BY <1>3, <2>1
<1>. HIDE DEF firsts, at
<1>5. /\ Cardinality(firsts) \in Nat
      /\ \A i \in 1 .. Cardinality(firsts) : \E x \in firsts : rank[x] = i
  BY <1>4, Ranked
<1>6. m \in Nat /\ m <= Cardinality(firsts)
  <2>1. \A x, y \in Nat : Min({x, y}) \in {x, y} /\ Min({x, y}) <= x
    BY DEF Min
  <2>2. MaxAnalogs \in Nat
    BY IntakeAssumption
  <2>. QED  BY <1>5, <2>1, <2>2
<1>7. ASSUME NEW k \in 1 .. m PROVE first(k) \in firsts
  <2>1. k \in 1 .. Cardinality(firsts)
    BY <1>5, <1>6
  <2>2. PICK x \in firsts : rank[x] = k
    BY <1>5, <2>1
  <2>3. Cardinality({j \in firsts : j <= x}) = k
    BY <2>2 DEF Rank
  <2>. QED  BY <2>3
<1>. HIDE DEF m, first, q
<1>8. \A k \in 1 .. m : at(first(k)) \in places
  BY <1>2, <1>3, <1>7
<1>9. IsSeq(q)
  BY <1>1, <1>6, ListIsSeq
<1>10. DOMAIN q = 1 .. m /\ \A k \in 1 .. m : q[k] = list[at(first(k))]
  BY <1>1
<1>11. Taken(q, list, places)
  BY <1>8, <1>10 DEF Taken
<1>. QED  BY <1>9, <1>11 DEF q

\* Every candidate that suggest_analogs offers for a position is another substance.
LEMMA SuggestionIs ==
  ASSUME NEW w \in Suggestions, NEW position, NEW q,
         q = Finder!SuggestAnalogs(position.name, position.cas, w).candidates
  PROVE  IsSeq(q) /\ \A i \in DOMAIN q : Another(q[i].name, q[i].cas, position)
<1>. DEFINE name == position.name
            cas == position.cas
            pages == Finder!CollectPages(name, w)
            read == [i \in DOMAIN w.model |->
                       [name |-> w.model[i].name, cas |-> Finder!NumberBorneOut(w.model[i], pages)]]
            accepted == {i \in DOMAIN read : Finder!Acceptable(w.model[i], name, cas, read[i].cas)}
<1>1. q = <<>> \/ q = Finder!MergeAnalogs(read, accepted)
  BY DEF Finder!SuggestAnalogs
<1>2. Len(w.model) \in Nat /\ DOMAIN w.model = 1 .. Len(w.model)
  BY IntakeAssumption
<1>. HIDE DEF pages
<1>3. \A i \in accepted : /\ i \in 1 .. Len(w.model)
                          /\ read[i].name = w.model[i].name
                          /\ ~Finder!SameSubstance(read[i].name, name)
                          /\ read[i].cas = None \/ read[i].cas # cas
  BY <1>2 DEF Finder!Acceptable
<1>. HIDE DEF read, accepted
<1>4. \A i \in accepted : Another(read[i].name, read[i].cas, position)
  BY <1>3 DEF Another, Finder!SameSubstance
<1>5. IsFiniteSet(accepted) /\ accepted \subseteq Nat
  <2>1. accepted \subseteq 1 .. Len(w.model)
    BY <1>3
  <2>2. IsFiniteSet(1 .. Len(w.model))
    BY <1>2, FS_Interval
  <2>3. IsFiniteSet(accepted)
    BY <2>1, <2>2, FS_Subset
  <2>. QED  BY <1>2, <2>1, <2>3
<1>6. CASE q = <<>>
  BY <1>6 DEF IsSeq
<1>7. CASE q = Finder!MergeAnalogs(read, accepted)
  <2>1. IsSeq(q) /\ Taken(q, read, accepted)
    BY <1>5, <1>7, MergedAnalogsAre
  <2>. QED  BY <1>4, <2>1 DEF Taken
<1>. QED  BY <1>1, <1>6, <1>7

-----------------------------------------------------------------------------
(* The steps that write no table but that of the candidates. *)

\* A handler that is not on its way to a batch seeks nothing.
Elsewhere(at) == at \notin {"suggest", "store", "lookup", "insert", "rows"}

\* A handler that has nothing of substitutes holds nothing that matters.
LEMMA ElsewhereSeeks ==
  ASSUME NEW t, NEW lots, NEW j, Elsewhere(j.at) PROVE Seeking(t, lots, j)
BY DEF Elsewhere, Seeking

\* One handler moves on and no table is written.
LEMMA JobSeeks ==
  ASSUME IntakeInv, IntakeInv', Sought, NEW s \in Sessions, NEW j, jobs' = [jobs EXCEPT ![s] = j],
         UNCHANGED <<rfqs, batches, analogs>>, Seeking(rfqs, batches, j),
         desk'.rfq = desk.rfq
  PROVE  Sought'
<1>1. \A t \in Sessions : jobs'[t] = jobs[t] \/ Seeking(rfqs, batches', jobs'[t])
  BY KeptOf
<1>2. Steady(rfqs, rfqs')
  BY DEF Steady
<1>3. /\ IsFiniteSet(DOMAIN analogs') /\ DOMAIN analogs' \subseteq Nat
      /\ \A a \in DOMAIN analogs' : Suggested(rfqs, analogs'[a])
  BY DEF Sought
<1>. QED  BY <1>1, <1>2, <1>3, SoughtStays

\* A step after which every handler is where it was.
LEMMA NoJobSeeks ==
  ASSUME IntakeInv, IntakeInv', Sought, UNCHANGED <<rfqs, batches, analogs, jobs>>,
         desk'.rfq = desk.rfq \/ (desk'.rfq # None => Stands(rfqs, desk'.rfq))
  PROVE  Sought'
<1>1. Steady(rfqs, rfqs')
  BY DEF Steady
<1>2. /\ IsFiniteSet(DOMAIN analogs') /\ DOMAIN analogs' \subseteq Nat
      /\ \A a \in DOMAIN analogs' : Suggested(rfqs, analogs'[a])
  BY DEF Sought
<1>. QED  BY <1>1, <1>2, SoughtStays

\* A handler that goes elsewhere.
LEMMA AtSeeks ==
  ASSUME IntakeInv, IntakeInv', Sought, NEW s \in Sessions, NEW at, Elsewhere(at),
         jobs' = [jobs EXCEPT ![s].at = at], UNCHANGED <<rfqs, batches, analogs>>, desk'.rfq = desk.rfq
  PROVE  Sought'
<1>. DEFINE j == [jobs[s] EXCEPT !.at = at]
<1>1. jobs' = [jobs EXCEPT ![s] = j] /\ j.at = at
  BY KeptOf
<1>. HIDE DEF j
<1>. QED  BY <1>1, ElsewhereSeeks, JobSeeks

\* A list that is submitted with a key of its own kind offers no substitutes.
LEMMA SubmitsSeeks ==
  ASSUME IntakeInv, IntakeInv', Sought, NEW s \in Sessions, NEW n, NEW items, NEW defaults, NEW for,
         Submits(s, <<"list", n>>, items, defaults, for), UNCHANGED <<rfqs, batches, analogs, desk>>
  PROVE  Sought'
<1>. DEFINE j == [at |-> "lookup", key |-> <<"list", n>>, items |-> items, defaults |-> defaults, for |-> for,
                  results |-> <<>>, batch |-> None, created |-> TRUE]
<1>1. jobs' = [jobs EXCEPT ![s] = j]
  BY DEF Submits
<1>2. j.at = "lookup" /\ j.key[1] # "analog" /\ "defaults" \in DOMAIN j
  OBVIOUS
<1>. HIDE DEF j
<1>3. Seeking(rfqs, batches, j)
  BY <1>2 DEF Seeking, RowsOffered, Offered
<1>. QED  BY <1>1, <1>3, JobSeeks

-----------------------------------------------------------------------------
(* The steps of a handler. *)

LEMMA FindsBatchSeeks ==
  ASSUME IntakeInv, IntakeInv', Sought, NEW s \in Sessions, FindsBatch(s), UNCHANGED <<analogs, desk>>
  PROVE  Sought'
<1>. DEFINE found == BatchesOf(s, jobs[s].key)
            b == CHOOSE b \in found : TRUE
            j == IF found = {} THEN [jobs[s] EXCEPT !.at = "insert"]
                 ELSE [jobs[s] EXCEPT !.at = "created", !.batch = b, !.created = FALSE,
                                      !.results = ExistingResults(b)]
<1>1. jobs' = [jobs EXCEPT ![s] = j] /\ jobs[s].at = "lookup" /\ UNCHANGED <<rfqs, batches>>
  BY DEF FindsBatch
<1>2. {"at", "key", "items"} \subseteq DOMAIN jobs[s] /\ Seeking(rfqs, batches, jobs[s])
  BY <1>1, KeptOf DEF JobKept, Sought
<1>3. Seeking(rfqs, batches, j)
  <2>1. CASE found = {}
    <3>1. /\ j.at = "insert" /\ j.key = jobs[s].key /\ j.items = jobs[s].items
          /\ "defaults" \in DOMAIN j /\ j.defaults = jobs[s].defaults
      BY <1>1, <1>2, <2>1 DEF Seeking
    <3>. HIDE DEF j
    <3>. QED  BY <1>1, <1>2, <3>1 DEF Seeking
  <2>2. CASE found # {}
    <3>1. j.at = "created"
      BY <1>2, <2>2
    <3>. HIDE DEF j
    <3>. QED  BY <3>1, ElsewhereSeeks DEF Elsewhere
  <2>. QED  BY <2>1, <2>2
<1>. HIDE DEF j
<1>. QED  BY <1>1, <1>3, JobSeeks

LEMMA InsertsBatchSeeks ==
  ASSUME IntakeInv, IntakeInv', Sought, NEW s \in Sessions, InsertsBatch(s), UNCHANGED <<analogs, desk>>
  PROVE  Sought'
<1>1. CASE KeyTaken(jobs[s].key)
  <2>1. jobs' = [jobs EXCEPT ![s].at = "failed"] /\ UNCHANGED <<rfqs, batches>>
    BY <1>1 DEF InsertsBatch
  <2>. QED  BY <2>1, AtSeeks DEF Elsewhere
<1>2. CASE ~KeyTaken(jobs[s].key)
  <2>. DEFINE id == NewId(batches)
              row == [key |-> jobs[s].key, by |-> s]
              j == [jobs[s] EXCEPT !.at = "rows", !.batch = id]
  <2>1. /\ batches' = Put(batches, id, row) /\ UNCHANGED rfqs /\ jobs[s].at = "insert"
        /\ jobs' = [jobs EXCEPT ![s] = j]
    BY <1>2 DEF InsertsBatch
  <2>2. {"at", "key", "items", "batch"} \subseteq DOMAIN jobs[s] /\ Seeking(rfqs, batches, jobs[s])
    BY <2>1, KeptOf DEF JobKept, Sought
  <2>3. id \notin DOMAIN batches
    BY NewIdIs DEF IntakeInv, Shaped, Table
  <2>. HIDE DEF id
  <2>4. /\ j.at = "rows" /\ j.key = jobs[s].key /\ j.items = jobs[s].items /\ j.batch = id
        /\ "defaults" \in DOMAIN j /\ j.defaults = jobs[s].defaults
    BY <2>1, <2>2 DEF Seeking
  <2>5. batches'[id].key = jobs[s].key
    BY <2>1 DEF Put
  <2>6. \A b \in DOMAIN batches : batches'[b] = batches[b]
    BY <2>1, <2>3 DEF Put
  <2>. HIDE DEF j
  <2>7. Seeking(rfqs, batches', j)
    BY <2>1, <2>2, <2>4, <2>5 DEF Seeking
  <2>8. \A t \in Sessions : jobs'[t] = jobs[t] \/ Seeking(rfqs, batches', jobs'[t])
    BY <2>1, <2>7, KeptOf
  <2>9. Steady(rfqs, rfqs')
    BY <2>1 DEF Steady
  <2>10. /\ IsFiniteSet(DOMAIN analogs') /\ DOMAIN analogs' \subseteq Nat
         /\ \A a \in DOMAIN analogs' : Suggested(rfqs, analogs'[a])
    BY DEF Sought
  <2>. QED  BY <2>1, <2>6, <2>8, <2>9, <2>10, SoughtStays
<1>. QED  BY <1>1, <1>2

\* A handler that has answered for a row is at its batch as before.
LEMMA AnswersSeek ==
  ASSUME IntakeInv, Sought, NEW s \in Sessions, jobs[s].at = "rows", NEW rfq, NEW why, Answers(s, rfq, why),
         UNCHANGED batches
  PROVE  \A t \in Sessions : jobs'[t] = jobs[t] \/ Seeking(rfqs, batches', jobs'[t])
<1>. DEFINE j == [jobs[s] EXCEPT !.results = Append(@, [row |-> Item(s).row, rfq |-> rfq, why |-> why])]
<1>1. jobs' = [jobs EXCEPT ![s] = j]
  BY DEF Answers
<1>2. Seeking(rfqs, batches, jobs[s])
  BY DEF Sought
<1>3. /\ j.at = "rows" /\ j.key = jobs[s].key /\ j.items = jobs[s].items /\ j.batch = jobs[s].batch
      /\ DOMAIN j = DOMAIN jobs[s] /\ j.defaults = jobs[s].defaults
  OBVIOUS
<1>. HIDE DEF j
<1>4. Seeking(rfqs, batches, j)
  BY <1>2, <1>3 DEF Seeking
<1>. QED  BY <1>1, <1>4, KeptOf

LEMMA RefusesRowSeeks ==
  ASSUME IntakeInv, IntakeInv', Sought, NEW s \in Sessions, RefusesRow(s) \/ BreaksDeadlock(s),
         UNCHANGED <<analogs, desk>>
  PROVE  Sought'
<1>1. /\ jobs[s].at = "rows" /\ UNCHANGED <<rfqs, batches>>
      /\ \E why : Answers(s, None, why)
  BY DEF RefusesRow, BreaksDeadlock, WaitsFor, HasItem
<1>2. \A t \in Sessions : jobs'[t] = jobs[t] \/ Seeking(rfqs, batches', jobs'[t])
  BY <1>1, AnswersSeek
<1>3. Steady(rfqs, rfqs')
  BY <1>1 DEF Steady
<1>4. /\ IsFiniteSet(DOMAIN analogs') /\ DOMAIN analogs' \subseteq Nat
      /\ \A a \in DOMAIN analogs' : Suggested(rfqs, analogs'[a])
  BY DEF Sought
<1>. QED  BY <1>1, <1>2, <1>3, <1>4, SoughtStays

\* What a request that is written says.
LEMMA RequestSays ==
  ASSUME IntakeInv, NEW w, NEW values, NEW batch, NEW proof, NEW countries,
         TablesAre(WithRequest(Tables, w, values, batch, proof, countries))
  PROVE  /\ Steady(rfqs, rfqs')
         /\ \A r \in DOMAIN rfqs' :
              \/ r \in DOMAIN rfqs /\ rfqs'[r] = rfqs[r]
              \/ /\ rfqs'[r].batch = batch /\ rfqs'[r].name = values["name"]
                 /\ rfqs'[r].cas = ValueOf(values, "cas")
<1>. DEFINE id == NewId(rfqs)
            row == Request(w, values, batch, CardFor(w, values), proof)
<1>1. rfqs' = Put(rfqs, id, row)
  BY DEF TablesAre, WithRequest, Tables
<1>2. row.batch = batch /\ row.name = values["name"] /\ row.cas = ValueOf(values, "cas")
  BY DEF Request
<1>3. id \notin DOMAIN rfqs
  BY NewIdIs DEF IntakeInv, Shaped, Table
<1>. HIDE DEF id, row
<1>4. DOMAIN rfqs' = DOMAIN rfqs \cup {id} /\ rfqs'[id] = row /\ \A r \in DOMAIN rfqs : rfqs'[r] = rfqs[r]
  BY <1>1, <1>3 DEF Put
<1>. QED  BY <1>2, <1>4 DEF Steady

LEMMA CreatesRowSeeks ==
  ASSUME IntakeInv, IntakeInv', Sought, NEW s \in Sessions, CreatesRow(s), UNCHANGED <<analogs, desk>>
  PROVE  Sought'
<1>. DEFINE values == Put(Values(s), "row", Item(s).row)
            batch == jobs[s].batch
<1>1. jobs[s].at = "rows" /\ HasItem(s) /\ UNCHANGED batches
      /\ \E rfq, why : Answers(s, rfq, why)
      /\ \/ TablesAre(Tables)
         \/ TablesAre(WithRequest(Tables, s, values, batch, None, CountriesOf(values)))
  BY DEF CreatesRow, HasItem, Savepoint
<1>2. \A t \in Sessions : jobs'[t] = jobs[t] \/ Seeking(rfqs, batches', jobs'[t])
  BY <1>1, AnswersSeek
<1>3. /\ IsFiniteSet(DOMAIN analogs') /\ DOMAIN analogs' \subseteq Nat
      /\ \A a \in DOMAIN analogs' : Suggested(rfqs, analogs'[a])
  BY DEF Sought
<1>4. CASE TablesAre(Tables)
  <2>1. UNCHANGED rfqs
    BY <1>4 DEF TablesAre, Tables
  <2>2. Steady(rfqs, rfqs')
    BY <2>1 DEF Steady
  <2>. QED  BY <1>1, <1>2, <1>3, <2>1, <2>2, SoughtStays
<1>5. CASE TablesAre(WithRequest(Tables, s, values, batch, None, CountriesOf(values)))
  <2>1. "name" \in DOMAIN Values(s)
    BY DEF CreatesRow, Valid
  <2>2. values["name"] = Values(s)["name"] /\ ValueOf(values, "cas") = ValueOf(Values(s), "cas")
    BY <2>1 DEF Put, ValueOf
  <2>. HIDE DEF values
  <2>3. /\ Steady(rfqs, rfqs')
        /\ \A r \in DOMAIN rfqs' :
             \/ r \in DOMAIN rfqs /\ rfqs'[r] = rfqs[r]
             \/ /\ rfqs'[r].batch = batch /\ rfqs'[r].name = values["name"]
                /\ rfqs'[r].cas = ValueOf(values, "cas")
    BY <1>5, RequestSays
  <2>4. Len(jobs[s].results) + 1 \in DOMAIN jobs[s].items
    <3>1. AtRows(s) /\ Numbered(jobs[s].items) /\ jobs[s].results \in Seq(Answer)
      BY <1>1, KeptOf DEF JobKept, AtRows
    <3>2. PICK n \in Nat, m \in Nat : n = Len(jobs[s].results) /\ m = Len(jobs[s].items)
      BY <3>1, LenProperties DEF Numbered
    <3>3. DOMAIN jobs[s].items = 1 .. m /\ n < m
      BY <1>1, <3>1, <3>2 DEF Numbered, HasItem
    <3>. QED  BY <3>2, <3>3
  <2>5. Seeking(rfqs, batches, jobs[s])
    BY DEF Sought
  <2>6. Offered(rfqs, jobs[s].key, Values(s)["name"], ValueOf(Values(s), "cas"))
    BY <1>1, <2>4, <2>5 DEF Seeking, RowsOffered, Values, Item
  <2>7. batches'[batch].key = jobs[s].key
    BY <1>1, <2>5 DEF Seeking
  <2>8. \A r \in DOMAIN rfqs' :
          \/ r \in DOMAIN rfqs /\ rfqs'[r] = rfqs[r]
          \/ Ordered(rfqs, batches', rfqs'[r])
    BY <2>2, <2>3, <2>6, <2>7 DEF Ordered
  <2>. QED  BY <1>1, <1>2, <1>3, <2>3, <2>8, SoughtStays
<1>. QED  BY <1>1, <1>4, <1>5

LEMMA CommitsBatchSeeks ==
  ASSUME IntakeInv, IntakeInv', Sought, NEW s \in Sessions, CommitsBatch(s), UNCHANGED <<analogs, desk>>
  PROVE  Sought'
<1>1. ASSUME NEW r \in DOMAIN rfqs
      PROVE  /\ rfqs'[r].name = rfqs[r].name /\ rfqs'[r].cas = rfqs[r].cas /\ rfqs'[r].batch = rfqs[r].batch
             /\ rfqs[r].by = Nobody => rfqs'[r].by = Nobody
  <2>1. rfqs'[r] = Keeps(s, rfqs[r]) /\ DOMAIN rfqs[r] = RequestFields
    BY DEF CommitsBatch, IntakeInv, Shaped, Table
  <2>2. "by" \in RequestFields /\ {"name", "cas", "batch"} \subseteq RequestFields \ {"by"}
    BY DEF RequestFields
  <2>3. /\ rfqs'[r].by = IF rfqs[r].by = s THEN Nobody ELSE rfqs[r].by
        /\ \A f \in RequestFields \ {"by"} : rfqs'[r][f] = rfqs[r][f]
    BY <2>1, <2>2, KeepsIs
  <2>. QED  BY <2>2, <2>3
<1>2. DOMAIN rfqs' = DOMAIN rfqs /\ \A b \in DOMAIN batches : batches'[b].key = batches[b].key
  BY CommitIs
<1>3. Steady(rfqs, rfqs')
  BY <1>1, <1>2 DEF Steady
<1>4. \A t \in Sessions : jobs'[t] = jobs[t] \/ Seeking(rfqs, batches', jobs'[t])
  <2>1. jobs' = [jobs EXCEPT ![s].at = "created"]
    BY DEF CommitsBatch
  <2>2. jobs'[s].at = "created" /\ \A t \in Sessions \ {s} : jobs'[t] = jobs[t]
    BY <2>1, KeptOf
  <2>. QED  BY <2>2, ElsewhereSeeks DEF Elsewhere
<1>5. /\ IsFiniteSet(DOMAIN analogs') /\ DOMAIN analogs' \subseteq Nat
      /\ \A a \in DOMAIN analogs' : Suggested(rfqs, analogs'[a])
  BY DEF Sought
<1>. QED  BY <1>1, <1>2, <1>3, <1>4, <1>5, SoughtStays

LEMMA CrashSeeks ==
  ASSUME IntakeInv, IntakeInv', Sought, NEW s \in Sessions, Crashes(s), UNCHANGED <<analogs, desk>>
  PROVE  Sought'
<1>0. Nobody # s
  BY IntakeAssumption
<1>1. /\ \A r : r \in DOMAIN rfqs' <=> r \in DOMAIN rfqs /\ rfqs[r].by # s
      /\ \A r \in DOMAIN rfqs' : rfqs'[r] = rfqs[r]
      /\ \A b \in DOMAIN batches' : batches'[b] = batches[b]
  BY DEF Crashes, RollsBack, Without
<1>2. Steady(rfqs, rfqs')
  BY <1>0, <1>1 DEF Steady
<1>3. \A t \in Sessions : jobs'[t] = jobs[t] \/ Seeking(rfqs, batches', jobs'[t])
  <2>1. jobs' = [jobs EXCEPT ![s].at = "failed"]
    BY DEF Crashes
  <2>2. jobs'[s].at = "failed" /\ \A t \in Sessions \ {s} : jobs'[t] = jobs[t]
    BY <2>1, KeptOf
  <2>. QED  BY <2>2, ElsewhereSeeks DEF Elsewhere
<1>4. /\ IsFiniteSet(DOMAIN analogs') /\ DOMAIN analogs' \subseteq Nat
      /\ \A a \in DOMAIN analogs' : Suggested(rfqs, analogs'[a])
  BY DEF Sought
<1>. QED  BY <1>1, <1>2, <1>3, <1>4, SoughtStays

LEMMA InsertsRequestSeeks ==
  ASSUME IntakeInv, IntakeInv', Sought, NEW s \in Sessions, InsertsRequest(s), UNCHANGED <<analogs, desk>>
  PROVE  Sought'
<1>1. PICK proof : TablesAre(WithRequest(Tables, Nobody, jobs[s].values, None, proof, {}))
  BY DEF InsertsRequest
<1>2. /\ Steady(rfqs, rfqs')
      /\ \A r \in DOMAIN rfqs' : (r \in DOMAIN rfqs /\ rfqs'[r] = rfqs[r]) \/ rfqs'[r].batch = None
  BY <1>1, RequestSays
<1>3. \A t \in Sessions : jobs'[t] = jobs[t] \/ Seeking(rfqs, batches', jobs'[t])
  <2>1. jobs' = [jobs EXCEPT ![s] = [at |-> "runs", rfq |-> NewId(rfqs), for |-> "form"]]
    BY DEF InsertsRequest
  <2>2. jobs'[s].at = "runs" /\ \A t \in Sessions \ {s} : jobs'[t] = jobs[t]
    BY <2>1, KeptOf
  <2>. QED  BY <2>2, ElsewhereSeeks DEF Elsewhere
<1>4. /\ IsFiniteSet(DOMAIN analogs') /\ DOMAIN analogs' \subseteq Nat
      /\ \A a \in DOMAIN analogs' : Suggested(rfqs, analogs'[a])
  BY DEF Sought
<1>5. UNCHANGED batches
  BY DEF InsertsRequest
<1>6. \A r \in DOMAIN rfqs' :
        \/ r \in DOMAIN rfqs /\ rfqs'[r] = rfqs[r]
        \/ Ordered(rfqs, batches', rfqs'[r])
  BY <1>2 DEF Ordered
<1>. QED  BY <1>2, <1>3, <1>4, <1>5, <1>6, SoughtStays

\* The number of a confirmed candidate is that of the request that is asked for.
LEMMA ChoiceOffers ==
  ASSUME NEW t, NEW a, Suggested(t, analogs[a])
  PROVE  LET values == MergedValues(ChildValues(a), Terms)
         IN  For(t, analogs[a].rfq, values["name"], ValueOf(values, "cas"))
<1>. DEFINE cas == analogs[a].cas
            values == MergedValues(ChildValues(a), Terms)
<1>. DEFINE child == ChildValues(a)
<1>1. /\ child["name"] = analogs[a].name /\ "name" \in DOMAIN child
      /\ "cas" \in DOMAIN child <=> cas # None
      /\ cas # None => child["cas"] = cas
  BY DEF ChildValues
<1>2. DOMAIN Terms = {"incoterms", "search_countries"}
  BY DEF Terms
<1>3. values = Over(child, Terms)
  BY DEF MergedValues
<1>. HIDE DEF child, values
<1>6. values["name"] = analogs[a].name
  BY <1>1, <1>3 DEF Over
<1>7. ValueOf(values, "cas") = cas
  <2>1. DOMAIN values = DOMAIN child \cup DOMAIN Terms
    BY <1>3 DEF Over
  <2>2. CASE cas = None
    <3>1. "cas" \notin DOMAIN values
      BY <1>1, <1>2, <2>1, <2>2
    <3>. QED  BY <2>2, <3>1 DEF ValueOf
  <2>3. CASE cas # None
    <3>1. "cas" \in DOMAIN child
      BY <1>1, <2>3
    <3>2. "cas" \in DOMAIN values /\ values["cas"] = cas
      BY <1>1, <1>3, <2>3, <3>1 DEF Over
    <3>. QED  BY <3>2 DEF ValueOf
  <2>. QED  BY <2>2, <2>3
<1>. QED  BY <1>6, <1>7 DEF values, child, Suggested

\* The requests asked for are for what was suggested.
LEMMA ReadsChoiceSeeks ==
  ASSUME IntakeInv, IntakeInv', Sought, NEW s \in Sessions, ReadsChoice(s), UNCHANGED desk
  PROVE  Sought'
<1>. DEFINE chosen == jobs[s].chosen
            rfq == jobs[s].rfq
            places == {i \in DOMAIN chosen : chosen[i] \in Pending(rfq)}
            pending == Picked(chosen, places)
            items == [i \in DOMAIN pending |-> [row |-> i, values |-> ChildValues(pending[i])]]
            key == <<"analog", rfq, ToSet(pending)>>
            j == IF pending = <<>> THEN [jobs[s] EXCEPT !.at = "answered"]
                 ELSE [at |-> "lookup", key |-> key, defaults |-> Terms, for |-> "analog",
                       items |-> items, results |-> <<>>, batch |-> None, created |-> TRUE,
                       rfq |-> rfq, pending |-> pending]
<1>1. jobs' = [jobs EXCEPT ![s] = j] /\ jobs[s].at = "choice" /\ UNCHANGED <<rfqs, batches, analogs>>
  BY DEF ReadsChoice
<1>2. IsSeq(chosen) /\ "at" \in DOMAIN jobs[s]
  BY <1>1, KeptOf DEF JobKept
<1>3. places \subseteq Nat /\ IsFiniteSet(places)
  <2>1. Len(chosen) \in Nat /\ DOMAIN chosen = 1 .. Len(chosen)
    BY <1>2, LenProperties DEF IsSeq
  <2>2. IsFiniteSet(1 .. Len(chosen)) /\ places \in SUBSET (1 .. Len(chosen))
    BY <2>1, FS_Interval
  <2>. QED  BY <2>2, FS_Subset
<1>. DEFINE of == places
<1>4. \A i \in of : chosen[i] \in DOMAIN analogs /\ analogs[chosen[i]].rfq = rfq
  BY DEF Pending, Listed, Live
<1>. HIDE DEF of
<1>5. Picks(pending, chosen, of)
  BY <1>3, PickedIs DEF of
<1>. HIDE DEF pending
<1>6. \A i \in DOMAIN pending : pending[i] \in DOMAIN analogs /\ analogs[pending[i]].rfq = rfq
  BY <1>4, <1>5 DEF Picks
<1>7. RowsOffered(rfqs, key, items, Terms)
  <2>. SUFFICES ASSUME NEW i \in DOMAIN items
                PROVE  LET values == MergedValues(items[i].values, Terms)
                       IN  Offered(rfqs, key, values["name"], ValueOf(values, "cas"))
    BY DEF RowsOffered
  <2>. DEFINE a == pending[i]
  <2>1. items[i].values = ChildValues(a) /\ a \in DOMAIN analogs /\ analogs[a].rfq = rfq
    BY <1>6
  <2>2. Suggested(rfqs, analogs[a])
    BY <2>1 DEF Sought
  <2>3. key[2] = rfq
    OBVIOUS
  <2>. HIDE DEF a, key, items
  <2>4. LET values == MergedValues(ChildValues(a), Terms)
        IN  For(rfqs, analogs[a].rfq, values["name"], ValueOf(values, "cas"))
    BY <2>2, ChoiceOffers
  <2>. QED  BY <2>1, <2>3, <2>4 DEF Offered
<1>8. Seeking(rfqs, batches, j)
  <2>1. CASE pending = <<>>
    <3>1. j.at = "answered"
      BY <1>2, <2>1
    <3>. HIDE DEF j
    <3>. QED  BY <3>1, ElsewhereSeeks DEF Elsewhere
  <2>2. CASE pending # <<>>
    <3>1. /\ j.at = "lookup" /\ j.key = key /\ j.items = items /\ j.defaults = Terms /\ "defaults" \in DOMAIN j
      BY <2>2
    <3>. HIDE DEF j, key, items
    <3>. QED  BY <1>7, <3>1 DEF Seeking
  <2>. QED  BY <2>1, <2>2
<1>. HIDE DEF j
<1>. QED  BY <1>1, <1>8, JobSeeks

\* What is suggested is another substance than the position.
LEMMA FindsAnalogsSeeks ==
  ASSUME IntakeInv, IntakeInv', Sought, NEW s \in Sessions, FindsAnalogs(s), UNCHANGED desk
  PROVE  Sought'
<1>. DEFINE p == jobs[s].rfq
<1>1. jobs[s].at = "suggest" /\ UNCHANGED <<rfqs, batches, analogs>>
  BY DEF FindsAnalogs
<1>a. PICK w \in Suggestions : \E old :
        jobs' = [jobs EXCEPT ![s] =
                   [at |-> "store", rfq |-> p, for |-> "analog", old |-> old,
                    found |-> Finder!SuggestAnalogs(rfqs[p].name, rfqs[p].cas, w).candidates]]
  BY DEF FindsAnalogs
<1>2. PICK old :
        jobs' = [jobs EXCEPT ![s] =
                   [at |-> "store", rfq |-> p, for |-> "analog", old |-> old,
                    found |-> Finder!SuggestAnalogs(rfqs[p].name, rfqs[p].cas, w).candidates]]
  BY <1>a
<1>. DEFINE q == Finder!SuggestAnalogs(rfqs[p].name, rfqs[p].cas, w).candidates
            j == [at |-> "store", rfq |-> p, for |-> "analog", old |-> old, found |-> q]
<1>3. Stands(rfqs, p)
  BY <1>1 DEF Sought, Seeking
<1>4. IsSeq(q) /\ \A i \in DOMAIN q : Another(q[i].name, q[i].cas, rfqs[p])
  BY SuggestionIs
<1>5. jobs' = [jobs EXCEPT ![s] = j]
  BY <1>2
<1>6. j.at = "store" /\ j.rfq = p /\ j.found = q
  OBVIOUS
<1>. HIDE DEF j, q, p
<1>7. Seeking(rfqs, batches, j)
  BY <1>3, <1>4, <1>6 DEF Seeking, For
<1>. QED  BY <1>1, <1>5, <1>7, JobSeeks

\* The id of the next candidate is above those there are.
LEMMA NewAnalogIs ==
  ASSUME IsFiniteSet(DOMAIN analogs), DOMAIN analogs \subseteq Nat
  PROVE  NewAnalog \in Nat
<1>1. CASE DOMAIN analogs = {}
  BY <1>1 DEF NewAnalog
<1>2. CASE DOMAIN analogs # {}
  <2>1. Max(DOMAIN analogs) \in DOMAIN analogs
    BY <1>2, MaxIs
  <2>. QED  BY <1>2, <2>1 DEF NewAnalog
<1>. QED  BY <1>1, <1>2

\* The list that is stored is of what was suggested, and what it was before.
LEMMA StoresAnalogsSeeks ==
  ASSUME IntakeInv, IntakeInv', Sought, NEW s \in Sessions, StoresAnalogs(s), UNCHANGED desk
  PROVE  Sought'
<1>. DEFINE p == jobs[s].rfq
            known == {analogs[a].name : a \in Listed(p) \ jobs[s].old}
            found == jobs[s].found
            places == {i \in DOMAIN found : found[i].name \notin known}
            fresh == Picked(found, places)
            first == NewAnalog
            kept == [a \in DOMAIN analogs |->
                       IF a \in jobs[s].old THEN [analogs[a] EXCEPT !.deleted = TRUE] ELSE analogs[a]]
            added == [a \in first..(first + Len(fresh) - 1) |->
                        [rfq |-> p, name |-> fresh[a - first + 1].name,
                         cas |-> fresh[a - first + 1].cas, created |-> None, deleted |-> FALSE]]
<1>1. /\ jobs[s].at = "store" /\ UNCHANGED <<rfqs, batches>>
      /\ jobs' = [jobs EXCEPT ![s].at = "answered"]
      /\ analogs' = Over(kept, added)
  BY Zenon DEF StoresAnalogs
<1>2. /\ IsSeq(found) /\ \A i \in DOMAIN found : For(rfqs, p, found[i].name, found[i].cas)
  BY <1>1, Zenon DEF Sought, Seeking
<1>3. IsFiniteSet(DOMAIN analogs) /\ DOMAIN analogs \subseteq Nat /\ first \in Nat
  BY NewAnalogIs DEF Sought
<1>4. places \subseteq Nat /\ IsFiniteSet(places) /\ places \subseteq DOMAIN found
  <2>1. IsFiniteSet(DOMAIN found) /\ DOMAIN found \subseteq Nat
    BY <1>2, SeqIs
  <2>2. places \in SUBSET DOMAIN found
    OBVIOUS
  <2>. HIDE DEF places
  <2>3. IsFiniteSet(places)
    BY <2>1, <2>2, FS_Subset
  <2>. QED  BY <2>1, <2>2, <2>3
<1>. HIDE DEF places, first
<1>5. Picks(fresh, found, places) /\ IsSeq(fresh)
  BY <1>4, PickedIs, PickedIsSeq
<1>. HIDE DEF fresh
<1>6. /\ Len(fresh) \in Nat /\ DOMAIN fresh = 1 .. Len(fresh)
      /\ \A i \in DOMAIN fresh : For(rfqs, p, fresh[i].name, fresh[i].cas)
  <2>1. Len(fresh) \in Nat /\ DOMAIN fresh = 1 .. Len(fresh)
    BY <1>5, SeqIs
  <2>. QED  BY <1>2, <1>4, <1>5, <2>1 DEF Picks
<1>7. \A a \in DOMAIN added : Suggested(rfqs, added[a])
  <2>. SUFFICES ASSUME NEW a \in DOMAIN added PROVE Suggested(rfqs, added[a])
    OBVIOUS
  <2>1. a - first + 1 \in 1 .. Len(fresh)
    BY <1>3, <1>6
  <2>. QED  BY <1>6, <2>1 DEF Suggested
<1>8. \A a \in DOMAIN kept : Suggested(rfqs, kept[a])
  <2>. SUFFICES ASSUME NEW a \in DOMAIN analogs PROVE Suggested(rfqs, kept[a])
    OBVIOUS
  <2>1. kept[a].rfq = analogs[a].rfq /\ kept[a].name = analogs[a].name /\ kept[a].cas = analogs[a].cas
    OBVIOUS
  <2>. QED  BY <2>1 DEF Sought, Suggested
<1>9. DOMAIN kept = DOMAIN analogs /\ DOMAIN added = first .. (first + Len(fresh) - 1)
  OBVIOUS
<1>10. IsFiniteSet(DOMAIN added) /\ DOMAIN added \subseteq Nat
  BY <1>3, <1>6, <1>9, FS_Interval
<1>. HIDE DEF kept, added
<1>11. /\ DOMAIN analogs' = DOMAIN kept \cup DOMAIN added
       /\ \A a \in DOMAIN analogs' : IF a \in DOMAIN kept THEN analogs'[a] = kept[a] ELSE analogs'[a] = added[a]
  BY <1>1 DEF Over
<1>12. /\ IsFiniteSet(DOMAIN analogs') /\ DOMAIN analogs' \subseteq Nat
       /\ \A a \in DOMAIN analogs' : Suggested(rfqs, analogs'[a])
  <2>1. IsFiniteSet(DOMAIN kept \cup DOMAIN added)
    BY <1>3, <1>9, <1>10, FS_Union
  <2>. QED  BY <1>3, <1>7, <1>8, <1>9, <1>10, <1>11, <2>1
<1>13. \A t \in Sessions : jobs'[t] = jobs[t] \/ Seeking(rfqs, batches', jobs'[t])
  <2>1. jobs'[s].at = "answered" /\ \A t \in Sessions \ {s} : jobs'[t] = jobs[t]
    BY <1>1, KeptOf
  <2>. QED  BY <2>1, ElsewhereSeeks DEF Elsewhere
<1>14. Steady(rfqs, rfqs')
  BY <1>1 DEF Steady
<1>. QED  BY <1>1, <1>12, <1>13, <1>14, SoughtStays

\* A link changes no name and no number.
LEMMA LinksRequestsSeeks ==
  ASSUME IntakeInv, IntakeInv', Sought, NEW s \in Sessions, LinksRequests(s), UNCHANGED desk
  PROVE  Sought'
<1>1. UNCHANGED <<rfqs, batches>>
  BY DEF LinksRequests
<1>2. /\ DOMAIN analogs' = DOMAIN analogs
      /\ \A a \in DOMAIN analogs : analogs'[a] = analogs[a] \/ \E v : analogs'[a] = [analogs[a] EXCEPT !.created = v]
  BY DEF LinksRequests
<1>3. /\ IsFiniteSet(DOMAIN analogs') /\ DOMAIN analogs' \subseteq Nat
      /\ \A a \in DOMAIN analogs' : Suggested(rfqs, analogs'[a])
  <2>. SUFFICES ASSUME NEW a \in DOMAIN analogs PROVE Suggested(rfqs, analogs'[a])
    BY <1>2 DEF Sought
  <2>1. analogs'[a].rfq = analogs[a].rfq /\ analogs'[a].name = analogs[a].name /\ analogs'[a].cas = analogs[a].cas
    <3>1. CASE \E v : analogs'[a] = [analogs[a] EXCEPT !.created = v]
      <4>1. PICK v : analogs'[a] = [analogs[a] EXCEPT !.created = v]
        BY <3>1
      <4>. QED  BY <4>1
    <3>. QED  BY <1>2, <3>1
  <2>. QED  BY <2>1 DEF Sought, Suggested
<1>4. \A t \in Sessions : jobs'[t] = jobs[t] \/ Seeking(rfqs, batches', jobs'[t])
  <2>1. jobs' = [jobs EXCEPT ![s].at = "failed"] \/ jobs' = [jobs EXCEPT ![s].at = "answered"]
    BY DEF LinksRequests
  <2>2. jobs'[s].at \in {"failed", "answered"} /\ \A t \in Sessions \ {s} : jobs'[t] = jobs[t]
    BY <2>1, KeptOf
  <2>. QED  BY <2>2, ElsewhereSeeks DEF Elsewhere
<1>5. Steady(rfqs, rfqs')
  BY <1>1 DEF Steady
<1>. QED  BY <1>1, <1>3, <1>4, <1>5, SoughtStays

\* The steps of the server.
LEMMA ServerSeeks ==
  ASSUME IntakeInv, IntakeInv', Sought, NEW s \in Sessions, ServerStep(s)
  PROVE  Sought'
<1>1. UNCHANGED desk
  BY DEF ServerStep, windowVars
<1>2. CASE BatchStep(s) /\ UNCHANGED analogs
  BY <1>1, <1>2, FindsBatchSeeks, InsertsBatchSeeks, RefusesRowSeeks, CreatesRowSeeks, CommitsBatchSeeks
  DEF BatchStep
<1>3. CASE RequestStep(s) /\ UNCHANGED analogs
  <2>1. CASE InsertsRequest(s)
    BY <1>1, <1>3, <2>1, InsertsRequestSeeks
  <2>2. CASE QueuesSearches(s)
    <3>1. jobs' = [jobs EXCEPT ![s].at = "created"] /\ UNCHANGED <<rfqs, batches>>
      BY <2>2 DEF QueuesSearches
    <3>. QED  BY <1>1, <1>3, <3>1, AtSeeks DEF Elsewhere
  <2>. QED  BY <1>3, <2>1, <2>2 DEF RequestStep
<1>4. CASE DeskStep(s)
  BY <1>1, <1>4, FindsAnalogsSeeks, StoresAnalogsSeeks, ReadsChoiceSeeks, LinksRequestsSeeks DEF DeskStep
<1>. QED  BY <1>2, <1>3, <1>4 DEF ServerStep, Server

\* The steps of the windows.
LEMMA DeskSeeks ==
  ASSUME IntakeInv, IntakeInv', Sought, AnalogStep
  PROVE  Sought'
<1>1. DOMAIN desk = DeskFields
  BY DEF IntakeInv, BatchInv, Desked
<1>2. CASE Loads
  <2>1. UNCHANGED <<rfqs, batches, analogs, jobs>>
    BY <1>2 DEF Loads, batchVars
  <2>2. desk'.rfq \in Committed(rfqs)
    BY <1>1, <1>2 DEF Loads, DeskFields
  <2>. QED  BY <2>1, <2>2, NoJobSeeks DEF Stands, Committed
<1>3. CASE Toggles
  <2>1. UNCHANGED <<rfqs, batches, analogs, jobs>> /\ desk'.rfq = desk.rfq
    BY <1>1, <1>3 DEF Toggles, batchVars, DeskFields
  <2>. QED  BY <2>1, NoJobSeeks
<1>4. ASSUME NEW s \in Sessions, AsksSuggestion(s) PROVE Sought'
  <2>. DEFINE j == [at |-> "suggest", rfq |-> desk.rfq, for |-> "analog"]
  <2>1. /\ jobs' = [jobs EXCEPT ![s] = j] /\ UNCHANGED <<rfqs, batches, analogs>>
        /\ desk.rfq # None /\ desk'.rfq = desk.rfq
    BY <1>1, <1>4 DEF AsksSuggestion, DeskFields
  <2>2. Stands(rfqs, desk.rfq)
    BY <2>1 DEF Sought
  <2>3. j.at = "suggest" /\ j.rfq = desk.rfq
    OBVIOUS
  <2>. HIDE DEF j
  <2>4. Seeking(rfqs, batches, j)
    BY <2>2, <2>3 DEF Seeking
  <2>. QED  BY <2>1, <2>4, JobSeeks
<1>5. ASSUME NEW s \in Sessions, AsksRequests(s) PROVE Sought'
  <2>. DEFINE j == [at |-> "choice", rfq |-> desk.rfq, chosen |-> desk.chosen, for |-> "analog"]
  <2>1. jobs' = [jobs EXCEPT ![s] = j] /\ UNCHANGED <<rfqs, batches, analogs>> /\ desk'.rfq = desk.rfq
    BY <1>1, <1>5 DEF AsksRequests, DeskFields
  <2>2. j.at = "choice"
    OBVIOUS
  <2>. HIDE DEF j
  <2>. QED  BY <2>1, <2>2, ElsewhereSeeks, JobSeeks DEF Elsewhere
<1>6. ASSUME NEW s \in Sessions, AnswerArrives(s) PROVE Sought'
  <2>1. /\ jobs' = [jobs EXCEPT ![s].at = "done"] /\ UNCHANGED <<rfqs, batches, analogs>>
        /\ desk'.rfq = desk.rfq
    BY <1>1, <1>6 DEF AnswerArrives, DeskFields
  <2>. QED  BY <2>1, AtSeeks DEF Elsewhere
<1>7. ASSUME NEW s \in Sessions, AnswerLost(s) PROVE Sought'
  <2>1. UNCHANGED <<rfqs, batches, analogs, jobs>> /\ desk'.rfq = desk.rfq
    BY <1>1, <1>7 DEF AnswerLost, batchVars, DeskFields
  <2>. QED  BY <2>1, NoJobSeeks
<1>. QED  BY <1>2, <1>3, <1>4, <1>5, <1>6, <1>7 DEF AnalogStep, DeskNext

\* The window of lists submits nothing for a position.
LEMMA ScreenSeeks ==
  ASSUME IntakeInv, IntakeInv', Sought, ImportStep \/ OtherStep
  PROVE  Sought'
<1>1. UNCHANGED <<rfqs, batches, analogs, desk>>
  BY Zenon DEF ImportStep, OtherStep, deskVars, catalogVars, ScreenNext, Uploads, PreviewArrives, UploadFails,
         Excludes, EditsCell, LeavesCell, RowArrives, RowCheckFails, Presses, ResultArrives, ResultLost, batchVars
<1>2. CASE OtherStep
  <2>1. PICK s \in Sessions : Submits(s, <<"list", 0>>, OtherList, Defaults, "other")
    BY <1>2 DEF OtherStep
  <2>. QED  BY <1>1, <2>1, SubmitsSeeks
<1>3. CASE UNCHANGED jobs
  BY <1>1, <1>3, NoJobSeeks
<1>4. ASSUME NEW s \in Sessions, Presses(s) PROVE Sought'
  BY <1>1, <1>4, SubmitsSeeks DEF Presses
<1>5. ASSUME NEW s \in Sessions, ResultArrives(s) PROVE Sought'
  <2>1. jobs' = [jobs EXCEPT ![s].at = "done"]
    BY <1>5 DEF ResultArrives
  <2>. QED  BY <1>1, <2>1, AtSeeks DEF Elsewhere
<1>6. ASSUME ImportStep, ~UNCHANGED jobs PROVE \E s \in Sessions : Presses(s) \/ ResultArrives(s)
  BY <1>6, Zenon DEF ImportStep, ScreenNext, Uploads, PreviewArrives, UploadFails, Excludes, EditsCell, LeavesCell,
              RowArrives, RowCheckFails, ResultLost, batchVars
<1>. QED  BY <1>2, <1>3, <1>4, <1>5, <1>6

\* Nor does the form.
LEMMA FormSeeks ==
  ASSUME IntakeInv, IntakeInv', Sought, FormStep
  PROVE  Sought'
<1>1. UNCHANGED <<analogs, desk>>
  BY DEF FormStep, deskVars
<1>2. ASSUME NEW s \in FormSessions, Creates(s) PROVE Sought'
  <2>. DEFINE j == [at |-> "request", values |-> Payload, for |-> "form"]
  <2>1. jobs' = [jobs EXCEPT ![s] = j] /\ UNCHANGED <<rfqs, batches>> /\ j.at = "request"
    BY <1>2 DEF Creates
  <2>2. s \in Sessions
    BY IntakeAssumption
  <2>. HIDE DEF j
  <2>. QED  BY <1>1, <2>1, <2>2, ElsewhereSeeks, JobSeeks DEF Elsewhere
<1>3. ASSUME NEW s \in FormSessions, RequestOpens(s) PROVE Sought'
  <2>1. jobs' = [jobs EXCEPT ![s].at = "done"] /\ UNCHANGED <<rfqs, batches>>
    BY <1>3 DEF RequestOpens
  <2>2. s \in Sessions
    BY IntakeAssumption
  <2>. QED  BY <1>1, <2>1, <2>2, AtSeeks DEF Elsewhere
<1>4. ASSUME UNCHANGED batchVars PROVE Sought'
  BY <1>1, <1>4, NoJobSeeks DEF batchVars
<1>. QED  BY <1>2, <1>3, <1>4, Zenon
  DEF FormStep, FormNext, Touches, TypesName, TypesCas, MovesNumber, TogglesAnalog, Unlocks, ChangesSynonyms,
      TogglesExcluded, Checks, CheckArrives, CheckFails, Chooses, Undoes, Copies, CopyArrives, RequestLost

\* An expert changes the card of a request at most.
LEMMA ExpertSeeks ==
  ASSUME IntakeInv, IntakeInv', Sought, ExpertStep
  PROVE  Sought'
<1>1. UNCHANGED <<batches, jobs, analogs, desk>>
  BY DEF ExpertStep, deskVars
<1>2. CASE UNCHANGED rfqs
  BY <1>1, <1>2, NoJobSeeks
<1>3. CASE \E p, c : rfqs' = [rfqs EXCEPT ![p].substance = c]
  <2>1. PICK p, c : rfqs' = [rfqs EXCEPT ![p].substance = c]
    BY <1>3
  <2>2. DOMAIN rfqs' = DOMAIN rfqs
    BY <2>1
  <2>3. ASSUME NEW r \in DOMAIN rfqs
        PROVE  /\ rfqs'[r].name = rfqs[r].name /\ rfqs'[r].cas = rfqs[r].cas
               /\ rfqs'[r].batch = rfqs[r].batch /\ rfqs'[r].by = rfqs[r].by
    <3>1. DOMAIN rfqs[r] = RequestFields
      BY DEF IntakeInv, Shaped, Table
    <3>. QED  BY <2>1, <3>1 DEF RequestFields
  <2>4. Steady(rfqs, rfqs')
    BY <2>2, <2>3 DEF Steady
  <2>5. /\ IsFiniteSet(DOMAIN analogs') /\ DOMAIN analogs' \subseteq Nat
        /\ \A a \in DOMAIN analogs' : Suggested(rfqs, analogs'[a])
    BY <1>1 DEF Sought
  <2>. QED  BY <1>1, <2>2, <2>3, <2>4, <2>5, SoughtStays
<1>4. UNCHANGED rfqs \/ \E p, c : rfqs' = [rfqs EXCEPT ![p].substance = c]
  BY Zenon DEF ExpertStep, CatalogNext, StartsEntry, StartsDecision, StartsEdit, Saves
<1>. QED  BY <1>2, <1>3, <1>4

\* Past candidates were suggested for past positions.
LEMMA SoughtInit == Init => Sought
<1>. SUFFICES ASSUME Init PROVE Sought
  OBVIOUS
<1>1. rfqs = PastRequests[entry] /\ entry \in Entries /\ batches = <<>>
  BY DEF Init, BatchInit
<1>2. \A s \in Sessions : jobs[s] = Resting
  BY DEF Init, BatchInit
<1>3. \A s \in Sessions : Seeking(rfqs, batches, jobs[s])
  BY <1>2, ElsewhereSeeks DEF Elsewhere, Resting
<1>4. desk.rfq = None
  BY DEF Init, DeskInit
<1>5. \A r \in DOMAIN rfqs : Ordered(rfqs, batches, rfqs[r])
  BY <1>1, IntakeAssumption DEF Ordered
<1>6. CASE entry = "analogs"
  <2>1. analogs = PastAnalogs
    BY <1>6 DEF Init
  <2>2. "analogs" \in Entries
    BY DEF Entries
  <2>3. \A a \in DOMAIN analogs : Suggested(rfqs, analogs[a])
    BY <1>1, <1>6, <2>1, <2>2, IntakeAssumption DEF Suggested, For, Stands
  <2>4. IsFiniteSet(DOMAIN analogs) /\ DOMAIN analogs \subseteq Nat
    BY <2>1, IntakeAssumption
  <2>. QED  BY <1>3, <1>4, <1>5, <2>3, <2>4 DEF Sought
<1>7. CASE entry # "analogs"
  <2>1. DOMAIN analogs = {}
    BY <1>7 DEF Init
  <2>2. IsFiniteSet(DOMAIN analogs) /\ DOMAIN analogs \subseteq Nat
    BY <2>1, FS_EmptySet
  <2>. QED  BY <1>3, <1>4, <1>5, <2>1, <2>2 DEF Sought
<1>. QED  BY <1>6, <1>7

\* Every step keeps what is sought.
LEMMA SoughtKept ==
  ASSUME IntakeInv, IntakeInv', Sought, [Next]_vars
  PROVE  Sought'
<1>1. CASE UNCHANGED vars
  BY <1>1, NoJobSeeks DEF vars, catalogVars, deskVars
<1>2. ASSUME NEW s \in Sessions, CrashStep(s) PROVE Sought'
  BY <1>2, CrashSeeks DEF CrashStep, windowVars
<1>. QED  BY <1>1, <1>2, ServerSeeks, DeskSeeks, ScreenSeeks, FormSeeks, ExpertSeeks DEF Next

\* A request created for a substitute is for another substance than the position it
\* replaces: whatever list was chosen from, whatever was suggested, crashed or committed
\* meanwhile.  Concerns _accept, store_suggestion, confirm_analogs and create_rfq_batch.
THEOREM ReplacementIsOther == Spec => []ReplacementIsAnother
<1>1. Init => Sought
  BY SoughtInit
<1>2. Sought /\ IntakeInv /\ IntakeInv' /\ [Next]_vars => Sought'
  BY SoughtKept
<1>3. Sought => ReplacementIsAnother
  BY DEF Sought, Ordered, Offered, For, ReplacementIsAnother, ChildrenOf, Committed
<1>. QED  BY <1>1, <1>2, <1>3, IntakeKept, PTL DEF Spec

-----------------------------------------------------------------------------
(* The preview. *)

\* Countries in which suppliers may be sought.
Named(countries) == countries # {} /\ countries \subseteq SearchCountries

\* What a field puts is right where a request is strict: its number and its countries.
Clear(part) ==
  /\ "cas" \in DOMAIN part.put => part.put["cas"] \in Numbers
  /\ "search_countries" \in DOMAIN part.put => Named(part.put["search_countries"])

\* The parts a row is read in are clear: nothing, an error, a warning, or a value.
LEMMA PartsAre ==
  /\ Clear(Nothing) /\ \A f : Clear(Refuses(f)) /\ Clear(Warns(f))
  /\ \A f, v : f \notin {"cas", "search_countries"} => Clear(Puts(f, v))
  /\ \A v : v \in Numbers => Clear(Puts("cas", v))
  /\ \A v : Named(v) => Clear(Puts("search_countries", v))
BY DEF Clear, Nothing, Refuses, Warns, Puts

\* Two clear parts together are clear.
LEMMA TogetherIs ==
  ASSUME NEW a, NEW b, Clear(a), Clear(b) PROVE Clear(Together(a, b))
<1>1. Together(a, b).put = Over(a.put, b.put)
  BY DEF Together
<1>2. /\ DOMAIN Over(a.put, b.put) = DOMAIN a.put \cup DOMAIN b.put
      /\ \A f \in DOMAIN a.put \cup DOMAIN b.put :
           Over(a.put, b.put)[f] = IF f \in DOMAIN a.put THEN a.put[f] ELSE b.put[f]
  BY DEF Over
<1>. DEFINE put == Over(a.put, b.put)
<1>. HIDE DEF put
<1>3. \A f \in DOMAIN put : (f \in DOMAIN a.put /\ put[f] = a.put[f]) \/ (f \in DOMAIN b.put /\ put[f] = b.put[f])
  BY <1>2 DEF put
<1>4. /\ "cas" \in DOMAIN put => put["cas"] \in Numbers
      /\ "search_countries" \in DOMAIN put => Named(put["search_countries"])
  BY <1>3 DEF Clear
<1>. QED  BY <1>1, <1>4 DEF Clear, put

\* The fields of a row.
LEMMA FieldsAreClear ==
  /\ \A cell : Clear(ParseName(cell)) /\ Clear(ParseSynonyms(cell))
  /\ \A cell : NumberCell(cell) => Clear(ParseCas(cell))
  /\ \A volume, unit : Clear(ParseVolume(volume, unit))
  /\ \A purity, grade : Clear(ParsePurity(purity, grade))
  /\ \A price, currency : Clear(ParsePrice(price, currency))
  /\ \A cell, known : Clear(ParseList("incoterms", "incoterms", cell, known))
  /\ \A cell : Clear(ParseList("countries", "search_countries", cell, SearchCountries))
  /\ \A f, target, cell : target \notin {"cas", "search_countries"} => Clear(ParseNote(f, target, cell))
<1>1. \A cell : Clear(ParseName(cell)) /\ Clear(ParseSynonyms(cell))
  BY PartsAre DEF ParseName, ParseSynonyms
<1>2. \A cell : NumberCell(cell) => Clear(ParseCas(cell))
  BY PartsAre DEF ParseCas, NumberCell
<1>3. ASSUME NEW volume, NEW unit PROVE Clear(ParseVolume(volume, unit))
  <2>1. \A v : Clear(Puts("volume", v))
    BY PartsAre
  <2>2. \A v : Clear(Together(Puts("volume", v), Warns("unit")))
    BY <2>1, PartsAre, TogetherIs
  <2>. QED  BY <2>1, <2>2, PartsAre DEF ParseVolume
<1>4. ASSUME NEW purity, NEW grade PROVE Clear(ParsePurity(purity, grade))
  <2>1. \A v : Clear(Puts("purity", v))
    BY PartsAre
  <2>2. \A a, b : Clear(a) /\ Clear(b) => Clear(Together(a, b))
    BY TogetherIs
  <2>3. \E a, b : ParsePurity(purity, grade) = Together(a, b) /\ Clear(a) /\ Clear(b)
    BY <2>1, PartsAre DEF ParsePurity
  <2>. QED  BY <2>2, <2>3
<1>5. ASSUME NEW price, NEW currency PROVE Clear(ParsePrice(price, currency))
  <2>1. \A v : Clear(Puts("target_price", v)) /\ Clear(Puts("currency", v))
    BY PartsAre
  <2>2. \A a, b : Clear(a) /\ Clear(b) => Clear(Together(a, b))
    BY TogetherIs
  <2>3. \E a, b : ParsePrice(price, currency) = Together(a, b) /\ Clear(a) /\ Clear(b)
    BY <2>1, PartsAre DEF ParsePrice
  <2>. QED  BY <2>2, <2>3
<1>6. ASSUME NEW f, NEW target, NEW cell, NEW known,
             target \notin {"cas", "search_countries"}
             \/ (target = "search_countries" /\ known = SearchCountries)
      PROVE  Clear(ParseList(f, target, cell, known))
  <2>. DEFINE items == CASE cell = Blank -> <<>> [] IsText(cell) -> cell.value [] OTHER -> <<Unreadable>>
              kept == KnownItems(items, known)
              a == IF kept = {} THEN Nothing ELSE Puts(target, kept)
              b == IF ToSet(items) \subseteq known THEN Nothing ELSE Warns(f)
  <2>1. ParseList(f, target, cell, known) = Together(a, b)
    BY DEF ParseList
  <2>2. kept \subseteq known
    BY DEF KnownItems
  <2>. HIDE DEF items, kept
  <2>3. Clear(a)
    BY <1>6, <2>2, PartsAre DEF Named
  <2>4. Clear(b)
    BY PartsAre
  <2>. QED  BY <2>1, <2>3, <2>4, TogetherIs
<1>7. \A f, target, cell : target \notin {"cas", "search_countries"} => Clear(ParseNote(f, target, cell))
  BY PartsAre DEF ParseNote
<1>8. \A cell, known : Clear(ParseList("incoterms", "incoterms", cell, known))
  BY <1>6
<1>9. \A cell : Clear(ParseList("countries", "search_countries", cell, SearchCountries))
  BY <1>6
<1>. QED  BY <1>1, <1>2, <1>3, <1>4, <1>5, <1>7, <1>8, <1>9

\* A row that is importable is one a request can be created from.
LEMMA ImportableIsValid ==
  ASSUME NEW number, NEW raw, NumberCell(raw["cas"]), Importable(ParseRow(number, raw))
  PROVE  Valid(MergedValues(ParseRow(number, raw).values, Defaults))
<1>. DEFINE read ==
              { ParseName(raw["name"]),
                ParseCas(raw["cas"]),
                ParseVolume(raw["volume"], raw["unit"]),
                ParsePurity(raw["purity"], raw["grade"]),
                ParsePrice(raw["target_price"], raw["currency"]),
                ParseList("incoterms", "incoterms", raw["incoterms"], SupportedIncoterms),
                ParseList("countries", "search_countries", raw["countries"], SearchCountries),
                ParseSynonyms(raw["synonyms"]),
                ParseNote("specification", "specification", raw["specification"]),
                ParseNote("comment", "specialist_comment", raw["comment"]) }
            put == Issues(raw).put
            method == IF "cas" \in DOMAIN put THEN "cas" ELSE "spec"
            own == Over([identification_method |-> method], put)
            values == MergedValues(ParseRow(number, raw).values, Defaults)
<1>1. \A p \in read : Clear(p)
  BY FieldsAreClear
<1>2. put = [f \in UNION {DOMAIN p.put : p \in read} |-> (CHOOSE p \in read : f \in DOMAIN p.put).put[f]]
  BY DEF Issues
<1>3. ParseName(raw["name"]) \in read
  OBVIOUS
<1>4. ParseName(raw["name"]).errors = {}
  <2>1. Issues(raw).errors = {}
    BY DEF Importable, ParseRow
  <2>2. Issues(raw).errors = UNION {p.errors : p \in read}
    BY DEF Issues
  <2>. HIDE DEF read
  <2>. QED  BY <1>3, <2>1, <2>2
<1>5. "name" \in DOMAIN ParseName(raw["name"]).put
  BY <1>4 DEF ParseName, Refuses, Puts, Nothing
<1>6. ParseRow(number, raw).values = own
  BY DEF ParseRow
<1>. HIDE DEF read, put
<1>7. "name" \in DOMAIN put
  BY <1>2, <1>3, <1>5
<1>8. \A f \in DOMAIN put : \E p \in read : f \in DOMAIN p.put /\ put[f] = p.put[f]
  BY <1>2
<1>9. /\ "cas" \in DOMAIN put => put["cas"] \in Numbers
      /\ "search_countries" \in DOMAIN put => Named(put["search_countries"])
  BY <1>1, <1>8 DEF Clear
<1>10. /\ DOMAIN own = {"identification_method"} \cup DOMAIN put /\ own["identification_method"] = method
       /\ \A f \in DOMAIN put : f # "identification_method" => own[f] = put[f]
  BY DEF Over
<1>. HIDE DEF own, method
<1>11. values = Over(own, Defaults) /\ DOMAIN Defaults = {"incoterms"}
  BY <1>6 DEF MergedValues, Defaults
<1>12. /\ DOMAIN values = DOMAIN own \cup {"incoterms"}
       /\ \A f \in DOMAIN own : values[f] = own[f]
  BY <1>11 DEF Over
<1>. HIDE DEF values
<1>13. /\ "name" \in DOMAIN values /\ "incoterms" \in DOMAIN values
       /\ ValueOf(values, "identification_method") = method
  BY <1>7, <1>10, <1>12 DEF ValueOf
<1>14. method = "cas" => ValueOf(values, "cas") \in Numbers
  <2>. SUFFICES ASSUME method = "cas" PROVE ValueOf(values, "cas") \in Numbers
    OBVIOUS
  <2>1. "cas" \in DOMAIN put
    BY DEF method
  <2>. QED  BY <1>9, <1>10, <1>12, <2>1 DEF ValueOf
<1>15. CountriesOf(values) \subseteq SearchCountries /\ CountriesOf(values) # {}
  <2>1. "China" \in SearchCountries
    BY DEF SearchCountries
  <2>2. "search_countries" \in DOMAIN values =>
          "search_countries" \in DOMAIN put /\ values["search_countries"] = put["search_countries"]
    BY <1>10, <1>12
  <2>. QED  BY <1>9, <2>1, <2>2 DEF CountriesOf, Named
<1>16. Valid(values)
  BY <1>13, <1>14, <1>15 DEF Valid
<1>. QED  BY <1>16 DEF values

\* The number in the texts of a row.
Numeric(raw) == "cas" \in DOMAIN raw => NumberCell(raw["cas"])

\* A row without errors passes the check of the server, with the terms of its list.
Sound(row) ==
  /\ Numeric(row.raw)
  /\ row.errors = {} => Valid(MergedValues(row.values, Defaults))

\* What the window offers, or may be given by a check under way.
Windowed ==
  /\ \A i \in DOMAIN screen.rows : Sound(screen.rows[i])
  /\ \A c \in checking : Numeric(c.raw)

\* No answer refuses a row.
NoneRefused(results) == \A i \in DOMAIN results : results[i].why # "invalid"

\* A handler of a list that the window submitted.
Offering(j) ==
  \/ j = Resting
  \/ /\ {"at", "for"} \subseteq DOMAIN j /\ j.at # "resting"
     /\ j.for = "import" =>
          /\ {"items", "defaults", "results", "created"} \subseteq DOMAIN j
          /\ j.defaults = Defaults
          /\ \A i \in DOMAIN j.items : Valid(MergedValues(j.items[i].values, Defaults))
          /\ j.created => NoneRefused(j.results)

\* The inductive invariant: the window offers sound rows, and so does what it submitted.
Previewed == Windowed /\ \A s \in Sessions : Offering(jobs[s])

\* A row that is read is sound when its number is one.
LEMMA RowIsSound ==
  ASSUME NEW number, NEW raw, "cas" \in DOMAIN raw, NumberCell(raw["cas"]), NEW list
  PROVE  Sound(Clean(ParseRow(number, raw), list))
<1>. DEFINE row == ParseRow(number, raw)
            clean == Clean(row, list)
<1>1. row.raw = raw
  BY DEF ParseRow
<1>2. clean.raw = row.raw /\ clean.errors = row.errors /\ clean.values = row.values
  BY DEF Clean, WindowRow
<1>3. row.errors = {} => Valid(MergedValues(row.values, Defaults))
  BY ImportableIsValid DEF Importable
<1>. HIDE DEF row, clean
<1>4. Sound(clean)
  BY <1>1, <1>2, <1>3 DEF Sound, Numeric
<1>. QED  BY <1>4 DEF clean, row

\* So is a row that is checked again.
LEMMA RecheckIsSound ==
  ASSUME NEW number, NEW raw, Numeric(raw), NEW list
  PROVE  Sound(Clean(ParseImportRow(number, raw), list))
<1>. DEFINE cells == [f \in Fields |-> IF f \in DOMAIN raw THEN raw[f] ELSE Blank]
<1>1. "cas" \in DOMAIN cells /\ cells["cas"] = IF "cas" \in DOMAIN raw THEN raw["cas"] ELSE Blank
  BY DEF Fields
<1>2. NumberCell(Blank)
  BY DEF NumberCell, Blank, IsText
<1>3. ParseImportRow(number, raw) = ParseRow(number, cells)
  BY DEF ParseImportRow
<1>. HIDE DEF cells
<1>4. NumberCell(cells["cas"])
  BY <1>1, <1>2 DEF Numeric
<1>. QED  BY <1>1, <1>3, <1>4, RowIsSound

\* A preview offers sound rows.
LEMMA PreviewIsSound ==
  ASSUME NEW f \in DOMAIN Files, ParseImportFile(Files[f]).read, NEW list,
         NEW i \in DOMAIN ParseImportFile(Files[f]).rows
  PROVE  Sound(Clean(ParseImportFile(Files[f]).rows[i], list))
<1>. DEFINE file == Files[f]
            table == ReadTable(file)
            filled == {l \in DOMAIN table : ~IsEmpty(table[l])}
            header == Min(filled)
            columns == MatchColumns(table[header])
            body == {l \in filled : l > header /\ l <= header + MaxRows}
            q == InOrder(body)
            n == Cardinality(body)
            raw(k) == RowValues(table[q[k]], columns)
            rows == [k \in DOMAIN q |-> ParseRow(q[k], raw(k))]
            parsed == ParseImportFile(file).rows
<1>1. parsed = Flagged(rows) /\ filled # {}
  BY Zenon DEF ParseImportFile, Unread
<1>2. DOMAIN table = DOMAIN file.lines
  BY DEF ReadTable
<1>3. IsFiniteSet(DOMAIN file.lines) /\ DOMAIN file.lines \subseteq Nat
  BY IntakeAssumption
<1>4. filled \in SUBSET (DOMAIN file.lines) /\ body \in SUBSET (DOMAIN file.lines)
  BY <1>2
<1>h. \A l \in body : l \in filled /\ l > header
  OBVIOUS
<1>5. /\ IsFiniteSet(filled) /\ filled \subseteq Nat
      /\ IsFiniteSet(body) /\ body \subseteq Nat
  <2>. HIDE DEF filled, body
  <2>1. IsFiniteSet(filled) /\ IsFiniteSet(body)
    BY <1>3, <1>4, FS_Subset
  <2>. QED  BY <1>3, <1>4, <2>1
<1>6. header \in filled /\ \A l \in filled : header <= l
  <2>. HIDE DEF filled
  <2>. QED  BY <1>1, <1>5, MinIs
<1>7. \A l \in body : NumberCell(RowValues(table[l], columns)["cas"])
  <2>1. \A h \in filled : (\A l \in filled : h <= l) =>
           \A l \in filled : h < l => NumberCell(RowValues(table[l], MatchColumns(table[h]))["cas"])
    BY IntakeAssumption
  <2>. HIDE DEF table, filled, header, body
  <2>2. \A l \in body : header < l
    BY <1>5, <1>6, <1>h
  <2>. QED  BY <1>6, <1>h, <2>1, <2>2
<1>8. n \in Nat /\ q \in [1 .. n -> body]
  <2>. HIDE DEF body
  <2>. QED  BY <1>5, InOrderIs
<1>9. \A k \in DOMAIN q : NumberCell(raw(k)["cas"]) /\ "cas" \in DOMAIN raw(k)
  <2>1. \A line, cols : "cas" \in DOMAIN RowValues(line, cols)
    BY DEF RowValues, Fields
  <2>. HIDE DEF body, q, n, columns
  <2>. QED  BY <1>7, <1>8, <2>1
<1>10. DOMAIN rows = DOMAIN q /\ \A k \in DOMAIN q : rows[k] = ParseRow(q[k], raw(k))
  OBVIOUS
<1>11. ASSUME NEW k \in DOMAIN q, NEW warnings
       PROVE  Sound(Clean(rows[k], list)) /\ Sound(Clean([rows[k] EXCEPT !.warnings = warnings], list))
  <2>1. Sound(Clean(rows[k], list))
    <3>. HIDE DEF raw, q, rows
    <3>. QED  BY <1>9, <1>10, RowIsSound
  <2>2. DOMAIN rows[k] = {"row", "raw", "values", "errors", "warnings"}
    BY DEF ParseRow
  <2>. HIDE DEF rows
  <2>3. \A row : Sound(Clean(row, list)) <=>
           Numeric(row.raw) /\ (row.errors = {} => Valid(MergedValues(row.values, Defaults)))
    BY DEF Sound, Clean, WindowRow
  <2>. DEFINE flagged == [rows[k] EXCEPT !.warnings = warnings]
  <2>4. flagged.raw = rows[k].raw /\ flagged.errors = rows[k].errors /\ flagged.values = rows[k].values
    BY <2>2
  <2>. HIDE DEF flagged
  <2>5. Sound(Clean(flagged, list))
    BY <2>1, <2>3, <2>4
  <2>. QED  BY <2>1, <2>5 DEF flagged
<1>12. DOMAIN Flagged(rows) = DOMAIN rows
  BY DEF Flagged
<1>13. \A k \in DOMAIN rows : \E warnings :
          Flagged(rows)[k] = rows[k] \/ Flagged(rows)[k] = [rows[k] EXCEPT !.warnings = warnings]
  <2>. HIDE DEF rows
  <2>. QED  BY Zenon DEF Flagged
<1>14. i \in DOMAIN q
  BY <1>1, <1>10, <1>12
<1>. HIDE DEF rows, parsed, q
<1>15. Sound(Clean(Flagged(rows)[i], list))
  BY <1>10, <1>11, <1>13, <1>14
<1>. QED  BY <1>1, <1>15 DEF parsed

-----------------------------------------------------------------------------
(* The steps of a handler that was given a list. *)

\* The handler of anything but a list from the window.
LEMMA OtherOffers ==
  ASSUME NEW j, {"at", "for"} \subseteq DOMAIN j, j.at # "resting", j.for # "import" PROVE Offering(j)
BY DEF Offering

\* A handler that moves to another place goes on offering.
LEMMA AtOffers ==
  ASSUME NEW j, Offering(j), j.at # "resting", NEW at, at # "resting" PROVE Offering([j EXCEPT !.at = at])
<1>1. j # Resting
  BY DEF Resting
<1>. DEFINE k == [j EXCEPT !.at = at]
<1>2. DOMAIN k = DOMAIN j /\ k.for = j.for /\ k.items = j.items /\ k.defaults = j.defaults
      /\ k.results = j.results /\ k.created = j.created /\ ("at" \in DOMAIN j => k.at = at)
  BY DEF Offering
<1>. HIDE DEF k
<1>3. Offering(k)
  BY <1>1, <1>2 DEF Offering
<1>. QED  BY <1>3 DEF k

\* What is left to show of a step.
LEMMA JobOffers ==
  ASSUME IntakeInv, Previewed, NEW s \in Sessions, NEW j, jobs' = [jobs EXCEPT ![s] = j], Offering(j)
  PROVE  \A t \in Sessions : Offering(jobs'[t])
BY KeptOf DEF Previewed

\* The step that does it.
LEMMA AtsOffer ==
  ASSUME IntakeInv, Previewed, NEW s \in Sessions, jobs[s].at # "resting", NEW at, at # "resting",
         jobs' = [jobs EXCEPT ![s].at = at]
  PROVE  \A t \in Sessions : Offering(jobs'[t])
<1>. DEFINE j == [jobs[s] EXCEPT !.at = at]
<1>1. jobs' = [jobs EXCEPT ![s] = j] /\ Offering(j)
  BY KeptOf, AtOffers DEF Previewed
<1>. HIDE DEF j
<1>. QED  BY <1>1, JobOffers

\* A row is answered, and not refused.
LEMMA AnswersOffer ==
  ASSUME IntakeInv, Previewed, NEW s \in Sessions, jobs[s].at = "rows", NEW rfq,
         NEW why \in {"created", "invalid", "overlong", "deadlock"}, Answers(s, rfq, why),
         why = "invalid" => jobs[s].for # "import"
  PROVE  \A t \in Sessions : Offering(jobs'[t])
<1>. DEFINE answer == [row |-> Item(s).row, rfq |-> rfq, why |-> why]
            j == [jobs[s] EXCEPT !.results = Append(@, answer)]
<1>1. jobs' = [jobs EXCEPT ![s] = j] /\ Offering(jobs[s]) /\ jobs[s] # Resting
  BY DEF Answers, Previewed, Resting
<1>2. jobs[s].results \in Seq(Answer)
  BY KeptOf DEF JobKept, AtRows
<1>. DEFINE results == Append(jobs[s].results, answer)
<1>3. ASSUME NoneRefused(jobs[s].results), why # "invalid" PROVE NoneRefused(results)
  <2>. SUFFICES ASSUME NEW i \in DOMAIN results PROVE results[i].why # "invalid"
    BY DEF NoneRefused
  <2>. DEFINE n == Len(jobs[s].results)
  <2>0. answer.why = why
    OBVIOUS
  <2>. HIDE DEF answer
  <2>1. n \in Nat /\ DOMAIN jobs[s].results = 1 .. n
    BY <1>2, LenProperties
  <2>2. /\ DOMAIN results = 1 .. (n + 1) /\ results[n + 1] = answer
        /\ \A k \in 1 .. n : results[k] = jobs[s].results[k]
    <3>. DEFINE S == Answer \cup {answer}
    <3>1. jobs[s].results \in Seq(S) /\ answer \in S
      BY <1>2
    <3>. HIDE DEF S
    <3>2. Append(jobs[s].results, answer) \in Seq(S) /\ Len(Append(jobs[s].results, answer)) = n + 1
      BY <3>1, AppendProperties
    <3>. QED  BY <2>1, <3>1, <3>2, AppendProperties, LenProperties
  <2>. HIDE DEF results
  <2>3. i \in 1 .. n \/ i = n + 1
    BY <2>1, <2>2
  <2>. QED  BY <1>3, <2>0, <2>1, <2>2, <2>3 DEF NoneRefused
<1>4. Offering(j)
  <2>1. DOMAIN j = DOMAIN jobs[s] /\ j.at = "rows" /\ j.for = jobs[s].for /\ j.items = jobs[s].items
        /\ j.defaults = jobs[s].defaults /\ j.created = jobs[s].created
        /\ ("results" \in DOMAIN jobs[s] => j.results = results)
    OBVIOUS
  <2>. HIDE DEF j, results
  <2>. QED  BY <1>1, <1>3, <2>1 DEF Offering
<1>. HIDE DEF j
<1>. QED  BY <1>1, <1>4, JobOffers

\* The steps of the server.
LEMMA ServerOffers ==
  ASSUME IntakeInv, Previewed, NEW s \in Sessions, Server(s)
  PROVE  \A t \in Sessions : Offering(jobs'[t])
<1>0. Offering(jobs[s]) /\ DOMAIN jobs = Sessions
  BY KeptOf DEF Previewed
<1>1. CASE FindsBatch(s)
  <2>. DEFINE b == CHOOSE b \in BatchesOf(s, jobs[s].key) : TRUE
              j == [jobs[s] EXCEPT !.at = "created", !.batch = b, !.created = FALSE, !.results = ExistingResults(b)]
  <2>1. /\ jobs[s].at = "lookup"
        /\ jobs' = [jobs EXCEPT ![s].at = "insert"] \/ jobs' = [jobs EXCEPT ![s] = j]
    BY <1>1 DEF FindsBatch
  <2>2. {"key", "items", "results", "batch", "created", "at"} \subseteq DOMAIN jobs[s] /\ jobs[s] # Resting
    BY <2>1, KeptOf DEF JobKept, Resting
  <2>3. /\ DOMAIN j = DOMAIN jobs[s] /\ j.at = "created" /\ j.for = jobs[s].for /\ j.items = jobs[s].items
        /\ j.defaults = jobs[s].defaults /\ j.created = FALSE
    BY <2>2
  <2>. HIDE DEF j
  <2>4. Offering(j)
    BY <1>0, <2>2, <2>3 DEF Offering
  <2>. QED  BY <2>1, <2>4, AtsOffer, JobOffers
<1>2. CASE InsertsBatch(s)
  <2>. DEFINE j == [jobs[s] EXCEPT !.at = "rows", !.batch = NewId(batches)]
  <2>1. /\ jobs[s].at = "insert"
        /\ jobs' = [jobs EXCEPT ![s].at = "failed"] \/ jobs' = [jobs EXCEPT ![s] = j]
    BY <1>2 DEF InsertsBatch
  <2>2. {"key", "items", "results", "batch", "created", "at"} \subseteq DOMAIN jobs[s] /\ jobs[s] # Resting
    BY <2>1, KeptOf DEF JobKept, Resting
  <2>3. /\ DOMAIN j = DOMAIN jobs[s] /\ j.at = "rows" /\ j.for = jobs[s].for /\ j.items = jobs[s].items
        /\ j.defaults = jobs[s].defaults /\ j.created = jobs[s].created /\ j.results = jobs[s].results
    BY <2>2
  <2>. HIDE DEF j
  <2>4. Offering(j)
    BY <1>0, <2>2, <2>3 DEF Offering
  <2>. QED  BY <2>1, <2>4, AtsOffer, JobOffers
<1>3. CASE RefusesRow(s)
  <2>1. HasItem(s) /\ jobs[s].at = "rows" /\ ~Valid(Values(s)) /\ Answers(s, None, "invalid")
    BY <1>3 DEF RefusesRow, HasItem
  <2>2. Len(jobs[s].results) + 1 \in DOMAIN jobs[s].items
    <3>1. AtRows(s) /\ Numbered(jobs[s].items) /\ jobs[s].results \in Seq(Answer)
      BY <2>1, KeptOf DEF JobKept, AtRows
    <3>2. PICK n \in Nat, m \in Nat : n = Len(jobs[s].results) /\ m = Len(jobs[s].items)
      BY <3>1, LenProperties DEF Numbered
    <3>3. DOMAIN jobs[s].items = 1 .. m /\ n < m
      BY <2>1, <3>1, <3>2 DEF Numbered, HasItem
    <3>. QED  BY <3>2, <3>3
  <2>3. jobs[s].for # "import"
    BY <1>0, <2>1, <2>2 DEF Offering, Resting, Values, Item
  <2>. QED  BY <2>1, <2>3, AnswersOffer
<1>4. CASE CreatesRow(s)
  <2>1. jobs[s].at = "rows" /\ \E rfq : Answers(s, rfq, "created") \/ Answers(s, rfq, "overlong")
    BY <1>4 DEF CreatesRow, HasItem
  <2>. QED  BY <2>1, AnswersOffer
<1>5. CASE BreaksDeadlock(s)
  <2>1. jobs[s].at = "rows" /\ Answers(s, None, "deadlock")
    BY <1>5 DEF BreaksDeadlock, WaitsFor, HasItem
  <2>. QED  BY <2>1, AnswersOffer
<1>6. CASE CommitsBatch(s)
  <2>1. jobs[s].at = "rows" /\ jobs' = [jobs EXCEPT ![s].at = "created"]
    BY <1>6 DEF CommitsBatch
  <2>. QED  BY <2>1, AtsOffer
<1>7. CASE InsertsRequest(s)
  <2>. DEFINE j == [at |-> "runs", rfq |-> NewId(rfqs), for |-> "form"]
  <2>1. jobs' = [jobs EXCEPT ![s] = j] /\ {"at", "for"} \subseteq DOMAIN j /\ j.at # "resting" /\ j.for # "import"
    BY <1>7 DEF InsertsRequest
  <2>. HIDE DEF j
  <2>. QED  BY <2>1, OtherOffers, JobOffers
<1>8. CASE QueuesSearches(s)
  <2>1. jobs[s].at = "runs" /\ jobs' = [jobs EXCEPT ![s].at = "created"]
    BY <1>8 DEF QueuesSearches
  <2>. QED  BY <2>1, AtsOffer
<1>9. CASE FindsAnalogs(s)
  <2>1. PICK old, found :
          jobs' = [jobs EXCEPT ![s] = [at |-> "store", rfq |-> jobs[s].rfq, for |-> "analog",
                                       old |-> old, found |-> found]]
    BY <1>9 DEF FindsAnalogs
  <2>. DEFINE j == [at |-> "store", rfq |-> jobs[s].rfq, for |-> "analog", old |-> old, found |-> found]
  <2>2. jobs' = [jobs EXCEPT ![s] = j] /\ {"at", "for"} \subseteq DOMAIN j /\ j.at # "resting" /\ j.for # "import"
    BY <2>1
  <2>. HIDE DEF j
  <2>. QED  BY <2>2, OtherOffers, JobOffers
<1>10. CASE StoresAnalogs(s)
  <2>1. jobs[s].at = "store" /\ jobs' = [jobs EXCEPT ![s].at = "answered"]
    BY <1>10, Zenon DEF StoresAnalogs
  <2>. QED  BY <2>1, AtsOffer, Zenon
<1>11. CASE ReadsChoice(s)
  <2>1. /\ jobs[s].at = "choice"
        /\ \/ jobs' = [jobs EXCEPT ![s].at = "answered"]
           \/ \E key, items, pending :
                jobs' = [jobs EXCEPT ![s] =
                           [at |-> "lookup", key |-> key, defaults |-> Terms, for |-> "analog", items |-> items,
                            results |-> <<>>, batch |-> None, created |-> TRUE,
                            rfq |-> jobs[s].rfq, pending |-> pending]]
    BY <1>11 DEF ReadsChoice
  <2>2. CASE jobs' = [jobs EXCEPT ![s].at = "answered"]
    BY <2>1, <2>2, AtsOffer
  <2>3. ASSUME NEW key, NEW items, NEW pending,
               jobs' = [jobs EXCEPT ![s] =
                          [at |-> "lookup", key |-> key, defaults |-> Terms, for |-> "analog", items |-> items,
                           results |-> <<>>, batch |-> None, created |-> TRUE,
                           rfq |-> jobs[s].rfq, pending |-> pending]]
        PROVE  \A t \in Sessions : Offering(jobs'[t])
    <3>. DEFINE j == [at |-> "lookup", key |-> key, defaults |-> Terms, for |-> "analog", items |-> items,
                      results |-> <<>>, batch |-> None, created |-> TRUE,
                      rfq |-> jobs[s].rfq, pending |-> pending]
    <3>1. jobs' = [jobs EXCEPT ![s] = j] /\ {"at", "for"} \subseteq DOMAIN j /\ j.at # "resting" /\ j.for # "import"
      BY <2>3
    <3>. HIDE DEF j
    <3>. QED  BY <3>1, OtherOffers, JobOffers
  <2>. QED  BY <2>1, <2>2, <2>3
<1>12. CASE LinksRequests(s)
  <2>1. /\ jobs[s].at = "created"
        /\ jobs' = [jobs EXCEPT ![s].at = "failed"] \/ jobs' = [jobs EXCEPT ![s].at = "answered"]
    BY <1>12 DEF LinksRequests
  <2>. QED  BY <2>1, AtsOffer
<1>. QED  BY <1>1, <1>2, <1>3, <1>4, <1>5, <1>6, <1>7, <1>8, <1>9, <1>10, <1>11, <1>12
          DEF Server, BatchStep, RequestStep, DeskStep

\* The handlers stay, or one of them moves on in a way that offers.
LEMMA KeepsOffering ==
  ASSUME Previewed, UNCHANGED jobs PROVE \A t \in Sessions : Offering(jobs'[t])
BY DEF Previewed

\* The window stays as it is.
LEMMA ScreenOffers ==
  ASSUME Windowed, UNCHANGED <<screen, checking>> PROVE Windowed'
BY DEF Windowed

\* What is pressed for are rows without errors.
LEMMA PressesOffers ==
  ASSUME IntakeInv, Previewed, NEW s \in Sessions, Presses(s)
  PROVE  \A t \in Sessions : Offering(jobs'[t])
<1>. DEFINE places == {i \in DOMAIN screen.rows : Importable(screen.rows[i])
                                                 /\ screen.rows[i].row \notin screen.excluded}
            items == [i \in DOMAIN Ready |-> [row |-> Ready[i].row, values |-> Ready[i].values]]
            j == [at |-> "lookup", key |-> <<"list", screen.key>>, items |-> items, defaults |-> Defaults,
                  for |-> "import", results |-> <<>>, batch |-> None, created |-> TRUE]
<1>1. Screened /\ Windowed
  BY DEF IntakeInv, BatchInv, Previewed
<1>2. /\ places \subseteq Nat /\ IsFiniteSet(places)
      /\ \A i \in places : i \in DOMAIN screen.rows /\ screen.rows[i].errors = {}
  BY <1>1, FS_Subset DEF Screened, Importable
<1>3. Ready = Picked(screen.rows, places)
  BY DEF Ready
<1>4. jobs' = [jobs EXCEPT ![s] = j]
  BY DEF Presses, Submits
<1>. HIDE DEF places
<1>5. Picks(Ready, screen.rows, places)
  BY <1>2, <1>3, PickedIs
<1>6. \A i \in DOMAIN Ready : \E k \in places : Ready[i] = screen.rows[k]
  BY <1>5 DEF Picks
<1>7. \A i \in DOMAIN Ready : Valid(MergedValues(Ready[i].values, Defaults))
  BY <1>1, <1>2, <1>6 DEF Windowed, Sound
<1>8. DOMAIN items = DOMAIN Ready /\ \A i \in DOMAIN items : items[i].values = Ready[i].values
  OBVIOUS
<1>. HIDE DEF items
<1>9. /\ {"at", "for", "items", "defaults", "results", "created"} \subseteq DOMAIN j
      /\ j.at = "lookup" /\ j.for = "import" /\ j.items = items /\ j.defaults = Defaults /\ j.results = <<>>
  OBVIOUS
<1>. HIDE DEF j
<1>10. NoneRefused(<<>>)
  BY DEF NoneRefused
<1>11. Offering(j)
  BY <1>7, <1>8, <1>9, <1>10 DEF Offering
<1>. QED  BY <1>4, <1>11, JobOffers

\* The rows and the checks of the window.
LEMMA RowsAreSound ==
  ASSUME Windowed', \A t \in Sessions : Offering(jobs'[t]) PROVE Previewed'
BY DEF Previewed

\* The steps of the window.
LEMMA PreviewArrivesSound ==
  ASSUME Screened, Windowed, PreviewArrives PROVE Windowed'
<1>. DEFINE preview == ParseImportFile(Files[uploading])
<1>1. uploading \in DOMAIN Files /\ checking' = checking /\ DOMAIN screen = ScreenFields
  BY DEF PreviewArrives, Screened
<1>2. CASE ~preview.read
  <2>1. screen'.rows = <<>>
    BY <1>1, <1>2 DEF PreviewArrives, ScreenFields
  <2>. QED  BY <1>1, <2>1 DEF Windowed
<1>3. CASE preview.read
  <2>. DEFINE rows == [i \in DOMAIN preview.rows |-> Clean(preview.rows[i], uploads)]
  <2>1. screen' = [screen EXCEPT !.rows = rows, !.excluded = {}, !.key = uploads, !.result = None]
    BY <1>3 DEF PreviewArrives
  <2>2. \A i \in DOMAIN preview.rows : Sound(Clean(preview.rows[i], uploads))
    BY <1>1, <1>3, PreviewIsSound
  <2>. HIDE DEF preview
  <2>3. \A i \in DOMAIN rows : Sound(rows[i])
    BY <2>2
  <2>. HIDE DEF rows
  <2>4. screen'.rows = rows
    BY <1>1, <2>1 DEF ScreenFields
  <2>. QED  BY <1>1, <2>3, <2>4 DEF Windowed
<1>. QED  BY <1>2, <1>3

LEMMA EditsCellSound ==
  ASSUME Screened, Windowed, EditsCell PROVE Windowed'
<1>1. PICK i \in DOMAIN screen.rows, f \in DOMAIN Corrections :
        screen' = [screen EXCEPT !.rows[i] =
                     WindowRow(screen.rows[i], Put(screen.rows[i].raw, f, Corrections[f]), TRUE,
                               screen.rows[i].list)]
  BY DEF EditsCell
<1>. DEFINE raw == Put(screen.rows[i].raw, f, Corrections[f])
            row == WindowRow(screen.rows[i], raw, TRUE, screen.rows[i].list)
            rows == [screen.rows EXCEPT ![i] = row]
<1>2. row.raw = raw /\ row.values = screen.rows[i].values /\ row.errors = screen.rows[i].errors
  BY DEF WindowRow
<1>3. Sound(screen.rows[i])
  BY DEF Windowed
<1>4. Numeric(raw)
  <2>1. \/ raw["cas"] = Corrections["cas"] /\ "cas" \in DOMAIN Corrections
        \/ "cas" \in DOMAIN raw => "cas" \in DOMAIN screen.rows[i].raw /\ raw["cas"] = screen.rows[i].raw["cas"]
    BY DEF Put
  <2>2. "cas" \in DOMAIN Corrections => NumberCell(Corrections["cas"])
    BY IntakeAssumption
  <2>. HIDE DEF raw
  <2>. QED  BY <1>3, <2>1, <2>2 DEF Sound, Numeric
<1>. HIDE DEF raw, row
<1>5. Sound(row)
  BY <1>2, <1>3, <1>4 DEF Sound
<1>6. screen'.rows = rows /\ checking' = checking
  BY <1>1 DEF row, raw, Screened, ScreenFields, EditsCell
<1>7. DOMAIN rows = DOMAIN screen.rows /\ \A k \in DOMAIN rows : rows[k] = row \/ rows[k] = screen.rows[k]
  OBVIOUS
<1>. HIDE DEF rows
<1>. QED  BY <1>5, <1>6, <1>7 DEF Windowed

LEMMA LeavesCellSound ==
  ASSUME Screened, Windowed, LeavesCell PROVE Windowed'
<1>1. PICK i \in DOMAIN screen.rows :
        /\ checking' = checking \cup {[row |-> screen.rows[i].row, raw |-> screen.rows[i].raw,
                                       list |-> screen.rows[i].list]}
        /\ screen' = [screen EXCEPT !.rechecking = screen.rows[i].row]
  BY DEF LeavesCell
<1>2. screen'.rows = screen.rows
  BY <1>1 DEF Screened, ScreenFields
<1>3. \A c \in checking' : c \in checking \/ c.raw = screen.rows[i].raw
  BY <1>1
<1>. QED  BY <1>2, <1>3 DEF Windowed, Sound

LEMMA RowArrivesSound ==
  ASSUME Screened, Windowed, RowArrives PROVE Windowed'
<1>1. PICK c \in checking :
        /\ checking' = checking \ {c}
        /\ screen' = [screen EXCEPT
             !.rechecking = None,
             !.rows = [i \in DOMAIN @ |-> IF @[i].row = c.row THEN Clean(ParseImportRow(c.row, c.raw), c.list)
                                          ELSE @[i]]]
  BY Zenon DEF RowArrives
<1>. DEFINE checked == Clean(ParseImportRow(c.row, c.raw), c.list)
            rows == [i \in DOMAIN screen.rows |-> IF screen.rows[i].row = c.row THEN checked
                                                  ELSE screen.rows[i]]
<1>2. Sound(checked)
  BY RecheckIsSound DEF Windowed
<1>. HIDE DEF checked
<1>3. \A i \in DOMAIN rows : i \in DOMAIN screen.rows /\ (rows[i] = checked \/ rows[i] = screen.rows[i])
  OBVIOUS
<1>4. screen' = [screen EXCEPT !.rechecking = None, !.rows = rows]
  BY <1>1 DEF checked
<1>. HIDE DEF rows
<1>5. screen'.rows = rows
  BY <1>4 DEF Screened, ScreenFields
<1>. QED  BY <1>1, <1>2, <1>3, <1>5 DEF Windowed

LEMMA ScreenPreviews ==
  ASSUME IntakeInv, Previewed, ImportStep \/ OtherStep PROVE Previewed'
<1>1. Screened /\ Windowed /\ DOMAIN screen = ScreenFields
  BY DEF IntakeInv, BatchInv, Previewed, Screened
<1>2. CASE OtherStep
  <2>1. PICK s \in Sessions : jobs[s] = Resting /\ Submits(s, <<"list", 0>>, OtherList, Defaults, "other")
    BY <1>2 DEF OtherStep
  <2>. DEFINE j == [at |-> "lookup", key |-> <<"list", 0>>, items |-> OtherList, defaults |-> Defaults,
                    for |-> "other", results |-> <<>>, batch |-> None, created |-> TRUE]
  <2>2. jobs' = [jobs EXCEPT ![s] = j] /\ {"at", "for"} \subseteq DOMAIN j /\ j.at # "resting" /\ j.for # "import"
    BY <2>1 DEF Submits
  <2>. HIDE DEF j
  <2>3. Windowed'
    BY <1>1, <1>2, ScreenOffers DEF OtherStep, screenVars
  <2>. QED  BY <2>2, <2>3, OtherOffers, JobOffers, RowsAreSound
<1>3. ASSUME ImportStep, NEW s \in Sessions, Presses(s) PROVE Previewed'
  <2>1. screen'.rows = screen.rows /\ checking' = checking
    BY <1>1, <1>3 DEF Presses, ScreenFields
  <2>2. Windowed'
    BY <1>1, <2>1 DEF Windowed
  <2>. QED  BY <1>3, <2>2, PressesOffers, RowsAreSound
<1>4. ASSUME ImportStep, NEW s \in Sessions, ResultArrives(s) PROVE Previewed'
  <2>1. /\ screen'.rows = screen.rows /\ checking' = checking
        /\ jobs[s].at = "created" /\ jobs' = [jobs EXCEPT ![s].at = "done"]
    BY <1>1, <1>4 DEF ResultArrives, ScreenFields
  <2>2. Windowed'
    BY <1>1, <2>1 DEF Windowed
  <2>. QED  BY <2>1, <2>2, AtsOffer, RowsAreSound
<1>5. ASSUME ImportStep, UNCHANGED jobs PROVE Previewed'
  <2>1. CASE PreviewArrives
    BY <1>1, <1>5, <2>1, PreviewArrivesSound, KeepsOffering, RowsAreSound
  <2>2. CASE EditsCell
    BY <1>1, <1>5, <2>2, EditsCellSound, KeepsOffering, RowsAreSound
  <2>3. CASE LeavesCell
    BY <1>1, <1>5, <2>3, LeavesCellSound, KeepsOffering, RowsAreSound
  <2>4. CASE RowArrives
    BY <1>1, <1>5, <2>4, RowArrivesSound, KeepsOffering, RowsAreSound
  <2>5. CASE Uploads \/ UploadFails \/ Excludes \/ RowCheckFails
             \/ \E s \in Sessions : Presses(s) \/ ResultArrives(s) \/ ResultLost(s)
    <3>1. (screen'.rows = screen.rows \/ screen'.rows = <<>>) /\ checking' \subseteq checking
      BY <1>1, <2>5, Zenon DEF ScreenFields, Uploads, UploadFails, Excludes, RowCheckFails, Presses, ResultArrives,
                        ResultLost
    <3>2. Windowed'
      BY <1>1, <3>1 DEF Windowed
    <3>. QED  BY <1>5, <3>2, KeepsOffering, RowsAreSound
  <2>. QED  BY <1>5, <2>1, <2>2, <2>3, <2>4, <2>5 DEF ImportStep, ScreenNext
<1>6. ASSUME ImportStep, ~UNCHANGED jobs PROVE \E s \in Sessions : Presses(s) \/ ResultArrives(s)
  BY <1>6, Zenon DEF ImportStep, ScreenNext, Uploads, PreviewArrives, UploadFails, Excludes, EditsCell, LeavesCell,
              RowArrives, RowCheckFails, ResultLost, batchVars
<1>. QED  BY <1>2, <1>3, <1>4, <1>5, <1>6

LEMMA FormPreviews ==
  ASSUME IntakeInv, Previewed, FormStep PROVE Previewed'
<1>1. Windowed'
  BY ScreenOffers DEF FormStep, screenVars, Previewed
<1>2. ASSUME NEW s \in FormSessions, Creates(s) PROVE Previewed'
  <2>. DEFINE j == [at |-> "request", values |-> Payload, for |-> "form"]
  <2>1. jobs' = [jobs EXCEPT ![s] = j] /\ {"at", "for"} \subseteq DOMAIN j /\ j.at # "resting" /\ j.for # "import"
    BY <1>2 DEF Creates
  <2>2. s \in Sessions
    BY IntakeAssumption
  <2>. HIDE DEF j
  <2>. QED  BY <1>1, <2>1, <2>2, OtherOffers, JobOffers, RowsAreSound
<1>3. ASSUME NEW s \in FormSessions, RequestOpens(s) PROVE Previewed'
  <2>1. jobs[s].at = "created" /\ jobs' = [jobs EXCEPT ![s].at = "done"]
    BY <1>3 DEF RequestOpens
  <2>2. s \in Sessions
    BY IntakeAssumption
  <2>. QED  BY <1>1, <2>1, <2>2, AtsOffer, RowsAreSound
<1>4. ASSUME UNCHANGED batchVars PROVE Previewed'
  BY <1>1, <1>4, KeepsOffering, RowsAreSound DEF batchVars
<1>. QED  BY <1>2, <1>3, <1>4, Zenon
  DEF FormStep, FormNext, Touches, TypesName, TypesCas, MovesNumber, TogglesAnalog, Unlocks, ChangesSynonyms,
      TogglesExcluded, Checks, CheckArrives, CheckFails, Chooses, Undoes, Copies, CopyArrives, RequestLost

LEMMA DeskPreviews ==
  ASSUME IntakeInv, Previewed, AnalogStep PROVE Previewed'
<1>1. Windowed'
  BY ScreenOffers DEF AnalogStep, screenVars, Previewed
<1>2. ASSUME NEW s \in Sessions, AsksSuggestion(s) PROVE Previewed'
  <2>. DEFINE j == [at |-> "suggest", rfq |-> desk.rfq, for |-> "analog"]
  <2>1. jobs' = [jobs EXCEPT ![s] = j] /\ {"at", "for"} \subseteq DOMAIN j /\ j.at # "resting" /\ j.for # "import"
    BY <1>2 DEF AsksSuggestion
  <2>. HIDE DEF j
  <2>. QED  BY <1>1, <2>1, OtherOffers, JobOffers, RowsAreSound
<1>3. ASSUME NEW s \in Sessions, AsksRequests(s) PROVE Previewed'
  <2>. DEFINE j == [at |-> "choice", rfq |-> desk.rfq, chosen |-> desk.chosen, for |-> "analog"]
  <2>1. jobs' = [jobs EXCEPT ![s] = j] /\ {"at", "for"} \subseteq DOMAIN j /\ j.at # "resting" /\ j.for # "import"
    BY <1>3 DEF AsksRequests
  <2>. HIDE DEF j
  <2>. QED  BY <1>1, <2>1, OtherOffers, JobOffers, RowsAreSound
<1>4. ASSUME NEW s \in Sessions, AnswerArrives(s) PROVE Previewed'
  <2>1. jobs[s].at = "answered" /\ jobs' = [jobs EXCEPT ![s].at = "done"]
    BY <1>4 DEF AnswerArrives
  <2>. QED  BY <1>1, <2>1, AtsOffer, RowsAreSound
<1>5. ASSUME UNCHANGED batchVars PROVE Previewed'
  BY <1>1, <1>5, KeepsOffering, RowsAreSound DEF batchVars
<1>. QED  BY <1>2, <1>3, <1>4, <1>5, Zenon DEF AnalogStep, DeskNext, Loads, Toggles, AnswerLost

\* At first the window is empty.
LEMMA PreviewedInit == Init => Previewed
<1>. SUFFICES ASSUME Init PROVE Previewed
  OBVIOUS
<1>1. \A s \in Sessions : jobs[s] = Resting
  BY DEF Init, BatchInit
<1>2. screen.rows = <<>> /\ checking = {}
  BY DEF Init, ScreenInit, Closed
<1>. QED  BY <1>1, <1>2 DEF Previewed, Windowed, Offering

\* Every step keeps what the window offers.
LEMMA PreviewedKept ==
  ASSUME IntakeInv, Previewed, [Next]_vars PROVE Previewed'
<1>1. CASE UNCHANGED vars
  BY <1>1, ScreenOffers, KeepsOffering, RowsAreSound DEF vars, screenVars, Previewed
<1>2. ASSUME NEW s \in Sessions, ServerStep(s) PROVE Previewed'
  <2>1. Windowed'
    BY <1>2, ScreenOffers DEF ServerStep, windowVars, screenVars, Previewed
  <2>. QED  BY <1>2, <2>1, ServerOffers, RowsAreSound DEF ServerStep
<1>3. ASSUME NEW s \in Sessions, CrashStep(s) PROVE Previewed'
  <2>1. Windowed'
    BY <1>3, ScreenOffers DEF CrashStep, windowVars, screenVars, Previewed
  <2>2. jobs[s].at # "resting" /\ jobs' = [jobs EXCEPT ![s].at = "failed"]
    BY <1>3 DEF CrashStep, Crashes
  <2>. QED  BY <2>1, <2>2, AtsOffer, RowsAreSound
<1>4. CASE ExpertStep
  BY <1>4, ScreenOffers, KeepsOffering, RowsAreSound DEF ExpertStep, screenVars, Previewed
<1>. QED  BY <1>1, <1>2, <1>3, <1>4, ScreenPreviews, FormPreviews, DeskPreviews DEF Next

\* A row that the window offers, read from a file, corrected or checked again while other
\* answers are under way, is never refused by the check of the server when the request is
\* created.  Concerns parse_import_row, RFQCreate and the defaults of the list.
THEOREM PreviewIsKept == Spec => []PreviewKept
<1>1. Init => Previewed
  BY PreviewedInit
<1>2. Previewed /\ IntakeInv /\ [Next]_vars => Previewed'
  BY PreviewedKept
<1>3. Previewed => PreviewKept
  BY DEF Previewed, Offering, NoneRefused, PreviewKept
<1>. QED  BY <1>1, <1>2, <1>3, IntakeKept, PTL DEF Spec
=============================================================================
