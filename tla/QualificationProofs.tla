------------------------ MODULE QualificationProofs ------------------------
(***************************************************************************)
(* The qualification of a search run, for any pages, answers, opinions and *)
(* budget: a company that comes out eligible was proven by its own page,   *)
(* and a page keeps its first answer.  The registry, for any sessions and  *)
(* cards: a company is one row unless the runs that stored it overlapped.  *)
(***************************************************************************)
EXTENDS Qualification, FiniteSetTheorems, TLAPS

-----------------------------------------------------------------------------
(* What the gates, the score and the auditor let through. *)

\* No reader finds the role of a manufacturer: it is a quotation of the model
\* from this page.
LEMMA RoleIsQuoted ==
  ASSUME NEW p, NEW page \in Pages, NEW answer, NEW read,
         "manufacturer_role" \in Evidence(p, page, answer, read).supports
  PROVE  \E c \in answer.claims :
           c.what = "manufacturer_role" /\ c.side = "supports" /\ c.page = p /\ c.quoted
<1>1. "manufacturer_role" \notin page.reads \cup Profile(page)
  BY DEF Pages, Readings, Profile, Details
<1>2. "manufacturer_role" \notin Added(page, answer, read)
  BY <1>1 DEF Added
<1>3. PICK c \in answer.claims :
        Accepted(c, p) /\ c.side = "supports" /\ TypeOf(c) = "manufacturer_role"
  BY <1>2 DEF Evidence
<1>4. c.what = "manufacturer_role"
  BY <1>3 DEF TypeOf
<1>. QED  BY <1>3, <1>4 DEF Accepted

\* A page with a sourcing network and no permit makes a manufacturer of nobody
\* who shows details of a production.
LEMMA RoleIsUndisputed ==
  ASSUME NEW page, NEW answer, NEW ev, Role(page, answer, ev)[1] = "manufacturer",
         "sourcing" \in page.says, "permit" \notin page.says
  PROVE  Details \cap ev.supports = {}
<1>1. ASSUME NEW role, role[1] # "manufacturer" PROVE Trader(role, ev)[1] # "manufacturer"
  BY <1>1 DEF Trader
<1>2. CASE answer.type = "manufacturer"
  <2>1. Maker(page, ev)[1] = "manufacturer"
    BY <1>1, <1>2 DEF Role
  <2>2. Disputed(page, ev)
    BY DEF Disputed
  <2>. QED  BY <2>1, <2>2 DEF Maker
<1>3. CASE answer.type # "manufacturer"
  BY <1>1, <1>3 DEF Role
<1>. QED  BY <1>2, <1>3

\* What the gates make a manufacturer has a page of its own, read and long
\* enough, a role nobody disputes, and is where it was looked for.
LEMMA GatesAreShut ==
  ASSUME NEW page, NEW answer, NEW ev, Gates(page, answer, ev).type = "manufacturer"
  PROVE  /\ page.place # "listing" /\ page.long
         /\ Role(page, answer, ev)[1] = "manufacturer"
         /\ Gates(page, answer, ev).country = Country(page, answer, ev)
<1>1. CASE page.place = "listing"
  BY <1>1 DEF Gates, Gated
<1>2. CASE page.place # "listing" /\ ~page.long
  BY <1>2 DEF Gates, Gated
<1>3. CASE page.place # "listing" /\ page.long /\ KindOf(page, answer) \in NotOwnPages
  BY <1>3 DEF Gates, Gated
<1>4. CASE page.place # "listing" /\ page.long /\ KindOf(page, answer) \notin NotOwnPages
  BY <1>4 DEF Gates, Gated
<1>. QED  BY <1>1, <1>2, <1>3, <1>4

\* A card whose country stands has no quotation of another country.
LEMMA CountryStands ==
  ASSUME NEW page, NEW answer, NEW ev, Country(page, answer, ev) # "mismatch"
  PROVE  ~ev.abroad
BY DEF Country

\* What the auditor confirms was eligible, and is confirmed by claims of this
\* candidate alone.
LEMMA AuditIsOwn ==
  ASSUME NEW p, NEW eligible \in BOOLEAN, NEW ev, NEW verdict,
         Audited(p, eligible, ev, verdict) = "confirmed"
  PROVE  /\ eligible /\ verdict.status = "confirmed" /\ verdict.cites # {}
         /\ \A id \in verdict.cites : id[1] = p
<1>1. Confirmed(p, eligible, ev, verdict)
  BY DEF Audited
<1>2. Supporting(p, ev, verdict) # {}
  BY <1>1 DEF Confirmed, TypesOf
<1>3. verdict.cites \subseteq Supporting(p, ev, verdict) \cup Contradictory(p, ev, verdict)
  BY <1>1 DEF Confirmed, Invalid
<1>4. Supporting(p, ev, verdict) \subseteq verdict.cites
  BY DEF Supporting
<1>5. \A id \in ClaimIds(p, ev) : id[1] = p
  BY DEF ClaimIds
<1>. QED  BY <1>1, <1>2, <1>3, <1>4, <1>5 DEF Confirmed, Supporting, Contradictory

-----------------------------------------------------------------------------
(* The invariant of the run. *)

\* The pages that were opened, and what the budget has counted.
Opened ==
  /\ opened \in Seq(Candidates) /\ Len(opened) <= Requested
  /\ profiled \subseteq OpenedIds
  /\ fetches \in 0 .. MaxFetches /\ calls \in 0 .. MaxCalls
  /\ pc \in {"fetch", "qualify", "verify", "register", "failed", "cancelled"}

Single(q) == \E p \in InBatch : q.items = {p}

\* One question about the whole batch, put or yet to be put, or questions about
\* single pages.  A page that was named is not asked about again.
Questions ==
  /\ \A q \in ask : q.again => q.items \cap answered = {}
  /\ \/ asked = 0 /\ ask = {[items |-> InBatch, again |-> FALSE]}
     \/ /\ asked \in Nat /\ IsFiniteSet(ask) /\ asked + Cardinality(ask) <= 3
        /\ \A q \in ask : Single(q)

Batch ==
  /\ busy \in BOOLEAN /\ offset \in Nat
  /\ busy => Asking /\ offset < Len(opened) /\ Questions
  /\ ~busy => ask = {} /\ raw = <<>> /\ asked = 0

\* What the current batch has brought, and what was accepted before.
Brought ==
  /\ DOMAIN raw \subseteq InBatch
  /\ pc = "qualify" => \A p \in DOMAIN raw : raw[p] \in AnswersTo[p] \cup {Invalid_}
  /\ DOMAIN answers \subseteq OpenedIds /\ DOMAIN verdicts \subseteq OpenedIds
  /\ \A p \in DOMAIN answers : answers[p] \in AnswersTo[p]

\* The pages a valid answer is there about, and the answer that counts.
Sound(f) == {p \in DOMAIN f : f[p] # Invalid_}
Said(p) == IF p \in DOMAIN strays THEN strays[p] ELSE told[p]

Settled ==
  /\ DOMAIN answers = DOMAIN told \cup DOMAIN strays
  /\ \A p \in DOMAIN answers : answers[p] = Said(p)

\* The answer that counts is held by the batch until it is accepted.
ToldKept ==
  /\ pc = "fetch" => told = <<>> /\ strays = <<>> /\ answers = <<>>
  /\ pc = "qualify" =>
       /\ DOMAIN told \cup DOMAIN strays = DOMAIN answers \cup Sound(raw)
       /\ \A p \in DOMAIN answers : answers[p] = Said(p)
       /\ \A p \in Sound(raw) \ DOMAIN answers : raw[p] = Said(p)
  /\ pc \in {"verify", "register"} => Settled

Named == \A p \in DOMAIN answers : cards[p].name = answers[p].name

\* Cards are what the gates made of the answers, and then what the auditor left.
CardsMade ==
  /\ pc \in {"fetch", "qualify", "failed"} => cards = <<>>
  /\ pc = "verify" => cards = [p \in OpenedIds |-> Qualified(p)]
  /\ pc = "register" =>
       /\ DOMAIN cards = OpenedIds /\ Named
       /\ \A p \in OpenedIds : cards[p].eligible =>
            /\ p \in DOMAIN verdicts
            /\ Audited(p, Qualified(p).eligible, EvidenceOf(p), verdicts[p]) = "confirmed"
  /\ pc = "cancelled" => cards = <<>> \/ (DOMAIN cards = OpenedIds /\ Settled /\ Named)

RunInv == Opened /\ Batch /\ Brought /\ ToldKept /\ CardsMade

-----------------------------------------------------------------------------
(* The questions of a batch. *)

\* The positions of a batch are one or two.
LEMMA BatchIsSmall ==
  ASSUME opened \in Seq(Candidates), offset \in Nat, offset < Len(opened)
  PROVE  \E a, b \in Nat : InBatch = {a, b} /\ a \in OpenedIds /\ b \in OpenedIds
<1>1. Candidates \subseteq Nat
  BY QualificationAssumption DEF Candidates
<1>2. DOMAIN opened = 1 .. Len(opened) /\ Len(opened) \in Nat
  OBVIOUS
<1>3. \A i \in DOMAIN opened : opened[i] \in Nat
  <2>1. opened \in [1 .. Len(opened) -> Candidates]
    OBVIOUS
  <2>. QED  BY <1>1, <1>2, <2>1
<1>4. CASE offset + 1 = Len(opened)
  <2>1. (offset + 1 .. offset + BatchSize) \cap DOMAIN opened = {offset + 1}
    BY <1>2, <1>4 DEF BatchSize
  <2>2. InBatch = {opened[offset + 1]}
    BY <2>1 DEF InBatch
  <2>. QED  BY <1>2, <1>3, <1>4, <2>2 DEF OpenedIds, ToSet
<1>5. CASE offset + 1 # Len(opened)
  <2>1. \A n \in Nat : offset < n /\ offset + 1 # n => offset + 1 \in 1 .. n /\ offset + 2 \in 1 .. n
    OBVIOUS
  <2>2. offset + 1 \in DOMAIN opened /\ offset + 2 \in DOMAIN opened
    BY <1>2, <1>5, <2>1
  <2>3. (offset + 1 .. offset + BatchSize) \cap DOMAIN opened = {offset + 1, offset + 2}
    BY <2>2 DEF BatchSize
  <2>4. InBatch = {opened[offset + 1], opened[offset + 2]}
    BY <2>3 DEF InBatch
  <2>. QED  BY <1>3, <2>4, <2>2 DEF OpenedIds, ToSet
<1>. QED  BY <1>4, <1>5

\* Two elements are at most two.
LEMMA Couple ==
  ASSUME NEW a, NEW b, NEW S \in SUBSET {a, b}
  PROVE  IsFiniteSet(S) /\ Cardinality(S) \in 0 .. 2
<1>1. IsFiniteSet({a}) /\ Cardinality({a}) = 1
  BY FS_Singleton
<1>2. IsFiniteSet({a, b}) /\ Cardinality({a, b}) \in 0 .. 2
  <2>1. {a, b} = {a} \cup {b}
    OBVIOUS
  <2>. QED  BY <1>1, <2>1, FS_AddElement
<1>. QED  BY <1>2, FS_Subset, FS_CardinalityType

\* One page is not halved; of two, each half is one.
LEMMA HalvesAreSingle ==
  ASSUME NEW a \in Nat, NEW b \in Nat
  PROVE  /\ Lower({a}) = {}
         /\ a < b => Lower({a, b}) = {a} /\ {a, b} \ {a} = {b}
<1>1. Cardinality({a}) = 1 /\ Cardinality({}) = 0
  BY FS_Singleton, FS_EmptySet
<1>2. {o \in {a} : o < a} = {}
  OBVIOUS
<1>3. Lower({a}) = {}
  BY <1>1, <1>2 DEF Lower
<1>4. ASSUME a < b PROVE Lower({a, b}) = {a} /\ {a, b} \ {a} = {b}
  <2>1. {o \in {a, b} : o < a} = {} /\ {o \in {a, b} : o < b} = {a}
    BY <1>4
  <2>2. Cardinality({a, b}) = 2
    <3>1. {a, b} = {a} \cup {b} /\ b \notin {a}
      BY <1>4
    <3>2. Cardinality({a} \cup {b}) = Cardinality({a}) + 1
      BY <1>1, <3>1, FS_Singleton, FS_AddElement
    <3>. QED  BY <1>1, <3>1, <3>2
  <2>3. 2 \div 2 = 1
    OBVIOUS
  <2>. QED  BY <1>1, <1>4, <2>1, <2>2, <2>3 DEF Lower
<1>. QED  BY <1>3, <1>4

\* What an answer names, and says, is what the model may name and say.
LEMMA ResultsAreOfTheBatch ==
  ASSUME NEW say, NEW result \in Results(say)
  PROVE  DOMAIN result \subseteq InBatch /\ \A p \in DOMAIN result : result[p] \in say[p]
<1>1. PICK S \in SUBSET InBatch :
        result \in {r \in [S -> UNION {say[p] : p \in S}] : \A p \in S : r[p] \in say[p]}
  BY DEF Results
<1>2. DOMAIN result = S
  BY <1>1
<1>. QED  BY <1>1, <1>2

\* A page that was named is not asked about again, whoever answers next, and a
\* permit pays for three calls at most.
LEMMA QuestionsTaken ==
  ASSUME Opened, Batch, busy, NEW q \in ask, NEW say, NEW result \in Results(say),
         Takes(q, result), UNCHANGED <<opened, offset>>
  PROVE  Questions' /\ asked' \in 0 .. 3
<1>. DEFINE silent == {[items |-> {p}, again |-> TRUE] : p \in q.items \ DOMAIN result}
<1>1. Questions /\ offset \in Nat /\ offset < Len(opened) /\ InBatch' = InBatch
  BY DEF Batch, InBatch
<1>2. ask' = (ask \ {q}) \cup (IF AsksAgain(q) THEN silent ELSE {})
  BY DEF Takes
<1>3. answered' = (IF AsksAgain(q) THEN DOMAIN result ELSE answered) /\ asked' = asked + 1
  BY DEF Takes
<1>4. PICK a, b \in Nat : InBatch = {a, b}
  BY <1>1, BatchIsSmall DEF Opened
<1>5. CASE asked = 0 /\ ask = {[items |-> InBatch, again |-> FALSE]}
  <2>1. q = [items |-> {a, b}, again |-> FALSE] /\ ask \ {q} = {}
    BY <1>4, <1>5
  <2>2. ask' \subseteq {[items |-> {a}, again |-> TRUE], [items |-> {b}, again |-> TRUE]}
    BY <1>2, <2>1
  <2>3. IsFiniteSet(ask') /\ Cardinality(ask') \in 0 .. 2
    BY <2>2, Couple
  <2>4. \A o \in ask' : Single(o)'
    BY <1>1, <1>4, <2>2 DEF Single
  <2>5. ASSUME NEW o \in ask' PROVE o.items \cap answered' = {}
    <3>1. AsksAgain(q) /\ o \in silent
      BY <1>2, <2>1, <2>5
    <3>. QED  BY <1>3, <3>1
  <2>6. asked' = 1
    BY <1>3, <1>5
  <2>. QED  BY <2>3, <2>4, <2>5, <2>6 DEF Questions
<1>6. CASE /\ asked \in Nat /\ IsFiniteSet(ask) /\ asked + Cardinality(ask) <= 3
           /\ \A o \in ask : Single(o)
  <2>1. ~AsksAgain(q)
    BY <1>6, FS_Singleton DEF AsksAgain, Single
  <2>2. ask' = ask \ {q} /\ answered' = answered
    BY <1>2, <1>3, <2>1
  <2>3. IsFiniteSet(ask') /\ Cardinality(ask') = Cardinality(ask) - 1 /\ Cardinality(ask) \in Nat
    BY <1>6, <2>2, FS_RemoveElement, FS_CardinalityType
  <2>4. asked' \in Nat /\ asked' + Cardinality(ask') <= 3 /\ Cardinality(ask') \in Nat
    BY <1>3, <1>6, <2>3, FS_CardinalityType
  <2>5. \A o \in ask' : Single(o)'
    BY <1>1, <1>6, <2>2 DEF Single
  <2>6. \A o \in ask' : o.again => o.items \cap answered' = {}
    BY <1>1, <2>2 DEF Questions
  <2>7. asked' \in 0 .. 3
    BY <2>4
  <2>. QED  BY <2>3, <2>4, <2>5, <2>6, <2>7 DEF Questions
<1>. QED  BY <1>1, <1>5, <1>6 DEF Questions

LEMMA QuestionsHalved ==
  ASSUME Opened, Batch, busy, Halves
  PROVE  Questions' /\ asked' \in 0 .. 3
<1>1. Questions /\ offset \in Nat /\ offset < Len(opened) /\ InBatch' = InBatch
  BY DEF Batch, InBatch, Halves, pages
<1>2. PICK q \in ask :
        /\ Lower(q.items) # {}
        /\ ask' = (ask \ {q}) \cup {[items |-> half, again |-> q.again] :
                                    half \in {Lower(q.items), q.items \ Lower(q.items)}}
  BY DEF Halves
<1>3. asked' = asked + 1
  BY DEF Halves
<1>4. PICK a, b \in Nat : InBatch = {a, b}
  BY <1>1, BatchIsSmall DEF Opened
<1>5. CASE asked = 0 /\ ask = {[items |-> InBatch, again |-> FALSE]}
  <2>1. q = [items |-> InBatch, again |-> FALSE] /\ ask \ {q} = {} /\ q.items = InBatch
    <3>1. q = [items |-> InBatch, again |-> FALSE]
      BY <1>2, <1>5
    <3>. QED  BY <1>5, <3>1
  <2>2. PICK c, d \in Nat : c < d /\ InBatch = {c, d}
    <3>1. a # b
      BY <1>2, <1>4, <2>1, HalvesAreSingle
    <3>2. CASE a < b
      BY <1>4, <3>2
    <3>3. CASE b < a
      BY <1>4, <3>3
    <3>. QED  BY <3>1, <3>2, <3>3
  <2>3. Lower(q.items) = {c} /\ q.items \ Lower(q.items) = {d}
    BY <2>1, <2>2, HalvesAreSingle
  <2>4. ask' = {[items |-> {c}, again |-> FALSE], [items |-> {d}, again |-> FALSE]}
    BY <1>2, <2>1, <2>3
  <2>5. IsFiniteSet(ask') /\ Cardinality(ask') \in 0 .. 2
    BY <2>4, Couple
  <2>6. \A o \in ask' : Single(o)' /\ ~o.again
    BY <1>1, <2>2, <2>4 DEF Single
  <2>7. asked' = 1
    BY <1>3, <1>5
  <2>. QED  BY <2>5, <2>6, <2>7 DEF Questions
<1>6. CASE \A o \in ask : Single(o)
  <2>1. PICK p \in InBatch : q.items = {p}
    BY <1>6 DEF Single
  <2>2. p \in Nat
    BY <1>4, <2>1
  <2>. QED  BY <1>2, <2>1, <2>2, HalvesAreSingle
<1>. QED  BY <1>1, <1>5, <1>6 DEF Questions

-----------------------------------------------------------------------------
(* The run keeps its invariant. *)

\* Cards depend on the answers and the pages only.
LEMMA CardsDepend ==
  ASSUME UNCHANGED <<answers, profiled>>
  PROVE  \A p : Qualified(p)' = Qualified(p) /\ EvidenceOf(p)' = EvidenceOf(p)
BY DEF Qualified, EvidenceOf, PageOf

\* Steps that leave the answers, what was said and the cards alone.
LEMMA ResultsStay ==
  ASSUME UNCHANGED <<answers, told, strays>>
  PROVE  /\ \A p : Said(p)' = Said(p)
         /\ Settled' = Settled
         /\ cards' = cards => Named' = Named
         /\ ToldKept /\ pc' = pc /\ Sound(raw') = Sound(raw) /\ (\A p \in Sound(raw) : raw'[p] = raw[p])
              => ToldKept'
<1>1. /\ \A p : Said(p)' = Said(p)
      /\ Settled' = Settled
      /\ cards' = cards => Named' = Named
  BY DEF Said, Settled, Named
<1>2. ASSUME ToldKept, pc' = pc, Sound(raw') = Sound(raw), \A p \in Sound(raw) : raw'[p] = raw[p]
      PROVE  ToldKept'
  <2>1. Sound(raw)' = Sound(raw')
    BY DEF Sound
  <2>. QED  BY <1>1, <1>2, <2>1 DEF ToldKept
<1>. QED  BY <1>1, <1>2

LEMMA RunStarts == Init => RunInv
<1>. SUFFICES ASSUME Init PROVE RunInv
  OBVIOUS
<1>1. opened = <<>> /\ Len(opened) = 0 /\ OpenedIds = {} /\ opened \in Seq(Candidates)
  BY DEF Init, OpenedIds, ToSet
<1>2. Opened
  BY <1>1, QualificationAssumption DEF Init, Opened
<1>3. Batch
  BY DEF Init, Batch
<1>4. Brought /\ ToldKept /\ CardsMade
  BY DEF Init, Brought, ToldKept, CardsMade
<1>. QED  BY <1>2, <1>3, <1>4 DEF RunInv

LEMMA OpensPageKeeps == RunInv /\ OpensPage => RunInv'
<1>. SUFFICES ASSUME RunInv, OpensPage PROVE RunInv'
  OBVIOUS
<1>. USE DEF RunInv, OpensPage, batch, results
<1>1. pc = "fetch" /\ ~busy /\ Wanted /\ MayFetch(fetches)
  BY DEF Batch, Asking
<1>2. Opened'
  <2>1. fetches' \in 0 .. MaxFetches /\ calls' \in 0 .. MaxCalls
    BY <1>1, QualificationAssumption DEF MayFetch, Opened
  <2>2. CASE cancelled
    BY <1>1, <2>1, <2>2 DEF Opened, OpenedIds, pages
  <2>3. CASE ~cancelled
    <3>1. opened' = Append(opened, next) /\ next \in Candidates /\ opened \in Seq(Candidates)
      BY <1>1, <2>3 DEF Wanted, Opened
    <3>2. opened' \in Seq(Candidates) /\ Len(opened') = Len(opened) + 1
      BY <3>1
    <3>3. OpenedIds' = OpenedIds \cup {next}
      BY <3>1 DEF OpenedIds, ToSet
    <3>4. profiled' \subseteq profiled \cup {next} /\ pc' = pc
      BY <2>3
    <3>. QED  BY <1>1, <2>1, <3>2, <3>3, <3>4, QualificationAssumption DEF Opened, Wanted
  <2>. QED  BY <2>2, <2>3
<1>3. Batch'
  BY <1>1 DEF Batch
<1>4. Brought' /\ ToldKept' /\ CardsMade'
  <2>1. DOMAIN raw = {} /\ answers = answers' /\ pc' \in {"fetch", "cancelled"}
    BY <1>1 DEF Batch
  <2>2. OpenedIds \subseteq OpenedIds'
    <3>1. CASE cancelled
      BY <3>1 DEF OpenedIds, pages
    <3>2. CASE ~cancelled
      BY <3>2 DEF OpenedIds, ToSet, Opened
    <3>. QED  BY <3>1, <3>2
  <2>. QED  BY <1>1, <2>1, <2>2 DEF Brought, ToldKept, CardsMade
<1>. QED  BY <1>2, <1>3, <1>4

LEMMA PageFailsKeeps == RunInv /\ PageFails => RunInv'
BY QualificationAssumption
DEF RunInv, PageFails, batch, results, Opened, OpenedIds, MayFetch, Batch, Asking, Questions, Single,
    InBatch, Brought, ToldKept, CardsMade

LEMMA StopsFetchingKeeps == RunInv /\ StopsFetching => RunInv'
BY DEF Sound, Said, Settled, RunInv, StopsFetching, batch, results, budget, pages, Opened,
    OpenedIds, Batch, Asking, InBatch, Brought, ToldKept, CardsMade

LEMMA StartsBatchKeeps == RunInv /\ StartsBatch => RunInv'
<1>. SUFFICES ASSUME RunInv, StartsBatch PROVE RunInv'
  OBVIOUS
<1>1. InBatch' = InBatch /\ \A p : Qualified(p)' = Qualified(p) /\ EvidenceOf(p)' = EvidenceOf(p)
  BY CardsDepend DEF StartsBatch, pages, results, InBatch
<1>2. Opened'
  BY QualificationAssumption DEF RunInv, StartsBatch, pages, MayCall, Opened, OpenedIds
<1>3. Questions'
  BY <1>1 DEF StartsBatch, Questions
<1>4. Batch'
  BY <1>3 DEF RunInv, StartsBatch, pages, Batch, Asking
<1>5. ToldKept'
  BY ResultsStay DEF RunInv, StartsBatch, Batch, results
<1>6. Brought' /\ CardsMade'
  BY <1>1, ResultsStay
  DEF RunInv, StartsBatch, pages, results, Batch, Asking, Brought, OpenedIds, CardsMade
<1>. QED  BY <1>2, <1>4, <1>5, <1>6 DEF RunInv

\* An answer taken brings what the model may say of pages of the batch: all that
\* is valid of the pages asked about, and of others what is not there yet.
LEMMA TakesBrings ==
  ASSUME RunInv, busy, NEW q \in ask, NEW say, NEW result \in Results(say), Takes(q, result)
  PROVE  /\ DOMAIN raw' \subseteq InBatch /\ q.items \cap Barred(q) = {}
         /\ Sound(raw') = Sound(raw) \cup (Sound(result) \ Barred(q))
         /\ \A p \in Sound(raw) : raw'[p] = raw[p]
         /\ \A p \in Sound(raw') \ Sound(raw) : raw'[p] = result[p]
         /\ \A p \in DOMAIN raw' :
              (p \in DOMAIN raw /\ raw'[p] = raw[p]) \/ raw'[p] \in say[p]
<1>. DEFINE fresh == [p \in DOMAIN result \ Barred(q) |-> result[p]]
<1>1. raw' = Merged(raw, fresh)
  BY DEF Takes
<1>2. /\ DOMAIN fresh \subseteq DOMAIN result /\ \A p \in DOMAIN fresh : fresh[p] = result[p]
      /\ Sound(fresh) = Sound(result) \ Barred(q)
  BY DEF Sound
<1>3. q.items \cap Barred(q) = {}
  BY DEF RunInv, Batch, Questions, Barred
<1>. HIDE DEF fresh
<1>4. DOMAIN result \subseteq InBatch /\ \A p \in DOMAIN result : result[p] \in say[p]
  BY ResultsAreOfTheBatch
<1>5. /\ DOMAIN raw' = DOMAIN raw \cup DOMAIN fresh
      /\ Sound(raw') = Sound(raw) \cup Sound(fresh)
      /\ \A p \in Sound(raw) : raw'[p] = raw[p]
      /\ \A p \in Sound(fresh) \ Sound(raw) : raw'[p] = fresh[p]
      /\ \A p \in DOMAIN raw' :
           \/ p \in DOMAIN raw /\ raw'[p] = raw[p]
           \/ p \in DOMAIN fresh /\ raw'[p] = fresh[p]
  BY <1>1 DEF Merged, Sound
<1>6. DOMAIN raw' \subseteq InBatch
  BY <1>2, <1>4, <1>5 DEF RunInv, Brought
<1>7. \A p \in Sound(raw') \ Sound(raw) : raw'[p] = result[p]
  <2>1. Sound(fresh) \subseteq DOMAIN fresh
    BY DEF Sound
  <2>. QED  BY <1>2, <1>5, <2>1
<1>8. \A p \in DOMAIN raw' : (p \in DOMAIN raw /\ raw'[p] = raw[p]) \/ raw'[p] \in say[p]
  BY <1>2, <1>4, <1>5
<1>. QED  BY <1>2, <1>3, <1>5, <1>6, <1>7, <1>8

\* An answer about a page asked about, or the first stray one, is what counts,
\* and what counted before counts still.
LEMMA HistoryGrows ==
  ASSUME NEW q, NEW result, q.items \cap Barred(q) = {},
         told' = Over(told, [p \in Sound(result) \cap q.items |-> result[p]]),
         strays' = Over(strays, [p \in (Sound(result) \ q.items) \ (DOMAIN told \cup Barred(q))
                                   |-> result[p]])
  PROVE  /\ DOMAIN told' \cup DOMAIN strays'
               = DOMAIN told \cup DOMAIN strays \cup (Sound(result) \ Barred(q))
         /\ \A p \in DOMAIN told \cup DOMAIN strays : Said(p)' = Said(p)
         /\ \A p \in (Sound(result) \ Barred(q)) \ (DOMAIN told \cup DOMAIN strays) :
              Said(p)' = result[p]
<1>. DEFINE valid == Sound(result)
            items == q.items
            barred == Barred(q)
            early == (valid \ items) \ (DOMAIN told \cup barred)
<1>1. /\ DOMAIN told' = DOMAIN told \cup (valid \cap items)
      /\ \A p \in DOMAIN told : told'[p] = told[p]
      /\ \A p \in (valid \cap items) \ DOMAIN told : told'[p] = result[p]
  BY DEF Over
<1>2. /\ DOMAIN strays' = DOMAIN strays \cup early
      /\ \A p \in DOMAIN strays : strays'[p] = strays[p]
      /\ \A p \in early \ DOMAIN strays : strays'[p] = result[p]
  BY DEF Over
<1>3. DOMAIN told' \cup DOMAIN strays' = DOMAIN told \cup DOMAIN strays \cup (valid \ barred)
  BY <1>1, <1>2
<1>4. ASSUME NEW p \in DOMAIN told \cup DOMAIN strays PROVE Said(p)' = Said(p)
  BY <1>1, <1>2 DEF Said
<1>5. ASSUME NEW p \in (valid \ barred) \ (DOMAIN told \cup DOMAIN strays)
      PROVE  Said(p)' = result[p]
  BY <1>1, <1>2 DEF Said
<1>. QED  BY <1>3, <1>4, <1>5

LEMMA AssessesKeeps == RunInv /\ Assesses => RunInv'
<1>. SUFFICES ASSUME RunInv, Assesses PROVE RunInv'
  OBVIOUS
<1>1. pc = "qualify" /\ pc' = pc /\ UNCHANGED <<budget, pages, offset, busy, answers, verdicts, cards>>
  BY DEF Assesses
<1>2. PICK q \in ask, result \in Results(Assessments) :
        /\ Takes(q, result)
        /\ told' = Over(told, [p \in Sound(result) \cap q.items |-> result[p]])
        /\ strays' = Over(strays, [p \in (Sound(result) \ q.items) \ (DOMAIN told \cup Barred(q))
                                     |-> result[p]])
  BY DEF Assesses, Sound
<1>3. busy
  BY <1>2 DEF RunInv, Batch
<1>4. InBatch' = InBatch /\ OpenedIds' = OpenedIds
  BY <1>1 DEF InBatch, OpenedIds, pages
<1>5. Opened'
  BY <1>1, <1>4 DEF RunInv, Opened, budget, pages
<1>6. Questions'
  BY <1>1, <1>2, <1>3, QuestionsTaken DEF RunInv, pages
<1>7. Batch'
  BY <1>1, <1>3, <1>6 DEF RunInv, Batch, Asking, pages
<1>8. /\ DOMAIN raw' \subseteq InBatch /\ q.items \cap Barred(q) = {}
      /\ Sound(raw') = Sound(raw) \cup (Sound(result) \ Barred(q))
      /\ \A p \in Sound(raw) : raw'[p] = raw[p]
      /\ \A p \in Sound(raw') \ Sound(raw) : raw'[p] = result[p]
      /\ \A p \in DOMAIN raw' :
           (p \in DOMAIN raw /\ raw'[p] = raw[p]) \/ raw'[p] \in Assessments[p]
  BY <1>2, <1>3, TakesBrings
<1>9. \A p \in DOMAIN raw' : raw'[p] \in AnswersTo[p] \cup {Invalid_}
  BY <1>1, <1>8 DEF RunInv, Brought, Assessments
<1>10. Brought'
  BY <1>1, <1>4, <1>8, <1>9 DEF RunInv, Brought
<1>11. ToldKept'
  <2>1. /\ DOMAIN told' \cup DOMAIN strays'
             = DOMAIN told \cup DOMAIN strays \cup (Sound(result) \ Barred(q))
        /\ \A p \in DOMAIN told \cup DOMAIN strays : Said(p)' = Said(p)
        /\ \A p \in (Sound(result) \ Barred(q)) \ (DOMAIN told \cup DOMAIN strays) :
             Said(p)' = result[p]
    BY <1>2, <1>8, HistoryGrows
  <2>2. /\ DOMAIN told \cup DOMAIN strays = DOMAIN answers \cup Sound(raw)
        /\ \A p \in DOMAIN answers : answers[p] = Said(p)
        /\ \A p \in Sound(raw) \ DOMAIN answers : raw[p] = Said(p)
    BY <1>1 DEF RunInv, ToldKept
  <2>3. DOMAIN told' \cup DOMAIN strays' = DOMAIN answers' \cup Sound(raw')
    BY <1>1, <1>8, <2>1, <2>2
  <2>4. \A p \in DOMAIN answers' : answers'[p] = Said(p)'
    BY <1>1, <2>1, <2>2
  <2>5. ASSUME NEW p \in Sound(raw') \ DOMAIN answers' PROVE raw'[p] = Said(p)'
    <3>1. CASE p \in Sound(raw)
      BY <1>1, <1>8, <2>1, <2>2, <3>1
    <3>2. CASE p \notin Sound(raw)
      BY <1>1, <1>8, <2>1, <2>2, <3>2
    <3>. QED  BY <3>1, <3>2
  <2>6. Sound(raw)' = Sound(raw')
    BY DEF Sound
  <2>. QED  BY <1>1, <2>3, <2>4, <2>5, <2>6 DEF ToldKept
<1>12. CardsMade'
  BY <1>1 DEF RunInv, CardsMade
<1>. QED  BY <1>5, <1>7, <1>10, <1>11, <1>12 DEF RunInv

LEMMA AuditsKeeps == RunInv /\ Audits => RunInv'
<1>. SUFFICES ASSUME RunInv, Audits PROVE RunInv'
  OBVIOUS
<1>1. pc = "verify" /\ pc' = pc /\ UNCHANGED <<budget, pages, offset, busy, results>>
  BY DEF Audits
<1>2. PICK q \in ask, result \in Results(Judgements) : Takes(q, result)
  BY DEF Audits
<1>3. busy
  BY <1>2 DEF RunInv, Batch
<1>4. InBatch' = InBatch /\ OpenedIds' = OpenedIds
  BY <1>1 DEF InBatch, OpenedIds, pages
<1>5. Opened'
  BY <1>1, <1>4 DEF RunInv, Opened, budget, pages
<1>6. Questions'
  BY <1>1, <1>2, <1>3, QuestionsTaken DEF RunInv, pages
<1>7. Batch'
  BY <1>1, <1>3, <1>6 DEF RunInv, Batch, Asking, pages
<1>8. DOMAIN raw' \subseteq InBatch
  BY <1>2, <1>3, TakesBrings
<1>9. Brought' /\ ToldKept'
  <2>1. ToldKept'
    BY <1>1, ResultsStay DEF RunInv, ToldKept, results
  <2>. QED  BY <1>1, <1>4, <1>8, <2>1 DEF RunInv, Brought, results
<1>10. \A p : Qualified(p)' = Qualified(p)
  BY <1>1, CardsDepend DEF results, pages
<1>11. CardsMade'
  BY <1>1, <1>4, <1>10 DEF RunInv, CardsMade, results
<1>. QED  BY <1>5, <1>7, <1>9, <1>11 DEF RunInv

LEMMA HalvesKeeps == RunInv /\ Halves => RunInv'
<1>. SUFFICES ASSUME RunInv, Halves PROVE RunInv'
  OBVIOUS
<1>1. Asking /\ UNCHANGED <<pc, budget, pages, offset, busy, raw, results>> /\ busy
  BY DEF Halves, RunInv, Batch
<1>2. InBatch' = InBatch /\ OpenedIds' = OpenedIds
  BY <1>1 DEF InBatch, OpenedIds, pages
<1>3. Questions'
  BY <1>1, QuestionsHalved DEF RunInv
<1>4. \A p : Qualified(p)' = Qualified(p) /\ EvidenceOf(p)' = EvidenceOf(p)
  BY <1>1, CardsDepend DEF results, pages
<1>5. Opened' /\ Batch'
  BY <1>1, <1>2, <1>3 DEF RunInv, Opened, Batch, Asking, budget, pages
<1>6. Brought' /\ ToldKept' /\ CardsMade'
  <2>1. ToldKept'
    BY <1>1, ResultsStay DEF RunInv, results
  <2>. QED  BY <1>1, <1>2, <1>4, <2>1 DEF RunInv, Brought, CardsMade, results, Asking
<1>. QED  BY <1>5, <1>6 DEF RunInv

LEMMA BringsNothingKeeps == RunInv /\ BringsNothing => RunInv'
<1>. SUFFICES ASSUME RunInv, BringsNothing PROVE RunInv'
  OBVIOUS
<1>1. Asking /\ UNCHANGED <<pc, budget, pages, offset, busy, answered, raw, results>> /\ busy
  BY DEF BringsNothing, RunInv, Batch
<1>2. InBatch' = InBatch /\ OpenedIds' = OpenedIds
  BY <1>1 DEF InBatch, OpenedIds, pages
<1>3. PICK q \in ask : ask' = ask \ {q}
  BY DEF BringsNothing
<1>4. asked' = asked + 1
  BY DEF BringsNothing
<1>5. Questions
  BY <1>1 DEF RunInv, Batch
<1>6. \A o \in ask' : o.again => o.items \cap answered' = {}
  BY <1>1, <1>3, <1>5 DEF Questions
<1>7. ASSUME asked = 0, ask = {[items |-> InBatch, again |-> FALSE]} PROVE Questions'
  <2>1. q = [items |-> InBatch, again |-> FALSE]
    BY <1>3, <1>7
  <2>2. ask' = {}
    BY <1>3, <1>7, <2>1
  <2>3. asked' = 1
    BY <1>4, <1>7
  <2>4. IsFiniteSet(ask') /\ Cardinality(ask') = 0
    BY <2>2, FS_EmptySet
  <2>. QED  BY <2>2, <2>3, <2>4 DEF Questions
<1>8. ASSUME asked \in Nat, IsFiniteSet(ask), asked + Cardinality(ask) <= 3, \A o \in ask : Single(o)
      PROVE  Questions'
  <2>1. IsFiniteSet(ask') /\ Cardinality(ask') = Cardinality(ask) - 1 /\ Cardinality(ask) \in Nat
    BY <1>3, <1>8, FS_RemoveElement, FS_CardinalityType
  <2>2. asked' \in Nat /\ asked' + Cardinality(ask') <= 3
    BY <1>4, <1>8, <2>1
  <2>3. \A o \in ask' : Single(o)'
    BY <1>2, <1>3, <1>8 DEF Single
  <2>. QED  BY <1>6, <2>1, <2>2, <2>3 DEF Questions, Single
<1>10. Questions'
  BY <1>5, <1>7, <1>8 DEF Questions
<1>11. \A p : Qualified(p)' = Qualified(p) /\ EvidenceOf(p)' = EvidenceOf(p)
  BY <1>1, CardsDepend DEF results, pages
<1>12. Opened' /\ Batch'
  BY <1>1, <1>2, <1>10 DEF RunInv, Opened, Batch, Asking, budget, pages
<1>13. Brought' /\ ToldKept' /\ CardsMade'
  <2>1. ToldKept'
    BY <1>1, ResultsStay DEF RunInv, results
  <2>. QED  BY <1>1, <1>2, <1>11, <2>1 DEF RunInv, Brought, CardsMade, results, Asking
<1>. QED  BY <1>12, <1>13 DEF RunInv

LEMMA EndsBatchKeeps == RunInv /\ EndsBatch => RunInv'
<1>. SUFFICES ASSUME RunInv, EndsBatch PROVE RunInv'
  OBVIOUS
<1>. DEFINE valid == {p \in DOMAIN raw : raw[p] # Invalid_}
            kept(old) == Over(old, [p \in valid |-> raw[p]])
<1>1. Asking /\ UNCHANGED <<budget, pages, cards, told, strays>> /\ Idle
  BY DEF EndsBatch
<1>2. \/ pc' = "cancelled" /\ UNCHANGED <<offset, answers, verdicts>>
      \/ /\ pc' = pc /\ offset' = offset + BatchSize
         /\ answers' = IF pc = "qualify" THEN kept(answers) ELSE answers
         /\ verdicts' = IF pc = "verify" THEN kept(verdicts) ELSE verdicts
  BY DEF EndsBatch
<1>3. OpenedIds' = OpenedIds /\ InBatch \subseteq OpenedIds
  BY <1>1 DEF InBatch, OpenedIds, ToSet, pages
<1>4. \A old : /\ DOMAIN kept(old) = DOMAIN old \cup valid
               /\ \A p \in DOMAIN old : kept(old)[p] = old[p]
               /\ \A p \in valid \ DOMAIN old : kept(old)[p] = raw[p]
  BY DEF Over
<1>5. valid \subseteq OpenedIds /\ (pc = "qualify" => \A p \in valid : raw[p] \in AnswersTo[p])
  BY <1>3 DEF RunInv, Brought
<1>. HIDE DEF kept
<1>10. DOMAIN raw' = {}
  BY <1>1 DEF Idle
<1>6. Opened' /\ Batch'
  <2>1. pc' \in {"qualify", "verify", "cancelled"}
    BY <1>1, <1>2 DEF Asking
  <2>2. offset' \in Nat
    BY <1>2 DEF RunInv, Batch, BatchSize
  <2>3. Opened'
    BY <1>1, <1>3, <2>1 DEF RunInv, Opened, budget, pages
  <2>. QED  BY <1>1, <2>2, <2>3 DEF Batch, Idle
<1>11. \A p : Said(p)' = Said(p)
  BY <1>1 DEF Said
<1>7. CASE pc' = "cancelled" /\ UNCHANGED <<offset, answers, verdicts>>
  <2>1. Settled' = Settled /\ Named' = Named
    BY <1>1, <1>7, ResultsStay
  <2>2. pc = "verify" => \A p \in DOMAIN answers : Qualified(p).name = answers[p].name
    BY DEF Qualified
  <2>3. pc = "verify" => Named /\ Settled
    BY <2>2 DEF RunInv, CardsMade, ToldKept, Brought, Named
  <2>4. CardsMade'
    BY <1>1, <1>3, <1>7, <2>1, <2>3 DEF RunInv, CardsMade, Asking
  <2>. QED
  BY <1>1, <1>3, <1>6, <1>7, <2>4
  DEF RunInv, Brought, ToldKept, Idle, Asking
<1>8. CASE pc' = pc /\ pc = "qualify" /\ answers' = kept(answers) /\ verdicts' = verdicts
  <2>1. Brought'
    <3>1. DOMAIN answers' = DOMAIN answers \cup valid
      BY <1>4, <1>8
    <3>2. \A p \in DOMAIN answers' : answers'[p] \in AnswersTo[p]
      BY <1>4, <1>5, <1>8, <3>1 DEF RunInv, Brought
    <3>. QED  BY <1>3, <1>5, <1>8, <1>10, <3>1, <3>2 DEF RunInv, Brought
  <2>2. /\ DOMAIN told \cup DOMAIN strays = DOMAIN answers \cup valid
        /\ \A p \in DOMAIN answers : answers[p] = Said(p)
        /\ \A p \in valid \ DOMAIN answers : raw[p] = Said(p)
    BY <1>8 DEF RunInv, ToldKept, Sound
  <2>3. Sound(raw') = {}
    BY <1>10 DEF Sound
  <2>4. /\ DOMAIN answers' = DOMAIN told' \cup DOMAIN strays'
        /\ \A p \in DOMAIN answers' : answers'[p] = Said(p)'
    BY <1>1, <1>4, <1>8, <1>11, <2>2
  <2>5. ToldKept'
    BY <1>8, <2>3, <2>4 DEF ToldKept
  <2>6. CardsMade'
    BY <1>1, <1>8 DEF RunInv, CardsMade
  <2>. QED  BY <1>6, <2>1, <2>5, <2>6 DEF RunInv
<1>9. CASE pc' = pc /\ pc = "verify" /\ answers' = answers /\ verdicts' = kept(verdicts)
  <2>1. Brought'
    <3>1. DOMAIN verdicts' = DOMAIN verdicts \cup valid
      BY <1>4, <1>9
    <3>2. \A p \in DOMAIN answers' : answers'[p] \in AnswersTo[p]
      BY <1>4, <1>5, <1>9 DEF RunInv, Brought
    <3>. QED  BY <1>3, <1>5, <1>9, <1>10, <3>1, <3>2 DEF RunInv, Brought
  <2>2. \A p : Qualified(p)' = Qualified(p)
    BY <1>1, <1>9, CardsDepend DEF pages
  <2>3. ToldKept'
    BY <1>1, <1>9, ResultsStay DEF RunInv, ToldKept
  <2>4. CardsMade'
    BY <1>1, <1>3, <1>9, <2>2 DEF RunInv, CardsMade
  <2>. QED  BY <1>6, <2>1, <2>3, <2>4 DEF RunInv
<1>. QED  BY <1>1, <1>2, <1>7, <1>8, <1>9 DEF Asking

LEMMA MakesCardsKeeps == RunInv /\ MakesCards => RunInv'
<1>. SUFFICES ASSUME RunInv, MakesCards PROVE RunInv'
  OBVIOUS
<1>1. /\ pc = "qualify" /\ pc' = "verify" /\ ~busy /\ offset' = 0
      /\ UNCHANGED <<budget, pages, ask, busy, answered, raw, asked, answers, verdicts, told, strays>>
  BY DEF MakesCards, NoMoreBatches
<1>2. OpenedIds' = OpenedIds /\ DOMAIN raw = {}
  BY <1>1 DEF OpenedIds, pages, RunInv, Batch
<1>3. \A p : Qualified(p)' = Qualified(p)
  BY <1>1, CardsDepend DEF pages
<1>4. cards' = [p \in OpenedIds |-> Qualified(p)]
  BY DEF MakesCards, OpenedIds
<1>7. Sound(raw) = {}
  BY <1>2 DEF Sound
<1>8. Settled'
  BY <1>1, <1>7, ResultsStay DEF RunInv, ToldKept, Settled
<1>5. Opened' /\ Batch' /\ Brought' /\ ToldKept'
  BY <1>1, <1>2, <1>8 DEF RunInv, Opened, Batch, Brought, ToldKept, budget, pages
<1>6. CardsMade'
  BY <1>1, <1>2, <1>3, <1>4 DEF CardsMade
<1>. QED  BY <1>5, <1>6 DEF RunInv

\* What is eligible in the end was confirmed by the auditor.
LEMMA ConcludesKeeps == RunInv /\ pc = "verify" /\ Concludes => RunInv'
<1>. SUFFICES ASSUME RunInv, pc = "verify", Concludes PROVE RunInv'
  OBVIOUS
<1>1. /\ pc' = "register" /\ Idle /\ cards' = [p \in DOMAIN cards |-> Judged(p)]
      /\ UNCHANGED <<budget, pages, offset, answers, verdicts, told, strays>>
  BY DEF Concludes
<1>2. OpenedIds' = OpenedIds /\ DOMAIN raw' = {}
  BY <1>1 DEF OpenedIds, pages, Idle
<1>3. \A p : Qualified(p)' = Qualified(p) /\ EvidenceOf(p)' = EvidenceOf(p)
  BY <1>1, CardsDepend DEF pages
<1>9. Settled'
  BY <1>1, ResultsStay DEF RunInv, ToldKept
<1>4. Opened' /\ Batch' /\ Brought' /\ ToldKept'
  BY <1>1, <1>2, <1>9 DEF RunInv, Opened, Batch, Brought, ToldKept, Idle, budget, pages
<1>5. cards = [p \in OpenedIds |-> Qualified(p)]
  BY DEF RunInv, CardsMade
<1>6. DOMAIN cards' = OpenedIds'
  BY <1>1, <1>2, <1>5
<1>7. ASSUME NEW p \in OpenedIds', cards'[p].eligible
      PROVE  /\ p \in DOMAIN verdicts'
             /\ Audited(p, Qualified(p).eligible, EvidenceOf(p), verdicts[p])' = "confirmed"
  <2>1. p \in OpenedIds /\ cards'[p] = Judged(p) /\ cards[p] = Qualified(p)
    BY <1>1, <1>2, <1>5, <1>7
  <2>2. Qualified(p) = [name |-> Qualified(p).name, country |-> Qualified(p).country,
                        score |-> Qualified(p).score, eligible |-> Qualified(p).eligible,
                        audit |-> Qualified(p).audit]
    BY DEF Qualified
  <2>3. p \in DOMAIN verdicts
    BY <1>7, <2>1, <2>2 DEF Judged
  <2>4. Audited(p, Qualified(p).eligible, EvidenceOf(p), verdicts[p]) = "confirmed"
    <3>. DEFINE audit == Audited(p, cards[p].eligible, EvidenceOf(p), verdicts[p])
    <3>1. Judged(p) = [cards[p] EXCEPT !.audit = audit, !.eligible = audit = "confirmed"]
      BY <2>3 DEF Judged
    <3>2. audit = Audited(p, Qualified(p).eligible, EvidenceOf(p), verdicts[p])
      BY <2>1
    <3>. HIDE DEF audit
    <3>3. Judged(p).eligible = (audit = "confirmed")
      BY <2>1, <2>2, <3>1
    <3>. QED  BY <1>7, <2>1, <3>2, <3>3
  <2>5. Audited(p, Qualified(p).eligible, EvidenceOf(p), verdicts[p])'
          = Audited(p, Qualified(p)'.eligible, EvidenceOf(p)', verdicts'[p])
    OBVIOUS
  <2>. QED  BY <1>1, <1>3, <2>3, <2>4, <2>5
<1>10. ASSUME NEW p \in DOMAIN answers' PROVE cards'[p].name = answers'[p].name
  <2>1. p \in OpenedIds /\ cards'[p] = Judged(p) /\ cards[p] = Qualified(p)
    BY <1>1, <1>5, <1>10 DEF RunInv, Brought
  <2>2. Qualified(p).name = answers[p].name
    BY <1>1, <1>10 DEF Qualified
  <2>3. Judged(p).name = cards[p].name
    <3>1. \A value : [cards[p] EXCEPT !.audit = value, !.eligible = value = "confirmed"].name = cards[p].name
      BY <2>1 DEF Qualified
    <3>2. [cards[p] EXCEPT !.audit = "unavailable", !.eligible = FALSE].name = cards[p].name
      BY <2>1 DEF Qualified
    <3>. QED  BY <3>1, <3>2 DEF Judged
  <2>. QED  BY <1>1, <2>1, <2>2, <2>3
<1>8. CardsMade'
  BY <1>1, <1>6, <1>7, <1>10 DEF CardsMade, Named
<1>. QED  BY <1>4, <1>8 DEF RunInv

LEMMA CallFailsKeeps == RunInv /\ CallFails => RunInv'
<1>. SUFFICES ASSUME RunInv, CallFails PROVE RunInv'
  OBVIOUS
<1>1. CASE pc = "verify" /\ Concludes
  BY <1>1, ConcludesKeeps
<1>2. CASE pc = "qualify" /\ pc' = "failed" /\ Idle /\ UNCHANGED <<budget, pages, offset, results>>
  <2>1. OpenedIds' = OpenedIds /\ DOMAIN raw' = {}
    BY <1>2 DEF OpenedIds, pages, Idle
  <2>. QED
    BY <1>2, <2>1
    DEF RunInv, Opened, Batch, Brought, ToldKept, CardsMade, Idle, budget, pages, results
<1>. QED  BY <1>1, <1>2 DEF CallFails

LEMMA OthersKeep ==
  RunInv /\ (Cancel \/ RunsOut \/ (\E s \in Sessions : Registers(s)) \/ UNCHANGED vars) => RunInv'
<1>. SUFFICES ASSUME RunInv, Cancel \/ RunsOut \/ (\E s \in Sessions : Registers(s)) \/ UNCHANGED vars
     PROVE  RunInv'
  OBVIOUS
<1>1. UNCHANGED <<pc, fetches, calls, pages, batch, results>>
  BY DEF Cancel, RunsOut, Registers, vars, budget
<1>2. OpenedIds' = OpenedIds /\ InBatch' = InBatch
  BY <1>1 DEF OpenedIds, InBatch, pages, batch
<1>3. \A p : Qualified(p)' = Qualified(p) /\ EvidenceOf(p)' = EvidenceOf(p)
  BY <1>1, CardsDepend DEF pages, results
<1>7. ToldKept'
  BY <1>1, ResultsStay DEF RunInv, batch, results
<1>4. Opened' /\ Brought'
  BY <1>1, <1>2 DEF RunInv, Opened, Brought, pages, batch, results
<1>5. Batch'
  BY <1>1, <1>2 DEF RunInv, Batch, Asking, Questions, Single, pages, batch
<1>6. CardsMade'
  BY <1>1, <1>2, <1>3, ResultsStay DEF RunInv, CardsMade, results
<1>. QED  BY <1>4, <1>5, <1>6, <1>7 DEF RunInv

\* The invariant of the run holds whatever the model, the budget and the people
\* do (execute_supplier_qualification).
THEOREM RunKept == Spec => []RunInv
<1>1. RunInv /\ [Next]_vars => RunInv'
  BY OpensPageKeeps, PageFailsKeeps, StopsFetchingKeeps, StartsBatchKeeps, AssessesKeeps,
     AuditsKeeps, HalvesKeeps, BringsNothingKeeps, CallFailsKeeps, EndsBatchKeeps, MakesCardsKeeps,
     ConcludesKeeps, OthersKeep
  DEF Next, EndsAudit
<1>. QED  BY RunStarts, <1>1, PTL DEF Spec

\* However the answers come, in one piece, halved, repeated or about the wrong
\* page, every opened page has one card, and a card goes by the first valid answer
\* about its page: the one to the question about it, or the first that named it in
\* reply to another question before that.  A run that fails has no card (the
\* batches of execute_supplier_qualification and _ask_again_for_missing).
THEOREM FirstAnswerStands == Spec => []AnswersKept
<1>1. ASSUME RunInv, cards # <<>> \/ pc \in {"verify", "register"}
      PROVE  DOMAIN cards = OpenedIds /\ Settled /\ Named
  <2>1. CASE pc = "verify"
    <3>1. cards = [p \in OpenedIds |-> Qualified(p)] /\ Settled /\ DOMAIN answers \subseteq OpenedIds
      BY <1>1, <2>1 DEF RunInv, ToldKept, CardsMade, Brought
    <3>2. \A p \in DOMAIN answers : Qualified(p).name = answers[p].name
      BY DEF Qualified
    <3>. QED  BY <3>1, <3>2 DEF Named
  <2>2. CASE pc # "verify"
    BY <1>1, <2>2 DEF RunInv, Opened, ToldKept, CardsMade
  <2>. QED  BY <2>1, <2>2
<1>2. RunInv => AnswersKept
  BY <1>1 DEF RunInv, CardsMade, AnswersKept, Settled, Said, Named
<1>. QED  BY RunKept, <1>2, PTL

\* A page as it was read is a page, and its volume is its own.
LEMMA PageIsRead ==
  ASSUME NEW p \in Candidates
  PROVE  Facts[p] \in Pages /\ PageOf(p).volume = Facts[p].volume
         /\ PageOf(p).place = Facts[p].place /\ PageOf(p).long = Facts[p].long
<1>1. Facts[p] \in Pages
  BY QualificationAssumption DEF Candidates
<1>2. \A page \in Pages :
        [page EXCEPT !.says = page.says \cup page.tells].volume = page.volume
        /\ [page EXCEPT !.says = page.says \cup page.tells].place = page.place
        /\ [page EXCEPT !.says = page.says \cup page.tells].long = page.long
  BY DEF Pages
<1>. QED  BY <1>1, <1>2 DEF PageOf, AsRead

\* What the gates and the score make eligible is proven by the page of the
\* candidate and by nothing quoted from another.
LEMMA EligibleIsProven ==
  ASSUME Opened, NEW p \in OpenedIds, Qualified(p).eligible
  PROVE  LET ev == EvidenceOf(p) IN
         /\ Facts[p].long /\ Facts[p].place # "listing"
         /\ \E c \in answers[p].claims :
              c.what = "manufacturer_role" /\ c.side = "supports" /\ c.page = p /\ c.quoted
         /\ "chemical_identity" \in ev.supports \ ev.contradicts
         /\ (Docs \cup Details) \cap ev.supports # {}
         /\ ~ev.abroad /\ Facts[p].volume # "incompatible"
         /\ ("sourcing" \in PageOf(p).says /\ "permit" \notin PageOf(p).says)
              => Details \cap ev.supports = {}
<1>. DEFINE page == PageOf(p)
            ev == EvidenceOf(p)
            card == Gates(page, answers[p], ev)
<1>1. p \in Candidates /\ Facts[p] \in Pages
  BY PageIsRead DEF Opened, OpenedIds, ToSet
<1>2. p \in DOMAIN answers /\ Eligible(page, card, ev)
  BY DEF Qualified
<1>3. ev = Evidence(p, Facts[p], answers[p], p \in profiled)
  BY <1>2 DEF EvidenceOf
<1>4. /\ ~Excluded(card, ev) /\ card.type = "manufacturer" /\ page.volume # "incompatible"
      /\ {"chemical_identity", "manufacturer_role"} \subseteq ev.supports
      /\ (Docs \cup Details) \cap ev.supports # {} /\ card.country # "mismatch"
  BY <1>2 DEF Eligible
<1>5. \E c \in answers[p].claims :
        c.what = "manufacturer_role" /\ c.side = "supports" /\ c.page = p /\ c.quoted
  BY <1>1, <1>3, <1>4, RoleIsQuoted
<1>. HIDE DEF page, ev
<1>6. /\ page.place # "listing" /\ page.long /\ Role(page, answers[p], ev)[1] = "manufacturer"
      /\ card.country = Country(page, answers[p], ev)
  BY <1>4, GatesAreShut
<1>7. "chemical_identity" \notin ev.contradicts
  BY <1>4 DEF Excluded
<1>8. ~ev.abroad
  BY <1>4, <1>6, CountryStands
<1>9. "sourcing" \in page.says /\ "permit" \notin page.says => Details \cap ev.supports = {}
  BY <1>6, RoleIsUndisputed
<1>. QED  BY <1>1, <1>4, <1>5, <1>6, <1>7, <1>8, <1>9, PageIsRead DEF page, ev

\* A company of the shortlist is proven by its own page twice: by the gates and
\* the score, and by the auditor (apply_supplier_verification) with claims of
\* this candidate alone.
THEOREM ShortlistIsProven == Spec => []ShortlistProven
<1>1. ASSUME RunInv, pc = "register", NEW p \in DOMAIN cards, cards[p].eligible
      PROVE  LET ev == EvidenceOf(p) IN
             /\ p \in OpenedIds /\ Facts[p].long /\ Facts[p].place # "listing"
             /\ \E c \in answers[p].claims :
                  c.what = "manufacturer_role" /\ c.side = "supports" /\ c.page = p /\ c.quoted
             /\ "chemical_identity" \in ev.supports \ ev.contradicts
             /\ (Docs \cup Details) \cap ev.supports # {}
             /\ ~ev.abroad /\ Facts[p].volume # "incompatible"
             /\ ("sourcing" \in PageOf(p).says /\ "permit" \notin PageOf(p).says)
                  => Details \cap ev.supports = {}
             /\ verdicts[p].status = "confirmed" /\ verdicts[p].cites # {}
             /\ \A id \in verdicts[p].cites : id[1] = p
  <2>1. /\ p \in OpenedIds
        /\ Audited(p, Qualified(p).eligible, EvidenceOf(p), verdicts[p]) = "confirmed"
    BY <1>1 DEF RunInv, CardsMade
  <2>2. Qualified(p).eligible \in BOOLEAN
    BY DEF Qualified, Eligible
  <2>3. /\ Qualified(p).eligible /\ verdicts[p].status = "confirmed" /\ verdicts[p].cites # {}
        /\ \A id \in verdicts[p].cites : id[1] = p
    BY <2>1, <2>2, AuditIsOwn
  <2>. QED  BY <1>1, <2>1, <2>3, EligibleIsProven DEF RunInv
<1>2. RunInv => ShortlistProven
  BY <1>1 DEF ShortlistProven
<1>. QED  BY RunKept, <1>2, PTL

-----------------------------------------------------------------------------
(* The invariant of the registry. *)

\* The rows of the registry, and the copies sessions have written of them.
Versions ==
  {<<i, row[i]>> : i \in DOMAIN row}
    \cup UNION {{<<i, own[s][i]>> : i \in DOMAIN own[s]} : s \in Sessions}

Active(s) == at[s] \in {"look", "insert", "update", "link"}

RegistryTypes ==
  /\ nextId \in Nat \ {0} /\ DOMAIN row \subseteq 1 .. nextId - 1
  /\ at \in [Sessions -> {"idle", "look", "insert", "update", "link", "committed", "failed"}]
  /\ DOMAIN own = Sessions /\ DOMAIN found = Sessions
  /\ DOMAIN before = Sessions /\ DOMAIN queue = Sessions
  /\ \A s \in Sessions : DOMAIN own[s] \subseteq 1 .. nextId - 1
  /\ \A v \in Versions : v[2].named \in BOOLEAN
  /\ pc # "register" => at[Run] = "idle"

\* Who stored a row, and who has a copy of it: one session at a time.
Owners ==
  /\ \A i \in DOMAIN row :
       row[i].by = Nobody \/ (row[i].by \in Sessions /\ at[row[i].by] = "committed")
  /\ \A s \in Sessions :
       /\ DOMAIN own[s] # {} => Active(s)
       /\ before[s] \subseteq {t \in Sessions : at[t] = "committed"}
       /\ at[s] = "update" => found[s].id \in DOMAIN View(s)
  /\ \A s, t \in Sessions : s # t => DOMAIN own[s] \cap DOMAIN own[t] = {}

\* A copy has the name of the row, or gave it one.
Copies ==
  \A s \in Sessions : \A i \in DOMAIN own[s] :
    IF i \notin DOMAIN row THEN own[s][i].by = s
    ELSE /\ own[s][i].by = row[i].by
         /\ IF own[s][i].named THEN row[i].key = Nobody \/ row[i].named
            ELSE own[s][i].key = row[i].key /\ ~row[i].named

\* A row found without a name still has none, or was given one.
FoundUnnamed ==
  \A s \in Sessions : at[s] = "update" /\ found[s].read.key = Nobody =>
    View(s)[found[s].id].key = Nobody \/ View(s)[found[s].id].named

Apart(a, b) == a # Nobody /\ b # Nobody /\ a # b /\ Overlap(a, b)

\* Two rows of one name.
Distinct ==
  \A v, w \in Versions :
    v[1] # w[1] /\ v[2].key = w[2].key /\ v[2].key # Nobody =>
      v[2].named \/ w[2].named \/ Apart(v[2].by, w[2].by)

\* A session about to store a company has looked for its name.
LookedFor ==
  \A s \in Sessions : at[s] = "insert" =>
    \A v \in Versions : v[2].key = Card(s).key /\ v[2].key # Nobody =>
      v[2].named \/ Apart(v[2].by, s)

RegistryInv ==
  RegistryTypes /\ Owners /\ Copies /\ FoundUnnamed /\ Distinct /\ LookedFor

\* What a session sees is a row or its copy of it.
LEMMA SeesVersions ==
  ASSUME NEW s \in Sessions
  PROVE  /\ DOMAIN View(s) = DOMAIN own[s] \cup DOMAIN row
         /\ \A i \in DOMAIN own[s] : View(s)[i] = own[s][i]
         /\ \A i \in DOMAIN row \ DOMAIN own[s] : View(s)[i] = row[i]
         /\ \A i \in DOMAIN View(s) : <<i, View(s)[i]>> \in Versions
BY DEF View, Over, Versions

LEMMA VersionIs ==
  ASSUME NEW v \in Versions
  PROVE  \/ v[1] \in DOMAIN row /\ v[2] = row[v[1]]
         \/ \E s \in Sessions : v[1] \in DOMAIN own[s] /\ v[2] = own[s][v[1]]
BY DEF Versions

\* A session writes one row.
LEMMA Writes ==
  ASSUME NEW s \in Sessions, NEW id, NEW value, row' = row, own'[s] = Put(own[s], id, value),
         \A t \in Sessions : t # s => own'[t] = own[t]
  PROVE  /\ DOMAIN own'[s] = DOMAIN own[s] \cup {id} /\ own'[s][id] = value
         /\ \A i \in DOMAIN own[s] : i # id => own'[s][i] = own[s][i]
         /\ \A v \in Versions' : v \in Versions \/ v = <<id, value>>
<1>1. /\ DOMAIN own'[s] = DOMAIN own[s] \cup {id} /\ own'[s][id] = value
      /\ \A i \in DOMAIN own[s] : i # id => own'[s][i] = own[s][i]
  BY DEF Put
<1>2. ASSUME NEW v \in Versions', v # <<id, value>> PROVE v \in Versions
  BY <1>1, <1>2 DEF Versions
<1>. QED  BY <1>1, <1>2

\* A session has nothing written any more.
LEMMA Forgets ==
  ASSUME NEW s \in Sessions, DOMAIN own = Sessions, own' = [own EXCEPT ![s] = <<>>]
  PROVE  /\ DOMAIN own' = Sessions /\ DOMAIN own'[s] = {}
         /\ \A t \in Sessions : t # s => own'[t] = own[t]
OBVIOUS

\* Nothing is named Nobody, and nobody idle has stored a row.
LEMMA AuthorsAct ==
  ASSUME RegistryInv, NEW v \in Versions
  PROVE  \/ v[2].by = Nobody
         \/ v[2].by \in Sessions /\ (at[v[2].by] = "committed" \/ Active(v[2].by))
<1>1. CASE v[1] \in DOMAIN row /\ v[2] = row[v[1]]
  BY <1>1 DEF RegistryInv, Owners
<1>2. ASSUME NEW s \in Sessions, v[1] \in DOMAIN own[s], v[2] = own[s][v[1]]
      PROVE  \/ v[2].by = Nobody
             \/ v[2].by \in Sessions /\ (at[v[2].by] = "committed" \/ Active(v[2].by))
  <2>1. Active(s)
    BY <1>2 DEF RegistryInv, Owners
  <2>2. v[2].by = s \/ (v[1] \in DOMAIN row /\ v[2].by = row[v[1]].by)
    BY <1>2 DEF RegistryInv, Copies
  <2>. QED  BY <2>1, <2>2 DEF RegistryInv, Owners
<1>. QED  BY <1>1, <1>2, VersionIs

\* Whom a session starting now overlaps: those at work, and those to come.
LEMMA StartsBeside ==
  ASSUME RegistryInv, NEW s \in Sessions, Look(s), NEW a, NEW b, Apart(a, b),
         a \in Sessions, b \in Sessions, a # s \/ at[s] = "look", b # s \/ at[s] = "look"
  PROVE  Apart(a, b)'
BY DEF RegistryInv, RegistryTypes, Look, Apart, Overlap

LEMMA LookKeepsDistinct ==
  ASSUME RegistryInv, NEW s \in Sessions, Look(s)
  PROVE  Distinct'
<1>1. Versions' = Versions
  BY DEF Look, Versions
<1>2. ASSUME NEW v \in Versions, NEW w \in Versions,
             v[1] # w[1], v[2].key = w[2].key, v[2].key # Nobody,
             ~v[2].named, ~w[2].named
      PROVE  Apart(v[2].by, w[2].by)'
  <2>1. Apart(v[2].by, w[2].by)
    BY <1>2 DEF RegistryInv, Distinct
  <2>2. v[2].by \in Sessions /\ w[2].by \in Sessions
    BY <2>1, AuthorsAct DEF Apart
  <2>3. /\ v[2].by # s \/ at[s] = "look"
        /\ w[2].by # s \/ at[s] = "look"
    BY <2>1, AuthorsAct DEF Apart, Active, Look
  <2>. QED  BY <2>1, <2>2, <2>3, StartsBeside
<1>. QED  BY <1>1, <1>2 DEF Distinct

\* A session that finds no row of a name: whoever has written one is at work too.
LEMMA LookedIsLookedFor ==
  ASSUME RegistryInv, NEW s \in Sessions, Look(s), at'[s] = "insert", NEW v \in Versions,
         v[2].key = Card(s).key, v[2].key # Nobody, ~v[2].named
  PROVE  Apart(v[2].by, s)'
<1>1. SameName(s) = {}
  BY DEF Look, RegistryInv, RegistryTypes
<1>2. \A i \in DOMAIN View(s) : View(s)[i].key # Card(s).key
  BY <1>1 DEF SameName
<1>3. \A i \in DOMAIN own[s] : own[s][i].key # Card(s).key
  BY <1>2, SeesVersions
<1>4. ASSUME NEW i \in DOMAIN row, row[i].key = Card(s).key
      PROVE  row[i].named
  <2>1. i \in DOMAIN own[s]
    BY <1>2, <1>4, SeesVersions
  <2>. QED  BY <1>3, <1>4, <2>1 DEF RegistryInv, Copies
<1>5. PICK t \in Sessions : v[1] \in DOMAIN own[t] /\ v[2] = own[t][v[1]]
  BY <1>4, VersionIs
<1>6. t # s
  BY <1>3, <1>5
<1>7. v[1] \notin DOMAIN row /\ v[2].by = t
  BY <1>4, <1>5 DEF RegistryInv, Copies
<1>8. Active(t)
  BY <1>5 DEF RegistryInv, Owners
<1>9. before'[t] = before[t] /\ at[s] # "committed" /\ at[t] # "committed"
  BY <1>6, <1>8 DEF Look, Active, RegistryInv, RegistryTypes
<1>10. s \notin before'[t] /\ t \notin before'[s]
  <2>1. before[s] \subseteq {u \in Sessions : at[u] = "committed"}
    BY DEF RegistryInv, Owners
  <2>2. before'[s] \subseteq {u \in Sessions : at[u] = "committed"}
    BY <2>1 DEF Look, RegistryInv, RegistryTypes
  <2>3. s \notin before[t]
    BY <1>9 DEF RegistryInv, Owners
  <2>. QED  BY <1>9, <2>2, <2>3
<1>. QED  BY <1>6, <1>7, <1>10, RegistryAssumption DEF Apart, Overlap

LEMMA LookKeeps ==
  ASSUME RegistryInv, NEW s \in Sessions, Look(s), UNCHANGED pc, s = Run => pc = "register"
  PROVE  RegistryInv'
<1>1. UNCHANGED <<row, own, queue, nextId>> /\ Versions' = Versions
  BY DEF Look, Versions
<1>2. \A t \in Sessions : View(t)' = View(t) /\ Card(t)' = Card(t)
  BY <1>1 DEF View, Card
<1>3. /\ \A t \in Sessions : t # s => at'[t] = at[t] /\ found'[t] = found[t] /\ before'[t] = before[t]
      /\ at[s] \in {"idle", "look"} /\ at'[s] \in {"insert", "update"}
      /\ DOMAIN found' = Sessions /\ DOMAIN before' = Sessions
  BY DEF Look, RegistryInv, RegistryTypes
<1>4. at' \in [Sessions -> {"idle", "look", "insert", "update", "link", "committed", "failed"}]
  BY DEF Look, RegistryInv, RegistryTypes
<1>5. RegistryTypes'
  BY <1>1, <1>3, <1>4, QualificationAssumption DEF RegistryInv, RegistryTypes
<1>6. at'[s] = "update" =>
        found'[s].id \in DOMAIN View(s) /\ found'[s].read = View(s)[found'[s].id]
  BY DEF Look, Match, SamePage, SameName, Earliest, RegistryInv, RegistryTypes
<1>7. Owners'
  <2>1. before'[s] \subseteq {t \in Sessions : at[t] = "committed"}
    BY DEF Look, RegistryInv, RegistryTypes, Owners
  <2>2. \A t \in Sessions : at[t] = "committed" <=> at'[t] = "committed"
    BY <1>3
  <2>. QED  BY <1>1, <1>2, <1>3, <1>6, <2>1, <2>2 DEF RegistryInv, Owners, Active
<1>8. Copies'
  BY <1>1 DEF RegistryInv, Copies
<1>9. FoundUnnamed'
  BY <1>2, <1>3, <1>6 DEF RegistryInv, FoundUnnamed
<1>10. Distinct'
  BY LookKeepsDistinct
<1>11. LookedFor'
  <2>1. ASSUME NEW t \in Sessions, at'[t] = "insert", NEW v \in Versions,
               v[2].key = Card(t).key, v[2].key # Nobody, ~v[2].named
        PROVE  Apart(v[2].by, t)'
    <3>1. CASE t = s
      BY <2>1, <3>1, LookedIsLookedFor
    <3>2. CASE t # s
      <4>1. at[t] = "insert" /\ Apart(v[2].by, t)
        BY <1>3, <2>1, <3>2 DEF RegistryInv, LookedFor
      <4>2. v[2].by \in Sessions /\ (v[2].by # s \/ at[s] = "look")
        BY <4>1, AuthorsAct, <1>3 DEF Apart, Active
      <4>. QED  BY <3>2, <4>1, <4>2, StartsBeside
    <3>. QED  BY <3>1, <3>2
  <2>. QED  BY <1>1, <1>2, <2>1 DEF LookedFor
<1>. QED  BY <1>5, <1>7, <1>8, <1>9, <1>10, <1>11 DEF RegistryInv

LEMMA InsertKeeps ==
  ASSUME RegistryInv, NEW s \in Sessions, Inserts(s), UNCHANGED pc, s = Run => pc = "register"
  PROVE  RegistryInv'
<1>. DEFINE new == NewSupplier(s)
<1>1. /\ at[s] = "insert" /\ own' = [own EXCEPT ![s] = Put(@, nextId, new)]
      /\ nextId' = nextId + 1 /\ UNCHANGED <<row, queue, before>>
  BY DEF Inserts
<1>2. /\ new.by = s /\ new.named = FALSE /\ new.key = Card(s).key
  BY DEF NewSupplier
<1>. HIDE DEF new
<1>3. /\ \A t \in Sessions : t # s => at'[t] = at[t] /\ found'[t] = found[t]
      /\ at'[s] = "link" /\ DOMAIN found' = Sessions
      /\ at' \in [Sessions -> {"idle", "look", "insert", "update", "link", "committed", "failed"}]
  BY DEF Inserts, RegistryInv, RegistryTypes
<1>4. /\ DOMAIN own' = Sessions
      /\ DOMAIN own'[s] = DOMAIN own[s] \cup {nextId} /\ own'[s][nextId] = new
      /\ \A i \in DOMAIN own[s] : i # nextId => own'[s][i] = own[s][i]
      /\ \A t \in Sessions : t # s => own'[t] = own[t] /\ View(t)' = View(t)
      /\ \A v \in Versions' : v \in Versions \/ v = <<nextId, new>>
  <2>1. /\ DOMAIN own' = Sessions /\ own'[s] = Put(own[s], nextId, new)
        /\ \A t \in Sessions : t # s => own'[t] = own[t]
    BY <1>1 DEF RegistryInv, RegistryTypes
  <2>2. \A t \in Sessions : t # s => View(t)' = View(t)
    BY <1>1, <2>1 DEF View
  <2>3. /\ DOMAIN own'[s] = DOMAIN own[s] \cup {nextId} /\ own'[s][nextId] = new
        /\ \A i \in DOMAIN own[s] : i # nextId => own'[s][i] = own[s][i]
        /\ \A v \in Versions' : v \in Versions \/ v = <<nextId, new>>
    BY <1>1, <2>1, Writes
  <2>. QED  BY <2>1, <2>2, <2>3
<1>5. nextId \notin DOMAIN row /\ \A t \in Sessions : nextId \notin DOMAIN own[t]
  BY DEF RegistryInv, RegistryTypes
<1>6. \A t \in Sessions : Card(t)' = Card(t)
  BY <1>1 DEF Card
<1>7. RegistryTypes'
  <2>1. \A t \in Sessions : DOMAIN own'[t] \subseteq 1 .. nextId' - 1
    <3>1. nextId \in Nat \ {0} /\ \A t \in Sessions : DOMAIN own[t] \subseteq 1 .. nextId - 1
      BY DEF RegistryInv, RegistryTypes
    <3>2. 1 .. nextId' - 1 = (1 .. nextId - 1) \cup {nextId}
      BY <1>1, <3>1
    <3>. QED  BY <1>4, <3>1, <3>2
  <2>2. \A v \in Versions' : v[2].named \in BOOLEAN
    <3>1. \A v \in Versions : v[2].named \in BOOLEAN
      BY DEF RegistryInv, RegistryTypes
    <3>2. <<nextId, new>>[2].named \in BOOLEAN
      BY <1>2
    <3>. QED  BY <1>4, <3>1, <3>2
  <2>3. nextId' \in Nat \ {0} /\ DOMAIN row' \subseteq 1 .. nextId' - 1
    BY <1>1 DEF RegistryInv, RegistryTypes
  <2>. QED
    BY <1>1, <1>3, <1>4, <2>1, <2>2, <2>3, QualificationAssumption DEF RegistryInv, RegistryTypes
<1>8. Owners'
  BY <1>1, <1>3, <1>4, <1>5 DEF RegistryInv, Owners, Active
<1>9. Copies'
  BY <1>1, <1>2, <1>4, <1>5 DEF RegistryInv, Copies
<1>10. FoundUnnamed'
  BY <1>3, <1>4 DEF RegistryInv, FoundUnnamed
<1>11. \A a, b : Apart(a, b)' <=> Apart(a, b)
  BY <1>1 DEF Apart, Overlap
<1>12. \A v \in Versions : v[2].key = new.key /\ v[2].key # Nobody =>
         v[2].named \/ (Apart(v[2].by, s) /\ Apart(s, v[2].by))
  BY <1>1, <1>2 DEF RegistryInv, LookedFor, Apart, Overlap
<1>13. Distinct'
  <2>1. ASSUME NEW v \in Versions', NEW w \in Versions',
               v[1] # w[1], v[2].key = w[2].key, v[2].key # Nobody
        PROVE  v[2].named \/ w[2].named \/ Apart(v[2].by, w[2].by)
    <3>1. CASE v \in Versions /\ w \in Versions
      BY <2>1, <3>1 DEF RegistryInv, Distinct
    <3>2. CASE v = <<nextId, new>> /\ w \in Versions
      BY <1>2, <1>12, <2>1, <3>2
    <3>3. CASE v \in Versions /\ w = <<nextId, new>>
      BY <1>2, <1>12, <2>1, <3>3
    <3>. QED  BY <1>4, <2>1, <3>1, <3>2, <3>3
  <2>. QED  BY <1>11, <2>1 DEF Distinct
<1>14. LookedFor'
  <2>1. ASSUME NEW t \in Sessions, at'[t] = "insert", NEW v \in Versions',
               v[2].key = Card(t).key, v[2].key # Nobody
        PROVE  v[2].named \/ Apart(v[2].by, t)
    <3>1. t # s /\ at[t] = "insert"
      BY <1>3, <2>1
    <3>2. CASE v \in Versions
      BY <2>1, <3>1, <3>2 DEF RegistryInv, LookedFor
    <3>3. CASE v = <<nextId, new>>
      <4>1. t \notin before[s] /\ s \notin before[t]
        BY <1>1, <3>1 DEF RegistryInv, Owners
      <4>. QED  BY <1>2, <3>1, <3>3, <4>1, RegistryAssumption DEF Apart, Overlap
    <3>. QED  BY <1>4, <3>2, <3>3
  <2>. QED  BY <1>6, <1>11, <2>1 DEF LookedFor
<1>. QED  BY <1>7, <1>8, <1>9, <1>10, <1>13, <1>14 DEF RegistryInv

LEMMA UpdateKeeps ==
  ASSUME RegistryInv, NEW s \in Sessions, Updates(s), UNCHANGED pc, s = Run => pc = "register"
  PROVE  RegistryInv'
<1>. DEFINE id == found[s].id
            now == View(s)[id]
            new == Updated(s, now)
            names == found[s].read.key = Nobody /\ Card(s).key # Nobody
<1>1. /\ at[s] = "update" /\ own' = [own EXCEPT ![s] = Put(@, id, new)]
      /\ LockedBy(id, s) = {} /\ UNCHANGED <<row, queue, found, nextId, before>>
  BY DEF Updates
<1>2. /\ new.by = now.by /\ new.named = (now.named \/ names)
      /\ new.key = IF names THEN Card(s).key ELSE now.key
  BY DEF Updated
<1>3. /\ id \in DOMAIN View(s) /\ <<id, now>> \in Versions
      /\ IF id \in DOMAIN own[s] THEN now = own[s][id] ELSE id \in DOMAIN row /\ now = row[id]
  BY <1>1, SeesVersions DEF RegistryInv, Owners
<1>4. now.named \in BOOLEAN /\ names \in BOOLEAN
  BY <1>3 DEF RegistryInv, RegistryTypes
<1>5. names => now.key = Nobody \/ now.named
  BY <1>1 DEF RegistryInv, FoundUnnamed
<1>. HIDE DEF id, now, new, names
<1>6. /\ \A t \in Sessions : t # s => at'[t] = at[t]
      /\ at'[s] = "link"
      /\ at' \in [Sessions -> {"idle", "look", "insert", "update", "link", "committed", "failed"}]
  BY DEF Updates, RegistryInv, RegistryTypes
<1>7. /\ DOMAIN own' = Sessions
      /\ DOMAIN own'[s] = DOMAIN own[s] \cup {id} /\ own'[s][id] = new
      /\ \A i \in DOMAIN own[s] : i # id => own'[s][i] = own[s][i]
      /\ \A t \in Sessions : t # s => own'[t] = own[t] /\ View(t)' = View(t)
      /\ \A v \in Versions' : v \in Versions \/ v = <<id, new>>
  <2>1. /\ DOMAIN own' = Sessions /\ own'[s] = Put(own[s], id, new)
        /\ \A t \in Sessions : t # s => own'[t] = own[t]
    BY <1>1 DEF RegistryInv, RegistryTypes
  <2>2. \A t \in Sessions : t # s => View(t)' = View(t)
    BY <1>1, <2>1 DEF View
  <2>3. /\ DOMAIN own'[s] = DOMAIN own[s] \cup {id} /\ own'[s][id] = new
        /\ \A i \in DOMAIN own[s] : i # id => own'[s][i] = own[s][i]
        /\ \A v \in Versions' : v \in Versions \/ v = <<id, new>>
    BY <1>1, <2>1, Writes
  <2>. QED  BY <2>1, <2>2, <2>3
<1>8. \A t \in Sessions : t # s => id \notin DOMAIN own[t]
  BY <1>1 DEF LockedBy
<1>9. \A t \in Sessions : Card(t)' = Card(t)
  BY <1>1 DEF Card
<1>10. new.named \in BOOLEAN
  BY <1>2, <1>4
<1>11. RegistryTypes'
  <2>1. id \in 1 .. nextId - 1
    BY <1>3 DEF RegistryInv, RegistryTypes
  <2>2. \A t \in Sessions : DOMAIN own'[t] \subseteq 1 .. nextId' - 1
    BY <1>1, <1>7, <2>1 DEF RegistryInv, RegistryTypes
  <2>3. \A v \in Versions' : v[2].named \in BOOLEAN
    BY <1>7, <1>10 DEF RegistryInv, RegistryTypes
  <2>. QED
    BY <1>1, <1>6, <1>7, <2>2, <2>3, QualificationAssumption DEF RegistryInv, RegistryTypes
<1>12. Owners'
  BY <1>1, <1>6, <1>7, <1>8 DEF RegistryInv, Owners, Active
<1>13. Copies'
  <2>1. CASE id \notin DOMAIN row
    <3>1. new.by = s
      BY <1>2, <1>3, <2>1 DEF RegistryInv, Copies
    <3>. QED  BY <1>1, <1>7, <2>1, <3>1 DEF RegistryInv, Copies
  <2>2. CASE id \in DOMAIN row
    <3>1. new.by = row[id].by
      BY <1>2, <1>3, <2>2 DEF RegistryInv, Copies
    <3>2. row[id].named \in BOOLEAN
      <4>1. <<id, row[id]>> \in Versions
        BY <2>2 DEF Versions
      <4>. QED  BY <4>1 DEF RegistryInv, RegistryTypes
    <3>3. now.named => row[id].key = Nobody \/ row[id].named
      BY <1>3, <2>2 DEF RegistryInv, Copies
    <3>4. ~now.named => now.key = row[id].key /\ ~row[id].named
      BY <1>3, <2>2 DEF RegistryInv, Copies
    <3>5. IF new.named THEN row[id].key = Nobody \/ row[id].named
          ELSE new.key = row[id].key /\ ~row[id].named
      BY <1>2, <1>4, <1>5, <3>2, <3>3, <3>4
    <3>. QED  BY <1>1, <1>7, <2>2, <3>1, <3>5 DEF RegistryInv, Copies
  <2>. QED  BY <2>1, <2>2
<1>14. FoundUnnamed'
  BY <1>1, <1>6, <1>7 DEF RegistryInv, FoundUnnamed
<1>15. \A a, b : (Apart(a, b)' <=> Apart(a, b)) /\ (Apart(a, b) <=> Apart(b, a))
  BY <1>1 DEF Apart, Overlap
<1>16. ~new.named => ~now.named /\ new.key = now.key
  BY <1>2, <1>4
<1>17. Distinct'
  <2>1. ASSUME NEW v \in Versions', NEW w \in Versions',
               v[1] # w[1], v[2].key = w[2].key, v[2].key # Nobody
        PROVE  v[2].named \/ w[2].named \/ Apart(v[2].by, w[2].by)
    <3>1. CASE v \in Versions /\ w \in Versions
      BY <2>1, <3>1 DEF RegistryInv, Distinct
    <3>2. ASSUME NEW u \in Versions, u[1] # id, u[2].key = new.key, new.key # Nobody, ~new.named
          PROVE  u[2].named \/ Apart(u[2].by, new.by)
      BY <1>2, <1>3, <1>16, <3>2 DEF RegistryInv, Distinct
    <3>3. CASE v = <<id, new>> /\ w \in Versions
      BY <1>15, <2>1, <3>2, <3>3
    <3>4. CASE v \in Versions /\ w = <<id, new>>
      BY <2>1, <3>2, <3>4
    <3>. QED  BY <1>7, <2>1, <3>1, <3>3, <3>4
  <2>. QED  BY <1>15, <2>1 DEF Distinct
<1>18. LookedFor'
  <2>1. ASSUME NEW t \in Sessions, at'[t] = "insert", NEW v \in Versions',
               v[2].key = Card(t).key, v[2].key # Nobody
        PROVE  v[2].named \/ Apart(v[2].by, t)
    <3>1. t # s /\ at[t] = "insert"
      BY <1>6, <2>1
    <3>2. CASE v \in Versions
      BY <2>1, <3>1, <3>2 DEF RegistryInv, LookedFor
    <3>3. CASE v = <<id, new>>
      BY <1>2, <1>3, <1>16, <2>1, <3>1, <3>3 DEF RegistryInv, LookedFor
    <3>. QED  BY <1>7, <3>2, <3>3
  <2>. QED  BY <1>9, <1>15, <2>1 DEF LookedFor
<1>. QED  BY <1>11, <1>12, <1>13, <1>14, <1>17, <1>18 DEF RegistryInv

LEMMA LinkKeeps ==
  ASSUME RegistryInv, NEW s \in Sessions, Links(s), UNCHANGED pc, s = Run => pc = "register"
  PROVE  RegistryInv'
<1>1. at[s] = "link" /\ UNCHANGED <<row, own, nextId, before>> /\ Versions' = Versions
  BY DEF Links, Versions
<1>2. /\ \A t \in Sessions : t # s => at'[t] = at[t] /\ found'[t] = found[t] /\ queue'[t] = queue[t]
      /\ at'[s] = "look" /\ DOMAIN found' = Sessions /\ DOMAIN queue' = Sessions
      /\ at' \in [Sessions -> {"idle", "look", "insert", "update", "link", "committed", "failed"}]
  BY DEF Links, NextCard, RegistryInv, RegistryTypes
<1>3. \A t \in Sessions : View(t)' = View(t)
  BY <1>1 DEF View
<1>4. \A t \in Sessions : t # s => Card(t)' = Card(t)
  BY <1>2 DEF Card
<1>5. \A a, b : Apart(a, b)' <=> Apart(a, b)
  BY <1>1 DEF Apart, Overlap
<1>6. RegistryTypes'
  BY <1>1, <1>2, QualificationAssumption DEF RegistryInv, RegistryTypes
<1>7. Owners'
  BY <1>1, <1>2, <1>3 DEF RegistryInv, Owners, Active
<1>8. Copies' /\ FoundUnnamed' /\ Distinct'
  BY <1>1, <1>2, <1>3, <1>5 DEF RegistryInv, Copies, FoundUnnamed, Distinct
<1>9. LookedFor'
  BY <1>1, <1>2, <1>4, <1>5 DEF RegistryInv, LookedFor
<1>. QED  BY <1>6, <1>7, <1>8, <1>9 DEF RegistryInv

\* What a session commits takes the place of the rows it has copies of.
LEMMA CommitKeeps ==
  ASSUME RegistryInv, NEW s \in Sessions, Commits(s), UNCHANGED pc, s = Run => pc = "register"
  PROVE  RegistryInv'
<1>1. /\ at[s] \in {"idle", "look"} /\ row' = Over(own[s], row) /\ own' = [own EXCEPT ![s] = <<>>]
      /\ UNCHANGED <<queue, found, nextId, before>>
  BY DEF Commits
<1>2. /\ DOMAIN row' = DOMAIN own[s] \cup DOMAIN row
      /\ \A i \in DOMAIN own[s] : row'[i] = own[s][i]
      /\ \A i \in DOMAIN row \ DOMAIN own[s] : row'[i] = row[i]
  BY <1>1 DEF Over
<1>3. /\ DOMAIN own' = Sessions /\ DOMAIN own'[s] = {}
      /\ \A t \in Sessions : t # s => own'[t] = own[t]
  BY <1>1, Forgets DEF RegistryInv, RegistryTypes
<1>4. /\ \A t \in Sessions : t # s => at'[t] = at[t]
      /\ at'[s] = "committed"
      /\ at' \in [Sessions -> {"idle", "look", "insert", "update", "link", "committed", "failed"}]
  BY DEF Commits, RegistryInv, RegistryTypes
<1>5. ASSUME NEW v \in Versions' PROVE v \in Versions
  <2>1. CASE \E i \in DOMAIN row' : v = <<i, row'[i]>>
    BY <1>2, <2>1 DEF Versions
  <2>2. CASE \E t \in Sessions : \E i \in DOMAIN own'[t] : v = <<i, own'[t][i]>>
    BY <1>3, <2>2 DEF Versions
  <2>. QED  BY <2>1, <2>2 DEF Versions
<1>6. \A t \in Sessions : t # s => DOMAIN own[t] \cap DOMAIN own[s] = {}
  BY DEF RegistryInv, Owners
<1>7. /\ \A t \in Sessions : t # s => DOMAIN View(t)' = DOMAIN View(t) \cup DOMAIN own[s]
      /\ \A t \in Sessions : t # s => \A i \in DOMAIN View(t) :
           IF i \in DOMAIN own[s] THEN View(t)'[i] = own[s][i] ELSE View(t)'[i] = View(t)[i]
  BY <1>2, <1>3, <1>6 DEF View, Over
<1>8. \A t \in Sessions : Card(t)' = Card(t)
  BY <1>1 DEF Card
<1>9. \A a, b : Apart(a, b)' <=> Apart(a, b)
  BY <1>1 DEF Apart, Overlap
<1>10. RegistryTypes'
  <2>1. DOMAIN row' \subseteq 1 .. nextId' - 1
    BY <1>1, <1>2 DEF RegistryInv, RegistryTypes
  <2>2. \A t \in Sessions : DOMAIN own'[t] \subseteq 1 .. nextId' - 1
    BY <1>1, <1>3 DEF RegistryInv, RegistryTypes
  <2>3. \A v \in Versions' : v[2].named \in BOOLEAN
    BY <1>5 DEF RegistryInv, RegistryTypes
  <2>. QED
    BY <1>1, <1>3, <1>4, <2>1, <2>2, <2>3, QualificationAssumption DEF RegistryInv, RegistryTypes
<1>11. Owners'
  <2>1. ASSUME NEW i \in DOMAIN row'
        PROVE  row'[i].by = Nobody \/ (row'[i].by \in Sessions /\ at'[row'[i].by] = "committed")
    <3>1. CASE i \in DOMAIN own[s] /\ i \notin DOMAIN row
      BY <1>2, <1>4, <3>1 DEF RegistryInv, Copies
    <3>2. CASE i \in DOMAIN row
      <4>1. row'[i].by = row[i].by
        BY <1>2, <3>2 DEF RegistryInv, Copies
      <4>. QED  BY <1>4, <3>2, <4>1 DEF RegistryInv, Owners
    <3>. QED  BY <1>2, <2>1, <3>1, <3>2
  <2>2. ASSUME NEW t \in Sessions
        PROVE  /\ DOMAIN own'[t] # {} => Active(t)'
               /\ before'[t] \subseteq {u \in Sessions : at'[u] = "committed"}
               /\ at'[t] = "update" => found'[t].id \in DOMAIN View(t)'
    <3>1. before'[t] \subseteq {u \in Sessions : at'[u] = "committed"}
      BY <1>1, <1>4 DEF RegistryInv, Owners
    <3>2. CASE t = s
      BY <1>3, <1>4, <3>1, <3>2
    <3>3. CASE t # s
      <4>1. DOMAIN own'[t] # {} => Active(t)'
        BY <1>3, <1>4, <3>3 DEF RegistryInv, Owners, Active
      <4>2. at'[t] = "update" => found'[t].id \in DOMAIN View(t)'
        BY <1>1, <1>4, <1>7, <3>3 DEF RegistryInv, Owners
      <4>. QED  BY <3>1, <4>1, <4>2
    <3>. QED  BY <3>2, <3>3
  <2>3. \A t, u \in Sessions : t # u => DOMAIN own'[t] \cap DOMAIN own'[u] = {}
    BY <1>3 DEF RegistryInv, Owners
  <2>. QED  BY <2>1, <2>2, <2>3 DEF Owners
<1>12. Copies'
  <2>1. ASSUME NEW t \in Sessions, NEW i \in DOMAIN own'[t]
        PROVE  /\ t # s /\ own'[t] = own[t] /\ i \in DOMAIN own[t]
               /\ i \in DOMAIN row' <=> i \in DOMAIN row
               /\ i \in DOMAIN row => row'[i] = row[i]
    BY <1>2, <1>3, <1>6, <2>1
  <2>. QED  BY <2>1 DEF RegistryInv, Copies
<1>13. FoundUnnamed'
  <2>1. ASSUME NEW t \in Sessions, at'[t] = "update", found'[t].read.key = Nobody
        PROVE  View(t)'[found'[t].id].key = Nobody \/ View(t)'[found'[t].id].named
    <3>. DEFINE i == found[t].id
    <3>1. t # s /\ at[t] = "update" /\ i \in DOMAIN View(t) /\ found' = found
      BY <1>1, <1>4, <2>1 DEF RegistryInv, Owners
    <3>2. View(t)[i].key = Nobody \/ View(t)[i].named
      BY <2>1, <3>1 DEF RegistryInv, FoundUnnamed
    <3>. HIDE DEF i
    <3>3. CASE i \notin DOMAIN own[s]
      <4>1. View(t)'[i] = View(t)[i]
        BY <1>7, <3>1, <3>3
      <4>. QED  BY <3>1, <3>2, <4>1 DEF i
    <3>4. CASE i \in DOMAIN own[s]
      <4>1. i \in DOMAIN row /\ View(t)[i] = row[i]
        BY <1>6, <3>1, <3>4, SeesVersions
      <4>2. View(t)'[i] = own[s][i]
        BY <1>7, <3>1, <3>4
      <4>3. <<i, own[s][i]>> \in Versions /\ <<i, row[i]>> \in Versions
        BY <3>4, <4>1 DEF Versions
      <4>4. own[s][i].named \in BOOLEAN /\ row[i].named \in BOOLEAN
        BY <4>3 DEF RegistryInv, RegistryTypes
      <4>5. own[s][i].key = Nobody \/ own[s][i].named
        BY <3>2, <3>4, <4>1, <4>4 DEF RegistryInv, Copies
      <4>. QED  BY <3>1, <4>2, <4>5 DEF i
    <3>. QED  BY <3>3, <3>4
  <2>. QED  BY <2>1 DEF FoundUnnamed
<1>14. Distinct' /\ LookedFor'
  BY <1>4, <1>5, <1>8, <1>9 DEF RegistryInv, Distinct, LookedFor
<1>. QED  BY <1>10, <1>11, <1>12, <1>13, <1>14 DEF RegistryInv

LEMMA FailKeeps ==
  ASSUME RegistryInv, NEW s \in Sessions, Fails(s), UNCHANGED pc, s = Run => pc = "register"
  PROVE  RegistryInv'
<1>1. /\ at[s] \in {"update", "link"} /\ own' = [own EXCEPT ![s] = <<>>]
      /\ UNCHANGED <<row, nextId, before>>
  BY DEF Fails, Collides, Deadlocked, WaitsFor
<1>2. /\ DOMAIN own' = Sessions /\ DOMAIN own'[s] = {}
      /\ \A t \in Sessions : t # s => own'[t] = own[t]
  BY <1>1, Forgets DEF RegistryInv, RegistryTypes
<1>3. /\ \A t \in Sessions : t # s => at'[t] = at[t] /\ found'[t] = found[t] /\ queue'[t] = queue[t]
      /\ at'[s] = "failed" /\ DOMAIN found' = Sessions /\ DOMAIN queue' = Sessions
      /\ at' \in [Sessions -> {"idle", "look", "insert", "update", "link", "committed", "failed"}]
  BY DEF Fails, RegistryInv, RegistryTypes
<1>4. ASSUME NEW v \in Versions' PROVE v \in Versions
  BY <1>1, <1>2 DEF Versions
<1>5. \A t \in Sessions : t # s => View(t)' = View(t) /\ Card(t)' = Card(t)
  BY <1>1, <1>2, <1>3 DEF View, Card
<1>6. \A a, b : Apart(a, b)' <=> Apart(a, b)
  BY <1>1 DEF Apart, Overlap
<1>7. RegistryTypes'
  <2>1. \A t \in Sessions : DOMAIN own'[t] \subseteq 1 .. nextId' - 1
    BY <1>1, <1>2 DEF RegistryInv, RegistryTypes
  <2>2. \A v \in Versions' : v[2].named \in BOOLEAN
    BY <1>4 DEF RegistryInv, RegistryTypes
  <2>. QED
    BY <1>1, <1>2, <1>3, <2>1, <2>2, QualificationAssumption DEF RegistryInv, RegistryTypes
<1>8. Owners'
  <2>1. \A t \in Sessions : at[t] = "committed" <=> at'[t] = "committed"
    BY <1>1, <1>3
  <2>2. \A i \in DOMAIN row' :
          row'[i].by = Nobody \/ (row'[i].by \in Sessions /\ at'[row'[i].by] = "committed")
    BY <1>1, <2>1 DEF RegistryInv, Owners
  <2>3. ASSUME NEW t \in Sessions
        PROVE  /\ DOMAIN own'[t] # {} => Active(t)'
               /\ before'[t] \subseteq {u \in Sessions : at'[u] = "committed"}
               /\ at'[t] = "update" => found'[t].id \in DOMAIN View(t)'
    <3>1. before'[t] \subseteq {u \in Sessions : at'[u] = "committed"}
      BY <1>1, <2>1 DEF RegistryInv, Owners
    <3>2. CASE t = s
      BY <1>2, <1>3, <3>1, <3>2
    <3>3. CASE t # s
      BY <1>2, <1>3, <1>5, <3>1, <3>3 DEF RegistryInv, Owners, Active
    <3>. QED  BY <3>2, <3>3
  <2>4. \A t, u \in Sessions : t # u => DOMAIN own'[t] \cap DOMAIN own'[u] = {}
    BY <1>2 DEF RegistryInv, Owners
  <2>. QED  BY <2>2, <2>3, <2>4 DEF Owners
<1>9. Copies'
  BY <1>1, <1>2 DEF RegistryInv, Copies
<1>10. FoundUnnamed'
  BY <1>3, <1>5 DEF RegistryInv, FoundUnnamed
<1>11. Distinct'
  BY <1>4, <1>6 DEF RegistryInv, Distinct
<1>12. LookedFor'
  BY <1>3, <1>4, <1>5, <1>6 DEF RegistryInv, LookedFor
<1>. QED  BY <1>7, <1>8, <1>9, <1>10, <1>11, <1>12 DEF RegistryInv

LEMMA RegistryStarts == Init => RegistryInv
<1>. SUFFICES ASSUME Init PROVE RegistryInv
  OBVIOUS
<1>1. /\ row \in OldRows /\ own = [s \in Sessions |-> <<>>] /\ at = [s \in Sessions |-> "idle"]
      /\ found = [s \in Sessions |-> Nobody] /\ before = [s \in Sessions |-> {}]
      /\ nextId = Len(row) + 1 /\ DOMAIN queue = Sessions
  BY DEF Init, RegistryInit
<1>2. /\ Len(row) \in Nat /\ DOMAIN row = 1 .. Len(row)
      /\ \A i \in DOMAIN row : row[i].by = Nobody /\ row[i].named \in BOOLEAN
      /\ \A i, j \in DOMAIN row : i # j /\ row[i].key = row[j].key => row[i].key = Nobody
  BY <1>1, RegistryAssumption
<1>3. \A s \in Sessions : DOMAIN own[s] = {}
  BY <1>1
<1>4. Versions = {<<i, row[i]>> : i \in DOMAIN row}
  BY <1>3 DEF Versions
<1>5. RegistryTypes
  <2>1. nextId \in Nat \ {0} /\ nextId - 1 = Len(row)
    BY <1>1, <1>2
  <2>. QED  BY <1>1, <1>2, <1>3, <1>4, <2>1, QualificationAssumption DEF RegistryTypes
<1>6. Owners /\ Copies /\ FoundUnnamed /\ LookedFor
  BY <1>1, <1>2, <1>3 DEF Owners, Copies, FoundUnnamed, LookedFor, Active
<1>7. Distinct
  BY <1>2, <1>4 DEF Distinct
<1>. QED  BY <1>5, <1>6, <1>7 DEF RegistryInv

LEMMA RegistersKeeps ==
  ASSUME RegistryInv, NEW s \in Sessions, Registers(s)
  PROVE  RegistryInv'
BY LookKeeps, InsertKeeps, UpdateKeeps, LinkKeeps, CommitKeeps, FailKeeps DEF Registers, Register

\* A run hands its cards over before it registers any.
LEMMA ConcludesKeepsRegistry ==
  ASSUME RegistryInv, pc = "verify", Concludes
  PROVE  RegistryInv'
<1>1. /\ at[Run] = "idle" /\ pc' = "register" /\ DOMAIN queue' = Sessions
      /\ UNCHANGED <<row, own, at, found, nextId, before>>
      /\ \A s \in Sessions : s # Run => queue'[s] = queue[s]
  BY DEF Concludes, RegistryInv, RegistryTypes
<1>2. Versions' = Versions /\ \A s \in Sessions : View(s)' = View(s)
  BY <1>1 DEF Versions, View
<1>3. \A s \in Sessions : s # Run => Card(s)' = Card(s)
  BY <1>1 DEF Card
<1>4. \A a, b : Apart(a, b)' <=> Apart(a, b)
  BY <1>1 DEF Apart, Overlap
<1>5. RegistryTypes' /\ Owners' /\ Copies' /\ FoundUnnamed' /\ Distinct'
  BY <1>1, <1>2, <1>4
  DEF RegistryInv, RegistryTypes, Owners, Active, Copies, FoundUnnamed, Distinct
<1>6. LookedFor'
  BY <1>1, <1>2, <1>3, <1>4 DEF RegistryInv, LookedFor
<1>. QED  BY <1>5, <1>6 DEF RegistryInv

\* Nothing else the run does touches the registry.
LEMMA RegistryStays ==
  ASSUME RegistryInv, UNCHANGED registry, pc' # "register" \/ pc = "register", pc = "register" => pc' = pc
  PROVE  RegistryInv'
<1>1. UNCHANGED <<row, own, at, found, queue, nextId, before>>
  BY DEF registry
<1>2. Versions' = Versions /\ \A s \in Sessions : View(s)' = View(s) /\ Card(s)' = Card(s)
  BY <1>1 DEF Versions, View, Card
<1>3. \A a, b : Apart(a, b)' <=> Apart(a, b)
  BY <1>1 DEF Apart, Overlap
<1>. QED
  BY <1>1, <1>2, <1>3
  DEF RegistryInv, RegistryTypes, Owners, Active, Copies, FoundUnnamed, Distinct, LookedFor

\* The invariant of the registry holds for any number of sessions at work at
\* once (register_qualified_candidate).
THEOREM RegistryKept == Spec => []RegistryInv
<1>1. ASSUME RegistryInv, [Next]_vars PROVE RegistryInv'
  <2>1. CASE \E s \in Sessions : Registers(s)
    BY <1>1, <2>1, RegistersKeeps
  <2>2. CASE pc = "verify" /\ Concludes
    BY <1>1, <2>2, ConcludesKeepsRegistry
  <2>3. ASSUME ~(\E s \in Sessions : Registers(s)), ~(pc = "verify" /\ Concludes)
        PROVE  /\ UNCHANGED registry
               /\ pc' # "register" \/ pc = "register"
               /\ pc = "register" => pc' = pc
    BY <1>1, <2>3
    DEF Next, vars, OpensPage, PageFails, StopsFetching, StartsBatch, Assesses, Audits, Halves,
        BringsNothing, CallFails, EndsBatch, MakesCards, EndsAudit, Cancel, RunsOut, Asking
  <2>. QED  BY <1>1, <2>1, <2>2, <2>3, RegistryStays
<1>. QED  BY RegistryStarts, <1>1, PTL DEF Spec

\* A company is one row of the registry whichever pages it was found on
\* (register_qualified_candidate, company_key), but for runs that overlapped and
\* rows that got their name later.
THEOREM CompanyIsOneRow == Spec => []OneRowUnlessOverlap
<1>1. RegistryInv => OneRowUnlessOverlap
  <2>. SUFFICES ASSUME RegistryInv, NEW i \in DOMAIN row, NEW j \in DOMAIN row,
                       i # j, row[i].key = row[j].key, row[i].key # Nobody,
                       ~row[i].named, ~row[j].named
                PROVE  Apart(row[i].by, row[j].by)
    BY DEF OneRowUnlessOverlap, Apart
  <2>1. <<i, row[i]>> \in Versions /\ <<j, row[j]>> \in Versions
    BY DEF Versions
  <2>. QED  BY <2>1 DEF RegistryInv, Distinct
<1>. QED  BY RegistryKept, <1>1, PTL

\* The run stays within its budget: pages and permits as many as allowed, three
\* calls at most for a permit, results of opened pages only.
THEOREM QualificationTyped == Spec => []TypeOK
<1>1. RunInv /\ RegistryInv => TypeOK
  <2>. SUFFICES ASSUME RunInv, RegistryInv PROVE TypeOK
    OBVIOUS
  <2>1. OpenedIds \subseteq Candidates
    BY DEF RunInv, Opened, OpenedIds, ToSet
  <2>2. asked \in 0 .. 3
    BY FS_CardinalityType DEF RunInv, Batch, Questions
  <2>. QED  BY <2>1, <2>2 DEF RunInv, Opened, Brought, RegistryInv, RegistryTypes, TypeOK
<1>. QED  BY RunKept, RegistryKept, <1>1, PTL

=============================================================================
