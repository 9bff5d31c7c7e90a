-------------------------- MODULE AnalogCandidates --------------------------
(***************************************************************************)
(* The substances that may replace a position: what a model reads in the   *)
(* pages of a search, less what is the position itself, a neighbour of its *)
(* brand, or cannot be checked.                                            *)
(*                                                                         *)
(* Source: backend/app/services/analog_candidates.py.                      *)
(***************************************************************************)
EXTENDS Naturals, Sequences, FiniteSets, SequencesExt, FiniteSetsExt, Functions

CONSTANTS
  None, Numbers,
  Spelling,   \* name |-> its words, without what stands in brackets
  Codes,      \* words with a digit
  Kinds,      \* words for a kind of product
  MaxAnalogs

\* One text stands within the other.
Within(a, b) ==
  \E i \in 1..(Len(b) - Len(a) + 1) : SubSeq(b, i, i + Len(a) - 1) = a

\* Mutant: a grade of the substance is another substance.
EqualNames(candidate, source) == Spelling[candidate] = Spelling[source]

\* _is_same_substance.
SameSubstance(candidate, source) ==
  LET left == Spelling[candidate]
      right == Spelling[source]
  IN  left # <<>> /\ right # <<>> /\ (Within(left, right) \/ Within(right, left))

\* _brand_of: the first word, when a code follows it and it is no kind of product.
BrandOf(name) ==
  LET words == Spelling[name]
  IN  IF \/ words = <<>> \/ words[1] \in Kinds \cup Codes
         \/ Range(Tail(words)) \cap Codes = {} THEN None
      ELSE words[1]

\* _product_kind: what is left without the brand and the codes; a branded position is
\* searched by it as well.
ProductKind(name) ==
  LET kept == SelectSeq(Spelling[name], LAMBDA w : w \notin Codes \cup {BrandOf(name)})
  IN  IF kept = Spelling[name] THEN <<>> ELSE kept

\* _queries and _collect_snippets: a search that is not set up ends the collection.
CollectPages(name, world) ==
  LET asked == IF ProductKind(name) = <<>> THEN world.searches ELSE Append(world.searches, world.byKind)
      unset == {i \in DOMAIN asked : asked[i].outcome = "unset"}
      tried == IF unset = {} THEN asked ELSE SubSeq(asked, 1, Min(unset) - 1)
  IN  UNION {tried[i].pages : i \in {j \in DOMAIN tried : tried[j].outcome = "pages"}}

\* _accept: a number that no page bears out is dropped, the candidate stays.
Acceptable(raw, name, cas, number) ==
  /\ ~SameSubstance(raw.name, name)
  /\ BrandOf(name) = None \/ BrandOf(name) \notin Range(Spelling[raw.name])
  /\ raw.quoted /\ raw.linked
  /\ number = None \/ number # cas

NumberBorneOut(raw, pages) ==
  IF raw.cas \in Numbers /\ raw.cas \in raw.quote \cup UNION {p.mentions : p \in pages} THEN raw.cas ELSE None

\* _merge: of the candidates accepted, the first of a name, unless a later one has a
\* number and it has none.
MergeAnalogs(candidates, accepted) ==
  LET alike(i) == {j \in accepted : candidates[j].name = candidates[i].name}
      numbered(i) == {j \in alike(i) : candidates[j].cas # None}
      firsts == {i \in accepted : i = Min(alike(i))}
      first(k) == CHOOSE i \in firsts : Cardinality({j \in firsts : j <= i}) = k
      entry(i) == candidates[IF numbered(i) = {} THEN i ELSE Min(numbered(i))]
  IN  [k \in 1..Min({Cardinality(firsts), MaxAnalogs}) |-> entry(first(k))]

\* suggest_analogs: an empty list is an answer, and it says what emptied it.
SuggestAnalogs(name, cas, world) ==
  LET pages == CollectPages(name, world)
      read == [i \in DOMAIN world.model |->
                 [name |-> world.model[i].name, cas |-> NumberBorneOut(world.model[i], pages)]]
      accepted == {i \in DOMAIN read : Acceptable(world.model[i], name, cas, read[i].cas)}
      candidates == MergeAnalogs(read, accepted)
      why == IF "constraint" \in world.rejected THEN "constraint"
             ELSE IF "application" \in world.rejected THEN "application"
             ELSE IF world.rejected # {} THEN "same substance"
             ELSE "none found"
  IN  IF pages = {} THEN [candidates |-> <<>>, why |-> "no pages"]
      ELSE IF world.failure # None THEN [candidates |-> <<>>, why |-> world.failure]
      ELSE [candidates |-> candidates, why |-> IF candidates = <<>> THEN why ELSE None]
=============================================================================
