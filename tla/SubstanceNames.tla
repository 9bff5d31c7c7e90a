--------------------------- MODULE SubstanceNames ---------------------------
(***************************************************************************)
(* The recognition of a substance by the name a buyer typed: what the      *)
(* registry, the pages of a search and the model that reads them say       *)
(* becomes a list of candidates, one of them recommended.                  *)
(*                                                                         *)
(* Source: backend/app/services/substance_resolution.py,                   *)
(* backend/app/services/stoichiometry.py.                                  *)
(*                                                                         *)
(* A world is what the services outside answer.  A name is what remains of *)
(* it when case and blanks are dropped.                                    *)
(***************************************************************************)
EXTENDS Naturals, Sequences, FiniteSets, SequencesExt, FiniteSetsExt, Functions

CONSTANTS
  None,
  Numbers,        \* registry numbers with a right check digit
  International,  \* the names written in Latin letters
  Composition,    \* name |-> the groups it names: a root and its numeral, or None
  MaxCandidates

-----------------------------------------------------------------------------
(* Composition. *)

\* group_counts: a numeral before the root counts, wherever the root stands;
\* a root named twice is the same group.
GroupCounts(name) ==
  LET words == Composition[name]
      roots == {words[i].root : i \in DOMAIN words}
      counted(r) == {i \in DOMAIN words : words[i].root = r /\ words[i].numeral # None}
  IN  [r \in roots |-> IF counted(r) = {} THEN 1 ELSE words[Min(counted(r))].numeral]

\* compare_names: only groups both names mention are compared.
NamesConflict(entered, reference) ==
  LET left == GroupCounts(entered)
      right == GroupCounts(reference)
  IN  \E r \in DOMAIN left \cap DOMAIN right : left[r] # right[r]

-----------------------------------------------------------------------------
(* Candidates. *)

Candidate(name, relation, cas, source) ==
  [name |-> name, relation |-> relation, cas |-> cas, source |-> source, quoted |-> FALSE,
   synonyms |-> {}, conflict |-> FALSE, recommended |-> FALSE]

\* A number is kept only when a source bears it out.
Confirmed(c) == c.cas # None

\* _lookup_pubchem: the entry mixes names with numbers, the first right one is taken.
LookupPubchem(query, world) ==
  IF world.registry = None THEN <<>>
  ELSE LET entry == world.registry
           numbers == SelectSeq(entry, LAMBDA v : v \in Numbers)
           names == SelectSeq(entry, LAMBDA v : v \notin Numbers)
           cas == IF numbers = <<>> THEN None ELSE Head(numbers)
           preferred == IF names = <<>> THEN query ELSE Head(names)
       IN  <<[Candidate(preferred, "same", cas, "pubchem") EXCEPT
                !.synonyms = ToSet(names) \ {preferred}]>>

\* _collect_snippets: a search that is not set up ends the collection, one that is
\* blocked or fails is skipped; a Cyrillic name has two searches more, tried first.
CollectSnippets(query, world) ==
  LET asked == IF query \in International THEN world.searches ELSE world.bridges \o world.searches
      unset == {i \in DOMAIN asked : asked[i].outcome = "unset"}
      tried == IF unset = {} THEN asked ELSE SubSeq(asked, 1, Min(unset) - 1)
  IN  UNION {tried[i].pages : i \in {j \in DOMAIN tried : tried[j].outcome = "pages"}}

\* _accept_llm_candidate: a number must stand in the pages, or in the quotation the
\* model gives with it.
AcceptCandidate(raw, snippets) ==
  LET borneOut == raw.cas \in Numbers /\ raw.cas \in raw.quote \cup UNION {s.mentions : s \in snippets}
  IN  [Candidate(raw.name, raw.relation, IF borneOut THEN raw.cas ELSE None, "web") EXCEPT
         !.quoted = raw.quote # {}]

\* The members of a list at the first n of these places.
Leading(list, places, n) ==
  [k \in 1..Min({Cardinality(places), n}) |->
     list[CHOOSE i \in places : Cardinality({j \in places : j <= i}) = k]]

\* _merge: the first candidate of a name, unless a later one has a number and it has none.
MergeNames(candidates) ==
  LET alike(i) == {j \in DOMAIN candidates : candidates[j].name = candidates[i].name}
      numbered(i) == {j \in alike(i) : Confirmed(candidates[j])}
      named(i) == {j \in alike(i) : candidates[j].synonyms # {}}
      kept(i) == candidates[Min(IF numbered(i) = {} THEN alike(i) ELSE numbered(i))]
      entry(i) == IF kept(i).synonyms # {} \/ named(i) = {} THEN kept(i)
                  ELSE [kept(i) EXCEPT !.synonyms = candidates[Min(named(i))].synonyms]
  IN  Leading([i \in DOMAIN candidates |-> entry(i)],
              {i \in DOMAIN candidates : i = Min(alike(i))}, MaxCandidates)

\* _resolve.
Recognised(query, world) ==
  LET known == LookupPubchem(query, world)
      snippets == CollectSnippets(query, world)
  IN  IF snippets = {} \/ ~world.reads THEN known
      ELSE MergeNames(known \o [i \in DOMAIN world.model |-> AcceptCandidate(world.model[i], snippets)])

\* _annotate_formulas: what the number says of the composition the buyer named.
AnnotateFormulas(query, candidates, world) ==
  [i \in DOMAIN candidates |->
     LET c == candidates[i]
     IN  IF Confirmed(c) /\ c.cas \in DOMAIN world.systematic
         THEN [c EXCEPT !.conflict = NamesConflict(query, world.systematic[c.cas])] ELSE c]

-----------------------------------------------------------------------------
(* A Latin name for a Cyrillic one. *)

\* _confirm_translated_name: a page that mentions the name bears it out, and its number.
ConfirmTranslated(name, world) ==
  IF name \in DOMAIN world.seen
  THEN [Candidate(name, "same", world.seen[name], "web") EXCEPT !.quoted = TRUE]
  ELSE Candidate(name, "same", None, "translation")

\* _add_international_fallback; what is added is not compared with the composition.
InternationalFallback(candidates, world) ==
  LET names == world.translations
      taken == Leading(names, {i \in DOMAIN names : names[i] \in International}, 2)
  IN  MergeNames(candidates \o [i \in DOMAIN taken |-> ConfirmTranslated(taken[i], world)])

Usable(query, c) ==
  c.relation = "same" /\ ~c.conflict /\ (query \in International \/ c.name \in International)

-----------------------------------------------------------------------------
(* The recommendation. *)

\* Mutant: a Cyrillic spelling may be the anchor of the search.
AnySpelling(query, c) ==
  IF c.relation # "same" \/ c.conflict THEN 0
  ELSE 8 + (IF c.source = "pubchem" THEN 4 ELSE 0) + (IF Confirmed(c) THEN 3 ELSE 0)

Reliability(query, c) ==
  LET one(condition, points) == IF condition THEN points ELSE 0
  IN  IF ~Usable(query, c) THEN 0
      ELSE IF c.source = "translation" THEN 4
      ELSE 8 + one(c.source = "pubchem", 4) + one(Confirmed(c), 3)
                    + one(c.quoted, 1) + one(c.synonyms # {}, 1)

\* _mark_recommended: the first of the most reliable.
MarkRecommended(query, candidates) ==
  LET score(i) == Reliability(query, candidates[i])
      best == {i \in DOMAIN candidates :
                 score(i) > 0 /\ \A j \in DOMAIN candidates : score(j) <= score(i)}
  IN  IF best = {} THEN candidates ELSE [candidates EXCEPT ![Min(best)].recommended = TRUE]

ResolveSubstance(query, world) ==
  LET found == AnnotateFormulas(query, Recognised(query, world), world)
      anchored == query \in International
                  \/ \E c \in ToSet(found) : Usable(query, c) /\ c.name \in International
  IN  MarkRecommended(query, IF anchored THEN found ELSE InternationalFallback(found, world))
=============================================================================
