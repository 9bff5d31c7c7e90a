----------------------------- MODULE MCRfqIntake -----------------------------
(* Two lists: the second names the substances of the first in another order. *)
EXTENDS RfqIntake

CONSTANTS s1, s2, e1, e2, e3, kamed, xanthan, guar, grade, branded, neighbour, casX, casG, long, bad,
          gum, fluid, dowsil, c556, c557

Amount(left, mark, right, digits, unit) ==
  Text([number |-> [left |-> left, mark |-> mark, right |-> right, digits |-> digits], unit |-> unit])

Header == <<Text("name"), Text("cas"), Text("volume"), Text("purity"), Text("countries"), Text(bad)>>
Line(name, cas, volume, purity, countries) ==
  <<Text(name), Text(cas), volume, Text(purity), countries>>

MCFiles ==
  <<[format |-> "csv", lines |->
      <<Header,
        Line(xanthan, casX, Amount(2, "none", 0, 0, "t"), 99, Text(<<"China", bad>>)),
        Line(guar, casG, Amount(0, ",", 125, 3, "t"), long, Blank)>>],
    [format |-> "csv", lines |->
      <<<<Blank>>, Header,
        Line(guar, casG, Formula, 98, Blank),
        Line(guar, casG, Amount(5, ".", 5, 1, "lb"), 98, Blank),
        Line(xanthan, Unreadable, Amount(1, "none", 0, 0, "kg"), 98, Text(<<"India", "China">>))>>]>>

MCCorrections == "cas" :> Text(casX)

\* A row the window would not have offered, and a good one.
MCOtherList ==
  LET row(values) == ("identification_method" :> "cas") @@ values
  IN  <<[row |-> 1, values |-> row("name" :> xanthan)],
        [row |-> 2, values |-> row(("name" :> guar) @@ ("cas" :> casG))]>>

-----------------------------------------------------------------------------
(* The form: a Cyrillic name, and what may be found of it. *)

MCComposition ==
  kamed :> <<[root |-> gum, numeral |-> 2]>>
  @@ xanthan :> <<[root |-> gum, numeral |-> 2], [root |-> gum, numeral |-> None]>>
  @@ guar :> <<[root |-> gum, numeral |-> None]>>

Page(numbers) == [outcome |-> "pages", pages |-> {[mentions |-> numbers]}]
No(outcome) == [outcome |-> outcome, pages |-> {}]
Read(name, relation, cas, quote) == [name |-> name, relation |-> relation, cas |-> cas, quote |-> quote]

MCWorlds ==
  LET world == [registry |-> None, bridges |-> <<No("blocked"), Page({casX})>>, searches |-> <<Page({casG}), No("failed")>>,
                reads |-> TRUE, model |-> <<>>, systematic |-> (casX :> xanthan) @@ (casG :> guar),
                translations |-> <<kamed, xanthan>>, seen |-> <<>>]
  IN  {[world EXCEPT !.model = <<Read(xanthan, "same", None, {}), Read(xanthan, "same", casX, {}),
                                 Read(guar, "different", casG, {casG})>>],
       [world EXCEPT !.model = <<Read(guar, "same", casG, {}), Read(kamed, "same", casX, {})>>],
       [world EXCEPT !.bridges = <<No("unset")>>, !.registry = <<casG, guar, xanthan>>,
                     !.seen = xanthan :> casX],
       [world EXCEPT !.reads = FALSE, !.translations = <<>>]}

MCFilledIn ==
  [Empty EXCEPT !.name = xanthan, !.cas = casX, !.synonyms = {guar}]

-----------------------------------------------------------------------------
(* The catalogue: two experts, and the request they decide on. *)

Enter(cas, name) == [kind |-> "enter", cas |-> cas, preferred |-> name, synonyms |-> {}, excluded |-> {kamed},
                     notes |-> None]
Decide(action, suggested) == [kind |-> "decide", rfq |-> 1, action |-> action, suggested |-> suggested,
                              preferred |-> None, synonyms |-> {kamed}, notes |-> None]
Edit(cas, excluded) == [kind |-> "edit", card |-> 1, cas |-> cas, preferred |-> None, synonyms |-> None,
                        excluded |-> excluded, notes |-> "seen"]

MCIntents ==
  (e1 :> {Enter(casX, guar), Decide("confirm", guar), Edit(casG, None)})
  @@ (e2 :> {Decide("reject", guar), Edit(None, {guar}), Enter(casG, guar)})
  @@ (e3 :> {Edit(casG, {kamed}), Decide("confirm", xanthan)})

-----------------------------------------------------------------------------
(* Substitutes: a branded position without a card. *)

MCSpelling ==
  xanthan :> <<xanthan>> @@ guar :> <<guar>> @@ kamed :> <<kamed>> @@ grade :> <<c556, fluid>>
  @@ branded :> <<dowsil, c556, fluid>> @@ neighbour :> <<dowsil, c557>>

Offer(name, cas, quote, linked) ==
  [name |-> name, cas |-> cas, quote |-> quote, quoted |-> TRUE, linked |-> linked]

MCSuggestions ==
  LET world == [searches |-> <<No("blocked"), Page({casG})>>, byKind |-> Page({}), rejected |-> {}, failure |-> None,
                model |-> <<Offer(guar, casG, {}, TRUE), Offer(grade, None, {}, TRUE), Offer(neighbour, None, {}, TRUE),
                            Offer(xanthan, casX, {casX}, TRUE), Offer(kamed, None, {}, FALSE)>>]
  IN  {world, [world EXCEPT !.failure = "truncated"]}

MCPastRequests ==
  LET past == [name |-> branded, cas |-> casX, method |-> "analog", volume |-> None, incoterms |-> None,
               countries |-> {}, synonyms |-> {}, excluded |-> {}, proof |-> None, substance |-> None,
               batch |-> None, row |-> None, by |-> Nobody]
  IN  "analogs" :> <<past>>
      @@ "form" :> <<[past EXCEPT !.name = kamed, !.cas = casG, !.synonyms = {xanthan}, !.method = "cas"]>>
      @@ "import" :> <<>> @@ "catalogue" :> <<>>

MCPastAnalogs ==
  LET of(name, cas) == [rfq |-> 1, name |-> name, cas |-> cas, created |-> None, deleted |-> FALSE]
  IN  <<of(guar, casG), of(kamed, None)>>
=============================================================================
