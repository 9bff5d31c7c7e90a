-------------------------- MODULE MCQualification --------------------------
(* A manufacturer, a shop with a sourcing network, and a site quoted wrongly. *)
EXTENDS Qualification

CONSTANTS run, other, r1, maker, trader

Page(place, reads, about, says, tells, volume, zone) ==
  [place |-> place, long |-> TRUE, reads |-> reads, about |-> about, says |-> says,
   tells |-> tells, volume |-> volume, zone |-> zone]

MCFacts ==
  <<Page("own", {"chemical_identity"}, {"production_site"}, {"sourcing"}, {"permit"},
         "compatible", TRUE),
    Page("storefront", {"chemical_identity", "production_capacity", "iso"}, {}, {"sourcing"}, {},
         "unknown", FALSE),
    Page("own", {"chemical_identity", "production_site"}, {}, {}, {}, "none", TRUE)>>

Quote(what, page, quoted) == [what |-> what, side |-> "supports", page |-> page, quoted |-> quoted]

Answer(name, kind, type, country, claims) ==
  [name |-> name, kind |-> kind, type |-> type, cas |-> "confirmed", country |-> country,
   claims |-> claims]

MCAnswersTo ==
  <<{Answer(maker, "company_site", "manufacturer", "claimed",
            {Quote("manufacturer_role", 1, TRUE), Quote("country", 1, TRUE)})},
    {Answer(trader, "marketplace_storefront", "manufacturer", "likely",
            {Quote("manufacturer_role", 2, TRUE)}),
     Answer(Nobody, "market_report", "manufacturer", "claimed",
            {Quote("manufacturer_role", 2, TRUE)})},
    {Answer(maker, "company_site", "manufacturer", "not_found",
            {Quote("manufacturer_role", 1, TRUE)})}>>

Opinion(status, action) ==
  [status |-> status, action |-> action, match |-> "exact", role |-> "manufacturer"]
Fit == Opinion("confirmed", "shortlist")
MCOpinions == <<{Fit, Opinion("rejected", "reject")}, {Fit}, {Fit}>>

MCTitleKey == <<Nobody, trader, Unnamed>>
MCRfqOf == [s \in Sessions |-> r1]
Stored(source, key) ==
  [source |-> source, key |-> key, country |-> "not_found", score |-> 40, by |-> Nobody, named |-> FALSE]
MCOldRows == {<<>>, <<Stored(1, Nobody), Stored(9, trader)>>}
MCOtherCards ==
  [s \in Sessions |-> <<[source |-> 9, key |-> trader, country |-> "claimed", score |-> 50],
                        [source |-> 1, key |-> maker, country |-> "likely", score |-> 60]>>]

\* Steps that commute with those before what reads them are taken just then: the
\* other sessions when this run registers, a cancellation at the check that sees
\* it, the end of the time where a permit is asked for.
JustInTime ==
  /\ queue' # queue \/ at' # at => pc' = "register"
  /\ cancelled' # cancelled => pc = "fetch" \/ (busy /\ ask = {})
  /\ spent' # spent => ~busy
=============================================================================
