---------------------------- MODULE SupplierCard ----------------------------
(***************************************************************************)
(* What the program decides about one candidate: the evidence it accepts,  *)
(* the gates between the model's answer and the card, the score, and the   *)
(* veto of the auditor.                                                    *)
(*                                                                         *)
(* Source: backend/app/api/supplier_search.py (_inject_deterministic_      *)
(* evidence, _evidence_rejection_reason, _apply_evidence_gates),           *)
(* services/supplier_scoring.py and services/supplier_verification.py.     *)
(*                                                                         *)
(* A page is a record of what the readers of page_facts.py find on it; a   *)
(* quotation is reduced to whose page it cites and whether it stands       *)
(* there.  Texts shown to people (flags, reasons) are left out.            *)
(***************************************************************************)
EXTENDS Integers, FiniteSets

CONSTANT Analog      \* the search is for a substitute of a reference product

ASSUME AnalogAssumption == Analog \in BOOLEAN

Docs == {"gmp", "iso", "coa", "tds"}
Details == {"production_capacity", "production_site"}
Claims == {"chemical_identity", "manufacturer_role", "reseller_role", "country",
           "office_address"} \cup Details \cup Docs
NotOwnPages == {"market_report", "scientific", "directory", "marketplace_listing"}

\* What the readers find on a page and in its section "about the company".  No
\* reader finds a role of a manufacturer: that claim is the model's.
Readings == SUBSET (Claims \ {"manufacturer_role"})
Remarks == SUBSET {"permit", "sourcing", "trading"}
Volumes == {"none", "compatible", "unknown", "incompatible"}

\* A permit to produce is read as a site of production.
Pages ==
  {page \in [place : {"own", "storefront", "listing"}, long : BOOLEAN, reads : Readings,
             about : Readings, says : Remarks, tells : Remarks, volume : Volumes, zone : BOOLEAN] :
     /\ "permit" \in page.says => "production_site" \in page.reads
     /\ "permit" \in page.tells => "production_site" \in page.about}

\* The remarks of the section are the page's once it has been read.
AsRead(page, profiled) ==
  IF profiled THEN [page EXCEPT !.says = @ \cup page.tells] ELSE page

\* A claim about the country may name another one than the search asked for.
TypeOf(claim) == IF claim.what = "abroad" THEN "country" ELSE claim.what

-----------------------------------------------------------------------------
(* Evidence. *)

\* A section "about the company" testifies to the role only.
Profile(page) == page.about \cap (Details \cup {"reseller_role", "office_address"})

\* What the readers add, of the types the model has not named at all.
Added(page, answer, profiled) ==
  (page.reads \cup (IF profiled THEN Profile(page) ELSE {}))
    \ {TypeOf(c) : c \in answer.claims}

\* Mutant: a quotation from the page of another candidate counts.
AnyPage(claim, p) == claim.quoted

Accepted(claim, p) == claim.page = p /\ claim.quoted

\* The evidence of a card: the types supported, those contradicted, and
\* whether a country other than the one of the search is supported.
Evidence(p, page, answer, profiled) ==
  LET good == {c \in answer.claims : Accepted(c, p)}
  IN  [supports |-> Added(page, answer, profiled)
                      \cup {TypeOf(c) : c \in {d \in good : d.side = "supports"}},
       contradicts |-> {TypeOf(c) : c \in {d \in good : d.side = "contradicts"}},
       abroad |-> \E c \in good : c.what = "abroad" /\ c.side = "supports"]

NoEvidence == [supports |-> {}, contradicts |-> {}, abroad |-> FALSE]

-----------------------------------------------------------------------------
(* The gates.  A role is the type of the supplier and how it is proved. *)

\* A shop or a listing is a kind of page of a marketplace only.
KindOf(page, answer) ==
  IF page.place # "own" THEN answer.kind
  ELSE IF answer.kind = "marketplace_storefront" THEN "company_site"
  ELSE IF answer.kind = "marketplace_listing" THEN "directory"
  ELSE answer.kind

\* The page disputes its own figures, and no permit settles the matter.
Disputed(page, ev) ==
  /\ "permit" \notin page.says
  /\ \/ "sourcing" \in page.says
     \/ "trading" \in page.says /\ "production_capacity" \notin ev.supports

Maker(page, ev) ==
  IF Details \cap ev.supports # {} THEN
    IF Disputed(page, ev) THEN <<"unknown", "contradicted">> ELSE <<"manufacturer", "proven">>
  ELSE IF "manufacturer_role" \notin ev.supports THEN <<"unknown", "claimed">>
  ELSE IF "office_address" \in ev.supports THEN <<"unknown", "contradicted">>
  ELSE <<"manufacturer", "claimed">>

Trader(role, ev) ==
  LET resells == "reseller_role" \in ev.supports
  IN  CASE role[1] = "unknown" /\ resells /\ Details \cap ev.supports = {} ->
             <<"distributor", "proven">>
        [] role = <<"distributor", "unknown">> ->
             <<"distributor", IF resells THEN "proven" ELSE "claimed">>
        [] OTHER -> role

Role(page, answer, ev) ==
  Trader(IF answer.type = "manufacturer" THEN Maker(page, ev) ELSE <<answer.type, "unknown">>, ev)

Cas(answer, ev) ==
  LET shown == "chemical_identity" \in ev.supports
  IN  IF "chemical_identity" \in ev.contradicts THEN "mismatch"
      ELSE IF answer.cas = "confirmed" /\ ~shown THEN "not_found"
      ELSE IF answer.cas = "not_found" /\ shown THEN "confirmed"
      ELSE answer.cas

Country(page, answer, ev) ==
  LET told == IF answer.country = "claimed" /\ "country" \notin ev.supports
              THEN "not_found" ELSE answer.country
  IN  IF "country" \in ev.contradicts \/ ev.abroad THEN "mismatch"
      ELSE IF told = "not_found" /\ page.zone /\ KindOf(page, answer) \notin NotOwnPages THEN "likely"
      ELSE told

Gated(kind, type, proof, cas, country) ==
  [kind |-> kind, type |-> type, proof |-> proof, cas |-> cas, country |-> country]

\* The first three gates answer at once: what the model said of the substance
\* and the country then stands as it is.
Gates(page, answer, ev) ==
  LET kind == KindOf(page, answer)
      role == Role(page, answer, ev)
      cas == Cas(answer, ev)
      proof == IF cas = "mismatch" /\ role[2] # "proven" THEN "substance_mismatch" ELSE role[2]
  IN  IF page.place = "listing" THEN
           Gated(answer.kind, "marketplace", "marketplace_page", answer.cas, answer.country)
      ELSE IF ~page.long THEN Gated("other", "unknown", "page_missing", answer.cas, answer.country)
      ELSE IF kind \in NotOwnPages THEN
           Gated(kind, "unknown", "not_a_company_page", answer.cas, answer.country)
      ELSE Gated(kind, role[1], proof, cas, Country(page, answer, ev))

\* The card of a page the model gave no valid answer about.
Unanswered == Gated("other", "unknown", "unknown", "not_found", "not_found")

-----------------------------------------------------------------------------
(* The score. *)

Clamp(n) == IF n < 0 THEN 0 ELSE IF n > 100 THEN 100 ELSE n

Points(condition, n) == IF condition THEN n ELSE 0

DocumentPoints(ev) ==
  Points("gmp" \in ev.supports, 5) + Points("iso" \in ev.supports, 4)
    + Points("coa" \in ev.supports, 3) + Points("tds" \in ev.supports, 3)
    + Points("production_capacity" \in ev.supports, 5)
    + Points("production_site" \in ev.supports, 3)

RolePoints(card, ev) ==
  CASE card.type = "manufacturer" /\ "manufacturer_role" \in ev.supports -> 25
    [] card.type = "distributor" /\ {"manufacturer_role", "reseller_role"} \cap ev.supports # {} -> 5
    [] OTHER -> 0

Excluded(card, ev) == "chemical_identity" \in ev.contradicts \/ card.cas = "mismatch"

Score(page, card, ev) ==
  IF Excluded(card, ev) THEN 0
  ELSE Clamp(Points("chemical_identity" \in ev.supports, 35) + RolePoints(card, ev)
               + Points("country" \in ev.supports /\ card.country # "mismatch", 10)
               + DocumentPoints(ev)
               + Points(ev.supports \cup ev.contradicts # {}, 10)
               + Points(Cardinality(ev.supports) >= 3, 5)
               - Points(page.volume = "incompatible", 20) - Points(page.volume = "unknown", 5)
               - Points(card.country = "mismatch", 25))

Eligible(page, card, ev) ==
  /\ ~Excluded(card, ev)
  /\ Score(page, card, ev) >= 70
  /\ card.type = "manufacturer"
  /\ {"chemical_identity", "manufacturer_role"} \subseteq ev.supports
  /\ (Docs \cup Details) \cap ev.supports # {}
  /\ page.volume # "incompatible"
  /\ card.country # "mismatch"
  /\ ~Analog

-----------------------------------------------------------------------------
(* The auditor.  A claim has a number of its own: here its page, type, side. *)

ClaimIds(p, ev) ==
  ({p} \X ev.supports \X {"supports"}) \cup ({p} \X ev.contradicts \X {"contradicts"})

Supporting(p, ev, verdict) ==
  {id \in (verdict.cites \ verdict.disputes) \cap ClaimIds(p, ev) : id[3] = "supports"}

Contradictory(p, ev, verdict) ==
  {id \in (verdict.disputes \ verdict.cites) \cap ClaimIds(p, ev) : id[3] = "contradicts"}

Invalid(p, ev, verdict) ==
  (verdict.cites \cup verdict.disputes)
    \ (Supporting(p, ev, verdict) \cup Contradictory(p, ev, verdict))

TypesOf(ids) == {id[2] : id \in ids}

Confirmed(p, eligible, ev, verdict) ==
  /\ eligible
  /\ verdict.status = "confirmed" /\ verdict.action = "shortlist"
  /\ verdict.match = "exact" /\ verdict.role = "manufacturer"
  /\ {"chemical_identity", "manufacturer_role"} \subseteq TypesOf(Supporting(p, ev, verdict))
  /\ {"chemical_identity", "manufacturer_role"}
       \cap TypesOf(Contradictory(p, ev, verdict)) = {}
  /\ Invalid(p, ev, verdict) = {}

Rejected(p, ev, verdict) ==
  \/ verdict.status = "rejected" \/ verdict.action = "reject" \/ verdict.match = "mismatch"
  \/ "chemical_identity" \in TypesOf(Contradictory(p, ev, verdict))

Audited(p, eligible, ev, verdict) ==
  IF Confirmed(p, eligible, ev, verdict) THEN "confirmed"
  ELSE IF Rejected(p, ev, verdict) THEN "rejected"
  ELSE "needs_review"
=============================================================================
