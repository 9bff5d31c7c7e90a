---------------------------- MODULE MCEmailWorker ----------------------------
(* Two letters of one address, or two letters in a dialogue of the sandbox. *)
EXTENDS EmailWorker

TwoLetters == 1 .. 2
TwoRfqs == 1 .. 2
Subjects == {[l \in TwoLetters |-> {1}], [l \in {2} |-> {1, 2}], [l \in {2} |-> {}]}
Offers == [l \in TwoLetters |-> IF l = 1 THEN 1 ELSE 2]

\* What suppliers say: a price, every term of an offer, that with a certificate, a deal.
Part == {"price", "amount per unit", "currency code", "grade", "grade code"}
Priced ==
  {"price", "incoterm", "moq", "grade", "payment", "lead time", "amount of a currency", "currency code",
   "minimum order", "T/T", "grade word"}
Full == Priced \cup {"document attached", "attached CoA"}
Deal == {"commercial_commitment"}

TwoWordings == {(1 :> Part) @@ (2 :> Priced), (1 :> Part) @@ (2 :> Deal)}
PricedAndFull == {Priced, Full}
Demonstration == Full \cup {"CoA file"}
EveryOpening == {[simulation |-> "buyer_ai", delivery |-> "send"], [simulation |-> "buyer_ai", delivery |-> "preview"],
                 [simulation |-> "supplier_ai", delivery |-> "preview"]}
ThreeDrafts == {{"english", "review"}, {"english", "question", "asks price"}, {"russian"}}
OneNumber == {[valid |-> TRUE, saved |-> FALSE]}
CasAndIdentity == {"cas", "identity"}
=============================================================================
