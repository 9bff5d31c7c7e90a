---------------------------- MODULE MCEmailInbox ----------------------------
(* Two letters of one address, about one request or two. *)
EXTENDS EmailInbox

TwoLetters == 1 .. 2
OneRfq == {1}
TwoRfqs == 1 .. 2
Subjects == {[l \in TwoLetters |-> {1}], [l \in {2} |-> {1, 2}], [l \in {2} |-> {}]}
Offers == [l \in TwoLetters |-> IF l = 1 THEN 1 ELSE 2]
=============================================================================
