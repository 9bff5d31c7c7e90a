--------------------------- MODULE MCWhatsAppInbox ---------------------------
(* Two messages, of every kind of sender. *)
EXTENDS WhatsAppInbox, TLC

CONSTANTS m1, m2

Pairs(first, second) == (m1 :> first) @@ (m2 :> second)
Partners ==
  {Pairs("one", "several"), Pairs("one", "one"), Pairs("test", "test"), Pairs("one", "nobody")}
Offers == Pairs(2, 0)
=============================================================================
