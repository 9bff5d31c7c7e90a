---------------------------- MODULE DialogueRules ----------------------------
(***************************************************************************)
(* The rules of a dialogue with a supplier: what his message is taken for, *)
(* what the dialogue has collected, whether the program may go on, and     *)
(* which drafts of an answer may leave it.                                 *)
(*                                                                         *)
(* Source: backend/app/services/communication_policy.py,                   *)
(* communication_profiles.py, communication_reply_quality.py,              *)
(* completeness.py, communication_testing.py and extraction/parsers.py.    *)
(*                                                                         *)
(* A text is the set of what the regular expressions find in it and of the *)
(* files that are read with it; a draft is the set of things it does; a    *)
(* context is the set of things the operator has given.                    *)
(***************************************************************************)
EXTENDS Naturals, Sequences, FiniteSets, SequencesExt, FiniteSetsExt

CONSTANTS
  Unavailable,   \* no answer of the model
  MaxReplies,    \* max_auto_replies of the profile
  GoalFields,    \* required_fields of the profile
  Chemist,       \* the profile hands the dialogue over when it has its goal
  Writings       \* what the model may write

-----------------------------------------------------------------------------
(* What a message is taken for: the first rule it meets, else the model. *)

RuleOrder ==
  <<"social_or_personal", "prompt_injection", "regulated_or_dangerous", "commercial_commitment",
    "identity_or_custom_synthesis", "supplier_refusal", "supplier_referral", "buyer_identity_required",
    "capacity_limitation", "off_topic", "unclear">>

RouteOf(category) ==
  CASE category = "supplier_refusal" -> "stop"
    [] category = "supplier_referral" -> "wait"
    [] category = "capacity_limitation" -> "auto_reply"
    [] OTHER -> "escalate"

Categories == Range(RuleOrder) \cup {"standard_procurement", "sensitive_information"}

RulesMet(text) == {k \in DOMAIN RuleOrder : RuleOrder[k] \in text}
FirstRule(text) == RuleOrder[Min(RulesMet(text))]

\* The model may not let through what the schema ties to another route.
Coherent(answer) ==
  /\ answer.route \in {"auto_reply", "escalate", "stop", "wait"}
  /\ answer.category \in Categories
  /\ answer.route = "auto_reply" => answer.category \in {"standard_procurement", "capacity_limitation"}
  /\ answer.route = "stop" => answer.category = "supplier_refusal"
  /\ answer.route = "wait" => answer.category = "supplier_referral"

\* Without the rules.
JudgedByModel(text, answer) ==
  IF answer # Unavailable /\ Coherent(answer) THEN answer ELSE [category |-> "unclear", route |-> "escalate"]

Judged(text, answer) ==
  IF RulesMet(text) # {} THEN [category |-> FirstRule(text), route |-> RouteOf(FirstRule(text))]
  ELSE IF answer # Unavailable /\ Coherent(answer) THEN answer
  ELSE [category |-> "unclear", route |-> "escalate"]

Allowed(text, answer) == Judged(text, answer).route = "auto_reply"

\* The substance of a first letter: the numbers in the context are checked by
\* their sum, by the stored or a new look into PubChem, and by the model.
MaxIdentityNumbers == 10

IdentityHolds(numbers, lookup, answer) ==
  numbers = {}
    \/ /\ Cardinality(numbers) <= MaxIdentityNumbers
       /\ \A n \in numbers : n.valid /\ (n.saved \/ lookup = "confirmed")
       /\ answer # Unavailable /\ answer = [route |-> "continue", category |-> "consistent"]

-----------------------------------------------------------------------------
(* What a dialogue has collected. *)

RequiredFields == {"price", "currency", "incoterm", "moq", "grade", "payment_terms", "lead_time"}
Threshold == 70    \* percent

\* The forms each parser knows, in the order it tries them, and how sure a
\* value is then.
OfferForms ==
  [price |-> <<<<"amount of a currency", 90>>, <<"amount per unit", 70>>>>,
   currency |-> <<<<"currency code", 95>>, <<"currency sign", 85>>>>,
   incoterm |-> <<<<"incoterm", 90>>>>,
   moq |-> <<<<"minimum order", 90>>>>]

TermForms ==
  [lead_time |-> <<<<"lead time", 85>>>>,
   payment_terms |-> <<<<"T/T", 85>>, <<"deposit", 75>>>>,
   grade |-> <<<<"grade word", 85>>, <<"grade code", 80>>, <<"purity", 75>>>>]

Forms == [f \in RequiredFields |-> IF f \in DOMAIN OfferForms THEN OfferForms[f] ELSE TermForms[f]]
Found(text, field) == {k \in DOMAIN Forms[field] : Forms[field][k][1] \in text}

\* A certificate is there when its file is, or when the text says so and does
\* not say the contrary.
Papers ==
  {[name |-> "CoA", file |-> "CoA file", given |-> "attached CoA", denied |-> "no CoA"],
   [name |-> "TDS", file |-> "TDS file", given |-> "attached TDS", denied |-> "no TDS"]}

Extracted(text) ==
  LET found == {f \in RequiredFields : Found(text, f) # {}}
  IN  [fields |-> [f \in found |-> Forms[f][Min(Found(text, f))][2]],
       papers |-> {paper.name : paper \in {q \in Papers : q.file \in text \/ (q.given \in text /\ q.denied \notin text)}}]

\* A later value replaces an earlier one unless it is less certain: the most
\* certain stays.
Surest(drafts, f) == Max({q.fields[f] : q \in {r \in drafts : f \in DOMAIN r.fields}})

\* A dialogue's texts are a function of the ids of its messages.
Collected(texts) ==
  LET drafts == {Extracted(texts[i]) : i \in DOMAIN texts}
  IN  [fields |-> [f \in UNION {DOMAIN q.fields : q \in drafts} |-> Surest(drafts, f)],
       papers |-> UNION {q.papers : q \in drafts}]

\* The documents are not asked for.
CompleteWithoutPapers(quote) ==
  \A f \in RequiredFields : f \in DOMAIN quote.fields /\ quote.fields[f] >= Threshold

QuoteComplete(quote) ==
  /\ \A f \in RequiredFields : f \in DOMAIN quote.fields /\ quote.fields[f] >= Threshold
  /\ quote.papers # {}

\* The goal of a profile does not ask how certain a value is.
GoalReached(quote) ==
  /\ GoalFields # {}
  /\ \A f \in GoalFields : IF f = "specification" THEN quote.papers # {} ELSE f \in DOMAIN quote.fields

\* One answer more than the profile allows.
WithinBudgetAndOne(text, used, spent) == "too long" \notin text /\ used <= MaxReplies /\ ~spent

\* "spent": the limit of time, tokens or cost is reached.
WithinBudget(text, used, spent) == "too long" \notin text /\ used < MaxReplies /\ ~spent

-----------------------------------------------------------------------------
(* Which drafts may leave. *)

Said(texts) == UNION {texts[i] : i \in DOMAIN texts}
Latest(texts) == IF DOMAIN texts = {} THEN {} ELSE texts[Max(DOMAIN texts)]

OfferComplete(texts) ==
  {"price", "incoterm", "moq", "grade", "payment", "lead time", "document attached"} \subseteq Said(texts)

\* The supplier waits for the buyer's own data.
Blocked(context, texts) ==
  \/ "asks for company" \in Latest(texts) /\ "company" \notin context
  \/ "asks for packaging" \in Latest(texts) /\ "packaging" \notin context

CapacityIssue(texts, draft) ==
  /\ "capacity" \in Latest(texts)
  /\ \/ "maximum" \notin Latest(texts) /\ "asks maximum" \notin draft
     \/ "price" \notin Latest(texts) /\ "asks price" \notin draft

Requesting(draft) == {"question", "request"} \cap draft # {}

\* After a complete offer nothing is asked; before it, what is missing most
\* comes first and what is known is not asked again.
ReplyIssue(context, texts, draft) ==
  \/ "too long" \in draft
  \/ IF OfferComplete(texts)
     THEN "long" \in draft \/ Requesting(draft) \/ "review" \notin draft
     ELSE \/ CapacityIssue(texts, draft)
          \/ Blocked(context, texts) /\ Requesting(draft)
          \/ /\ {"price", "packaging"} \subseteq Said(texts) /\ "moq" \notin Said(texts)
             /\ ~Blocked(context, texts) /\ "asks moq" \notin draft
          \/ /\ "grade" \in context /\ "required grade" \notin Said(texts)
             /\ ~Blocked(context, texts) /\ "asks grade" \notin draft
          \/ "price of another scope" \in Latest(texts) /\ "earlier price" \notin draft
          \/ "dispatch" \in Latest(texts) /\ "asks dispatch" \in draft
          \/ "validity" \in Latest(texts) /\ "asks validity" \in draft
          \/ /\ "only advance" \in Said(texts) /\ "asks payment" \in draft
             /\ "other payment" \notin context

DeliveryIssue(context, texts, draft) ==
  \/ "destination" \notin context /\ {"asks destination", "delivered price"} \cap draft # {}
  \/ /\ {"fca", "exw"} \cap Latest(texts) # {}
     /\ \/ "carriage error" \in draft
        \/ "destination" \in context /\ "turns into delivery" \in draft
        \/ "destination" \in context /\ "asks exw" \in draft /\ "exw" \notin context
        \/ "freight" \in draft /\ "delivery" \notin context

Scopes == {"sample", "pilot batch", "container", "annual volume"}
PaperTerms ==
  {[asked |-> "asks CoA", given |-> "attached CoA"], [asked |-> "asks SDS", given |-> "attached SDS"],
   [asked |-> "asks TDS", given |-> "attached TDS"]}

Issue(context, texts, draft, stage) ==
  \/ "commitment" \in draft
  \/ "chooses packaging" \in draft /\ "packaging" \notin context
  \/ stage = "reply" /\ ReplyIssue(context, texts, draft)
  \/ stage = "initial" /\ "cas" \notin context /\ "asks cas" \notin draft
  \/ stage = "initial" /\ "identity" \notin context /\ "asks identity" \notin draft
  \/ DeliveryIssue(context, texts, draft)
  \/ {"anhydrous", "percent"} \subseteq Latest(texts) /\ "asks form" \in draft
  \/ \E paper \in PaperTerms : paper.asked \in draft /\ paper.given \in Said(texts)
  \/ \E scope \in Scopes : scope \in draft /\ scope \notin context \cup Said(texts)
  \/ "question" \in draft /\ \E own \in {"target price", "application"} : own \in draft /\ own \notin context

\* What the program writes itself when the model fails twice.
Fallback(texts) ==
  LET requests == {<<"maximum", "asks maximum">>, <<"price", "asks price">>}
      missing == {r[2] : r \in {q \in requests : q[1] \notin Latest(texts)}}
  IN  IF OfferComplete(texts) THEN {"english", "review"}
      ELSE IF "capacity" \in Latest(texts) /\ missing # {} THEN missing \cup {"english", "question"}
      ELSE {}

\* A draft in another language is written once more, one with an issue once
\* more too, and then the program's own answer is tried: what may come of it is
\* a draft that passes, the program's own where a draft has failed, or nothing.
MayWrite(context, texts, stage) ==
  LET english == {d \in Writings : "english" \in d}
      fine == {d \in english : ~Issue(context, texts, d, stage)}
      own == Fallback(texts)
  IN  {Unavailable} \cup fine
        \cup {d \in {own} : d # {} /\ fine # english /\ ~Issue(context, texts, d, stage)}
=============================================================================
