-------------------------- MODULE SupplierRegistry --------------------------
(***************************************************************************)
(* The registry of suppliers, filled by several search runs at once.       *)
(*                                                                         *)
(* Source: backend/app/services/supplier_registry.py                       *)
(* (register_qualified_candidate, company_key), called for every card of a *)
(* run in one transaction by api/supplier_search.py.                       *)
(*                                                                         *)
(* PostgreSQL, READ COMMITTED: a query sees what is committed and what its *)
(* own session wrote; a row that another session has written is waited     *)
(* for, and two sessions that wait for each other end with an error for    *)
(* one of them.  The session writes only the columns whose value it        *)
(* changed, computed from the row as it was read.  Contacts and            *)
(* certificates are left out, but for the flush a contact brings: a row is *)
(* written before its link.                                                *)
(***************************************************************************)
EXTENDS Naturals, FiniteSets, Sequences, SequencesExt, FiniteSetsExt

CONSTANTS
  Sessions,    \* the runs that register, each in a session of its own
  RfqOf,       \* the request a run belongs to, or Nobody
  Rows,        \* bound: identifiers of suppliers
  OldRows,     \* what the registry may hold at the start
  Nobody

\* What is stored at the start was stored by none of the sessions, one row a name.
ASSUME RegistryAssumption ==
  /\ Rows \in Nat /\ Nobody \notin Sessions
  /\ \A old \in OldRows :
       /\ Len(old) \in 0 .. Rows /\ DOMAIN old = 1 .. Len(old)
       /\ \A i \in DOMAIN old : old[i].by = Nobody /\ old[i].named \in BOOLEAN
       /\ \A i, j \in DOMAIN old : i # j /\ old[i].key = old[j].key => old[i].key = Nobody

VARIABLES
  row,         \* committed suppliers
  own,         \* what a session has written and not committed
  link,        \* committed links <<request, supplier>>
  ownLink,     \* links a session has written and not committed
  queue,       \* cards a session has yet to register
  at,          \* where a session is with the first of them
  found,       \* the supplier it has found or made, and the row as it read it
  linked,      \* the link it has found
  nextId,
  before       \* history: sessions that had committed when this one began

registry == <<row, own, link, ownLink, queue, at, found, linked, nextId, before>>

\* Functions laid over each other, and one value put in.
Over(f, g) == [x \in DOMAIN f \cup DOMAIN g |-> IF x \in DOMAIN f THEN f[x] ELSE g[x]]

Put(f, id, value) == [x \in DOMAIN f \cup {id} |-> IF x = id THEN value ELSE f[x]]

\* A card carries the address and the name it is registered under.
Rank(country) ==
  CASE country = "claimed" -> 3 [] country = "likely" -> 2 [] country = "not_found" -> 1
    [] OTHER -> 0

\* The registry as a session sees it.
View(s) == Over(own[s], row)

Linked(s, id) == <<RfqOf[s], id>> \in link \cup ownLink[s]

Ids == 1 .. Rows

RegistryInit ==
  /\ row \in OldRows
  /\ own = [s \in Sessions |-> <<>>]
  /\ link = {} /\ ownLink = [s \in Sessions |-> {}]
  /\ at = [s \in Sessions |-> "idle"]
  /\ found = [s \in Sessions |-> Nobody]
  /\ linked = [s \in Sessions |-> FALSE]
  /\ nextId = Len(row) + 1
  /\ before = [s \in Sessions |-> {}]

-----------------------------------------------------------------------------
(* One card: find the supplier, write it, link it. *)

Card(s) == Head(queue[s])

SamePage(s) == {id \in DOMAIN View(s) : View(s)[id].source = Card(s).source}

\* Mutant: the company is not looked for under its name.
NoName(s) == {}

SameName(s) ==
  {id \in DOMAIN View(s) : View(s)[id].key = Card(s).key /\ Card(s).key # Nobody}

Earliest(S) == {i \in S : \A j \in S : i <= j}

\* Any row that shows this page or, if none does, the first one of this name.
Match(s) == IF SamePage(s) # {} THEN SamePage(s) ELSE Earliest(SameName(s))

Look(s) ==
  /\ at[s] \in {"idle", "look"} /\ queue[s] # <<>>
  /\ \/ /\ SamePage(s) \cup SameName(s) = {}
        /\ at' = [at EXCEPT ![s] = "insert"]
        /\ UNCHANGED found
     \/ \E id \in Match(s) :
          /\ found' = [found EXCEPT ![s] = [id |-> id, read |-> View(s)[id]]]
          /\ at' = [at EXCEPT ![s] = "update"]
  /\ before' = IF at[s] = "look" THEN before
               ELSE [before EXCEPT ![s] = {t \in Sessions : at[t] = "committed"}]
  /\ UNCHANGED <<row, own, link, ownLink, queue, linked, nextId>>

\* Of a company found elsewhere than asked no country is stored.
NewSupplier(s) ==
  [source |-> Card(s).source, key |-> Card(s).key,
   country |-> IF Rank(Card(s).country) = 0 THEN Nobody ELSE Card(s).country,
   score |-> Card(s).score, by |-> s, named |-> FALSE]

\* "named" is a history: the supplier was stored without a key and got it later.
\* Columns the session leaves as it read them keep what is now stored; the time
\* of the last check makes every meeting a write.
Updated(s, now) ==
  LET read == found[s].read  card == Card(s)
      names == read.key = Nobody /\ card.key # Nobody
  IN  [source |-> now.source, by |-> now.by,
       key |-> IF names THEN card.key ELSE now.key,
       named |-> now.named \/ names,
       country |-> IF Rank(card.country) > Rank(read.country) THEN card.country ELSE now.country,
       score |-> IF card.score > read.score THEN card.score ELSE now.score]

Inserts(s) ==
  /\ at[s] = "insert" /\ nextId \in Ids
  /\ own' = [own EXCEPT ![s] = Put(@, nextId, NewSupplier(s))]
  /\ linked' = [linked EXCEPT ![s] = FALSE]
  /\ found' = [found EXCEPT ![s] = [id |-> nextId, read |-> NewSupplier(s)]]
  /\ nextId' = nextId + 1
  /\ at' = [at EXCEPT ![s] = "link"]
  /\ UNCHANGED <<row, link, ownLink, queue, before>>

LockedBy(id, s) == {t \in Sessions \ {s} : id \in DOMAIN own[t]}

Updates(s) ==
  /\ at[s] = "update"
  /\ LET id == found[s].id IN
       /\ LockedBy(id, s) = {}
       /\ own' = [own EXCEPT ![s] = Put(@, id, Updated(s, View(s)[id]))]
       /\ linked' = [linked EXCEPT ![s] = Linked(s, id)]
  /\ at' = [at EXCEPT ![s] = "link"]
  /\ UNCHANGED <<row, link, ownLink, queue, found, nextId, before>>

NextCard(s) ==
  /\ queue' = [queue EXCEPT ![s] = Tail(@)]
  /\ at' = [at EXCEPT ![s] = "look"]
  /\ found' = [found EXCEPT ![s] = Nobody]

Links(s) ==
  LET pair == <<RfqOf[s], found[s].id>> IN
  /\ at[s] = "link"
  /\ IF RfqOf[s] = Nobody \/ linked[s] THEN UNCHANGED ownLink
     ELSE /\ \A t \in Sessions \ {s} : pair \notin ownLink[t]
          /\ pair \notin link
          /\ ownLink' = [ownLink EXCEPT ![s] = @ \cup {pair}]
  /\ NextCard(s)
  /\ UNCHANGED <<row, own, link, linked, nextId, before>>

-----------------------------------------------------------------------------
(* The transaction. *)

Commits(s) ==
  /\ at[s] \in {"idle", "look"} /\ queue[s] = <<>>
  /\ row' = Over(own[s], row)
  /\ link' = link \cup ownLink[s]
  /\ own' = [own EXCEPT ![s] = <<>>]
  /\ ownLink' = [ownLink EXCEPT ![s] = {}]
  /\ at' = [at EXCEPT ![s] = "committed"]
  /\ UNCHANGED <<queue, found, linked, nextId, before>>

\* Another session has committed the link this one is about to insert.
Collides(s) ==
  /\ at[s] = "link" /\ RfqOf[s] # Nobody /\ ~linked[s]
  /\ <<RfqOf[s], found[s].id>> \in link

\* Sessions that a session waits for.
WaitsFor(s) ==
  CASE at[s] = "update" -> LockedBy(found[s].id, s)
    [] at[s] = "link" /\ ~linked[s] /\ RfqOf[s] # Nobody ->
         {t \in Sessions \ {s} : <<RfqOf[s], found[s].id>> \in ownLink[t]}
    [] OTHER -> {}

Deadlocked(s) == \E t \in WaitsFor(s) : s \in WaitsFor(t)

\* The error leaves the qualification: everything the session wrote is lost.
Fails(s) ==
  /\ Collides(s) \/ Deadlocked(s)
  /\ own' = [own EXCEPT ![s] = <<>>]
  /\ ownLink' = [ownLink EXCEPT ![s] = {}]
  /\ queue' = [queue EXCEPT ![s] = <<>>]
  /\ found' = [found EXCEPT ![s] = Nobody]
  /\ at' = [at EXCEPT ![s] = "failed"]
  /\ UNCHANGED <<row, link, linked, nextId, before>>

Register(s) == Look(s) \/ Inserts(s) \/ Updates(s) \/ Links(s) \/ Commits(s) \/ Fails(s)

-----------------------------------------------------------------------------

Overlap(s, t) == s \notin before[t] /\ t \notin before[s]

\* A company is one row of the registry whichever pages it was found on
\* (company_key): two rows of one name come from sessions that overlapped, or
\* one of them got its name after it had been stored without.
OneRowUnlessOverlap ==
  \A i, j \in DOMAIN row :
    i # j /\ row[i].key = row[j].key /\ row[i].key # Nobody =>
      \/ row[i].named \/ row[j].named
      \/ /\ row[i].by # row[j].by
         /\ row[i].by # Nobody /\ row[j].by # Nobody /\ Overlap(row[i].by, row[j].by)

\* The unconditional claims, which the code does not meet.
OneRowPerCompany ==
  \A i, j \in DOMAIN row : row[i].key = row[j].key /\ row[i].key # Nobody => i = j

CountryNeverWeaker ==
  [][\A id \in DOMAIN row : Rank(row'[id].country) >= Rank(row[id].country)]_row
=============================================================================
