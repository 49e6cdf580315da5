--------------------------- MODULE QuoteOps_proofs ---------------------------
(***************************************************************************)
(* Facts about what requests make of the list, used by the proofs about    *)
(* the modules that handle requests.                                       *)
(***************************************************************************)
EXTENDS QuoteOps, TLAPS

\* The row a request gives an id that had none is a quote.
LEMMA CreatedType ==
  ASSUME NEW r \in Requests PROVE Created(r) \in Quote
BY QuoteAssumption DEF Created, Requests, Quote

\* A changed quote is a quote.
LEMMA RevisedType ==
  ASSUME NEW r \in Requests, NEW q \in Quote PROVE Revised(q, r) \in Quote
<1>1. r.content \in Contents \cup {NoContent} /\ r.status \in Statuses
  BY DEF Requests
<1>2. q \in Quote /\ q.version + 1 \in Nat
  BY DEF Quote
<1>3. CASE r.kind = "patch"
  <2>1. Revised(q, r) = [q EXCEPT !.version = q.version + 1,
                                  !.content = r.content, !.status = r.status]
    BY <1>3 DEF Revised
  <2> QED BY <1>1, <1>2, <2>1 DEF Quote
<1>4. CASE r.kind # "patch"
  <2>1. Revised(q, r) = [q EXCEPT !.version = q.version + 1,
                                  !.trashed = (r.kind = "trash")]
    BY <1>4 DEF Revised
  <2> QED BY <1>2, <2>1 DEF Quote
<1> QED BY <1>3, <1>4

\* A request makes a list of a list.
LEMMA SavesType ==
  ASSUME NEW list \in Lists, NEW r \in Requests, NEW new, Saves(list, r, new)
  PROVE  new \in Lists
<1>1. CASE Upserts(list, r, new)
  <2>1. ASSUME NEW n \in Ids, new = [list EXCEPT ![n] = Created(r)]
        PROVE  new \in Lists
    BY <2>1, CreatedType DEF Lists
  <2>2. CASE r.kind \in {"patch", "trash", "restore"}
    <3>1. r.id \in Ids
      BY <2>2 DEF Requests, Ids
    <3>2. CASE new = [list EXCEPT ![r.id] = Created(r)]
      BY <3>1, <3>2, <2>1
    <3>3. CASE list[r.id] # Absent /\ new = [list EXCEPT ![r.id] = Revised(list[r.id], r)]
      BY <3>1, <3>3, RevisedType DEF Lists
    <3> QED BY <1>1, <2>2, <3>2, <3>3 DEF Upserts
  <2> QED BY <1>1, <2>1, <2>2 DEF Upserts
<1>2. CASE Transitions(list, r, new)
  <2>1. list[r.id] \in Quote /\ r.id \in Ids
    BY <1>2 DEF Transitions, Lists, Requests, Ids
  <2>2. [list[r.id] EXCEPT !.status = r.status] \in Quote
    BY <2>1 DEF Quote, Requests
  <2> QED BY <1>2, <2>1, <2>2 DEF Transitions, Lists
<1>3. CASE Purges(list, r, new)
  BY <1>3 DEF Purges, Lists
<1>4. CASE Replaces(list, r, new)
  BY <1>4 DEF Replaces
<1> QED BY <1>1, <1>2, <1>3, <1>4 DEF Saves
=============================================================================
