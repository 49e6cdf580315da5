------------------------- MODULE SmartClient_proofs -------------------------
(***************************************************************************)
(* The outbox and the pulls of the desktop client, for every set of        *)
(* updates, pushes, pulls and rows and every bound.                        *)
(***************************************************************************)
EXTENDS SmartClient, FiniteSetTheorems, WellFoundedInduction, TLAPS

\* A set of naturals that is not empty has a least element.
LEMMA LeastOfNats ==
  ASSUME NEW S \in SUBSET Nat, S # {}
  PROVE  \E n \in S : \A k \in S : n <= k
<1>1. PICK n \in S : \A k \in S : ~(<<k, n>> \in OpToRel(<, Nat))
  BY NatLessThanWellFounded, WFMin
<1>2. \A k \in S : <<k, n>> \in Nat \X Nat
  OBVIOUS
<1>3. \A k \in S : ~(k < n)
  BY <1>1, <1>2, Zenon DEF OpToRel
<1> QED BY <1>3

\* A bounded set of naturals that is not empty has a greatest element.
LEMMA GreatestOfNats ==
  ASSUME NEW N \in Nat, NEW S \in SUBSET (0..N), S # {}
  PROVE  \E n \in S : \A k \in S : k <= n
<1> DEFINE B == {m \in Nat : \A k \in S : k <= m}
<1>1. N \in B
  OBVIOUS
<1>2. PICK n \in B : \A k \in B : n <= k
  <2> HIDE DEF B
  <2>1. B \in SUBSET Nat
    BY DEF B
  <2> QED BY <1>1, <2>1, LeastOfNats
<1>3. n \in Nat /\ \A k \in S : k \in Nat /\ k <= n
  BY <1>2
<1>4. ASSUME n \notin S PROVE FALSE
  <2>1. PICK k \in S : TRUE
    OBVIOUS
  <2>2. n # 0
    BY <1>3, <1>4, <2>1
  <2>3. \A m \in S : m <= n - 1
    BY <1>3, <1>4
  <2>4. n - 1 \in B
    BY <1>3, <2>2, <2>3
  <2> QED BY <1>2, <1>3, <2>4
<1> QED BY <1>3, <1>4

-----------------------------------------------------------------------------
\* Ids count up and are not given twice; a failing item stops in time.
Numbered(box) ==
    /\ IsFiniteSet(box)
    /\ \A i \in box : i.id <= Cardinality(box)
    /\ \A i, j \in box : i.id = j.id => i = j
    /\ \A i \in box : i.status = "pending" => i.attempts < MaxAttempts

\* What a push b has left is in the outbox, and pending.
InHand(box, b) ==
    b # Idle =>
      /\ b.todo # {}
      /\ \A n \in b.todo : \E i \in box : i.id = n /\ i.status = "pending"

Least(ids) == CHOOSE n \in ids : \A k \in ids : n <= k

\* A push that was answered has the item the answer is about.
Replied(box, b, seen) ==
    b # Idle /\ b.answer \in {"ok", "conflict"} =>
      \A i \in box : i.id = Least(b.todo) => i.write \in seen

Acknowledged(box, seen) == \A i \in box : i.status = "done" => i.write \in seen

\* One push at a time, under the flag.
Single(pushes, flag) ==
    /\ \A s, t \in Pushes : pushes[s] # Idle /\ pushes[t] # Idle => s = t
    /\ \A s \in Pushes : pushes[s] # Idle => flag = TRUE

OutboxTypeOK ==
    /\ outbox \in SUBSET Items
    /\ pushInFlight \in BOOLEAN
    /\ push \in [Pushes -> Batches \cup {Idle}]
    /\ version \in 1..MaxVersion
    /\ base \in [Writes -> 0..MaxVersion]
    /\ late \in SUBSET Writes
    /\ applied \in [Writes -> Nat]
    /\ answered \in SUBSET Writes

OutboxInv ==
    /\ OutboxTypeOK
    /\ Numbered(outbox)
    /\ Single(push, pushInFlight)
    /\ \A s \in Pushes : InHand(outbox, push[s]) /\ Replied(outbox, push[s], answered)
    /\ Acknowledged(outbox, answered)

\* The item a push is at is there, and is the only one of its id.
LEMMA CurrentItem ==
  ASSUME OutboxInv, NEW s \in Pushes, push[s] # Idle
  PROVE  /\ Current(s) \in push[s].todo
         /\ Current(s) = Least(push[s].todo)
         /\ CurrentWrite(s) \in Writes
         /\ \E i \in outbox : /\ i.id = Current(s) /\ i.status = "pending"
                              /\ i.write = CurrentWrite(s)
                              /\ \A j \in outbox : j.id = Current(s) => j = i
<1>1. push[s].todo \in SUBSET Nat /\ push[s].todo # {}
  BY DEF OutboxInv, OutboxTypeOK, Batches, InHand
<1>2. Current(s) \in push[s].todo
  BY <1>1, LeastOfNats DEF Current
<1>3. PICK i \in outbox : i.id = Current(s) /\ i.status = "pending"
  BY <1>2 DEF OutboxInv, InHand
<1>4. \A j \in outbox : j.id = Current(s) => j = i
  BY <1>3 DEF OutboxInv, Numbered
<1>5. CurrentWrite(s) = i.write
  BY <1>3, <1>4 DEF CurrentWrite
<1>6. i.write \in Writes
  BY DEF OutboxInv, OutboxTypeOK, Items
<1> QED BY <1>2, <1>3, <1>4, <1>5, <1>6 DEF Current, Least

-----------------------------------------------------------------------------
\* The oldest of the pending items are some of them.
LEMMA OldestPending ==
  ASSUME OutboxTypeOK, Pending # {}
  PROVE  Oldest(Pending) # {} /\ Oldest(Pending) \subseteq Pending /\ Pending \subseteq Nat \ {0}
<1>1. Pending \subseteq Nat \ {0}
  BY DEF OutboxTypeOK, Pending, Items
<1>2. PICK n \in Pending : \A k \in Pending : n <= k
  BY <1>1, LeastOfNats
<1>3. {k \in Pending : k < n} = {}
  <2>1. \A k \in Pending : ~(k < n)
    BY <1>1, <1>2
  <2> QED BY <2>1
<1>4. Cardinality({k \in Pending : k < n}) < Batch
  BY <1>3, FS_EmptySet, SmartClientAssumption
<1>5. n \in Oldest(Pending)
  BY <1>4 DEF Oldest
<1> QED BY <1>1, <1>5 DEF Oldest

\* A push takes the flag, and pending items.
LEMMA StartPushGood ==
  ASSUME OutboxInv, NEW s \in Pushes, StartPush(s),
         UNCHANGED <<outbox, version, base, late, applied, answered>>
  PROVE  OutboxInv'
<1>1. Oldest(Pending) # {} /\ Oldest(Pending) \subseteq Pending /\ Pending \subseteq Nat \ {0}
  BY OldestPending DEF StartPush, OutboxInv
<1> DEFINE b == [todo |-> Oldest(Pending), answer |-> "none"]
<1>2. b \in Batches /\ b.todo = Oldest(Pending) /\ b.answer = "none"
  BY <1>1 DEF Batches, Answers
<1>3. /\ push' = [push EXCEPT ![s] = b] /\ pushInFlight' = TRUE
      /\ \A t \in Pushes : push[t] = Idle
  BY DEF StartPush, OutboxInv, Single
<1>4. \A n \in b.todo : \E i \in outbox : i.id = n /\ i.status = "pending"
  BY <1>1, <1>2 DEF Pending
<1> HIDE DEF b
<1>5. /\ push' \in [Pushes -> Batches \cup {Idle}] /\ push'[s] = b
      /\ \A t \in Pushes \ {s} : push'[t] = Idle
  BY <1>2, <1>3 DEF OutboxInv, OutboxTypeOK
<1>6. OutboxTypeOK'
  BY <1>3, <1>5 DEF OutboxInv, OutboxTypeOK
<1>7. Single(push', pushInFlight')
  BY <1>3, <1>5 DEF Single
<1>8. \A t \in Pushes : InHand(outbox, push'[t]) /\ Replied(outbox, push'[t], answered)
  BY <1>1, <1>2, <1>4, <1>5 DEF InHand, Replied
<1> QED BY <1>6, <1>7, <1>8 DEF OutboxInv

\* More writes answered, and the rest of the outbox as it was.
LEMMA SeenGrows ==
  ASSUME OutboxInv, NEW seen, answered \subseteq seen
  PROVE  /\ \A s \in Pushes : Replied(outbox, push[s], seen)
         /\ Acknowledged(outbox, seen)
  BY DEF OutboxInv, Replied, Acknowledged

\* A queued item has a new id.
LEMMA EnqueueGood ==
  ASSUME OutboxInv, NEW w \in Writes, Enqueue(w)
  PROVE  /\ outbox' \in SUBSET Items
         /\ Numbered(outbox')
         /\ \A s \in Pushes : InHand(outbox', push[s]) /\ Replied(outbox', push[s], answered)
         /\ Acknowledged(outbox', answered)
<1> DEFINE i == [id |-> Cardinality(outbox) + 1, write |-> w,
                 attempts |-> 0, status |-> "pending"]
<1>1. IsFiniteSet(outbox) /\ Cardinality(outbox) \in Nat
  BY FS_CardinalityType DEF OutboxInv, Numbered
<1>2. /\ i \in Items /\ i.id = Cardinality(outbox) + 1 /\ i.write = w
      /\ i.attempts < MaxAttempts /\ i.status = "pending"
  BY <1>1, SmartClientAssumption DEF Items
<1>3. outbox' = outbox \cup {i}
  BY DEF Enqueue
<1>4. \A j \in outbox : j.id \in Nat /\ j.id <= Cardinality(outbox)
  BY DEF OutboxInv, OutboxTypeOK, Items, Numbered
<1> HIDE DEF i
<1>5. i \notin outbox
  BY <1>1, <1>2, <1>4
<1>6. IsFiniteSet(outbox') /\ Cardinality(outbox') = Cardinality(outbox) + 1
  BY <1>1, <1>3, <1>5, FS_AddElement
<1>7. Numbered(outbox')
  BY <1>1, <1>2, <1>3, <1>4, <1>6 DEF OutboxInv, Numbered
<1>8. ASSUME NEW s \in Pushes
      PROVE  InHand(outbox', push[s]) /\ Replied(outbox', push[s], answered)
  <2>1. InHand(outbox', push[s])
    BY <1>3 DEF OutboxInv, InHand
  <2>2. push[s] # Idle => \E j \in outbox : j.id = Least(push[s].todo)
    BY CurrentItem
  <2>3. push[s] # Idle => i.id # Least(push[s].todo)
    BY <1>1, <1>2, <1>4, <2>2
  <2> QED BY <1>3, <2>1, <2>3 DEF OutboxInv, Replied
<1> QED BY <1>2, <1>3, <1>7, <1>8 DEF OutboxInv, OutboxTypeOK, Acknowledged

\* An update is applied or not; its version moves with it.
LEMMA UpdateType ==
  ASSUME OutboxTypeOK, NEW w, NEW b, Update(w, b)
  PROVE  version' \in 1..MaxVersion /\ applied' \in [Writes -> Nat]
<1>1. version' \in 1..MaxVersion
  BY SmartClientAssumption DEF OutboxTypeOK, Update
<1>2. applied' = applied \/ applied' = [applied EXCEPT ![w] = applied[w] + 1]
  BY DEF Update
<1>3. applied' \in [Writes -> Nat]
  BY <1>2 DEF OutboxTypeOK
<1> QED BY <1>1, <1>3

LEMMA WriteGood == ASSUME OutboxInv, NEW w \in Writes, Write(w) PROVE OutboxInv'
<1>1. PICK b \in 1..version : base' = [base EXCEPT ![w] = b]
  BY DEF Write
<1>2. base' \in [Writes -> 0..MaxVersion]
  <2>1. b \in 0..MaxVersion
    BY SmartClientAssumption DEF OutboxInv, OutboxTypeOK
  <2> QED BY <1>1, <2>1 DEF OutboxInv, OutboxTypeOK
<1>3. version' \in 1..MaxVersion /\ applied' \in [Writes -> Nat]
  BY UpdateType DEF Write, OutboxInv, OutboxTypeOK
<1>4. late' \in SUBSET Writes /\ answered' \in SUBSET Writes /\ answered \subseteq answered'
  BY DEF Write, OutboxInv, OutboxTypeOK
<1>5. push' = push /\ pushInFlight' = pushInFlight
  BY DEF Write
<1>6. CASE UNCHANGED outbox
  BY <1>2, <1>3, <1>4, <1>5, <1>6, SeenGrows DEF OutboxInv, OutboxTypeOK
<1>7. CASE Enqueue(w) /\ UNCHANGED answered
  BY <1>2, <1>3, <1>4, <1>5, <1>7, EnqueueGood DEF OutboxInv, OutboxTypeOK
<1> QED BY <1>6, <1>7 DEF Write

\* The answer of the server about the item a push is at.
LEMMA HandleGood == ASSUME OutboxInv, NEW s \in Pushes, Handle(s) PROVE OutboxInv'
<1>1. push[s] # Idle /\ push[s] \in Batches
  BY DEF Handle, OutboxInv, OutboxTypeOK
<1>2. CurrentWrite(s) \in Writes
  BY <1>1, CurrentItem
<1>3. PICK a \in Answers :
        /\ push' = [push EXCEPT ![s] = [push[s] EXCEPT !.answer = a]]
        /\ a \in {"ok", "conflict"} => CurrentWrite(s) \in answered'
  BY DEF Handle, Verdict, Answers
<1> DEFINE b == [push[s] EXCEPT !.answer = a]
<1>4. b \in Batches /\ b # Idle /\ b.todo = push[s].todo /\ b.answer = a
  BY <1>1, SmartIdleAssumption DEF Batches
<1>5. push' = [push EXCEPT ![s] = b]
  BY <1>3
<1> HIDE DEF b
<1>6. /\ push' \in [Pushes -> Batches \cup {Idle}] /\ push'[s] = b
      /\ \A t \in Pushes \ {s} : push'[t] = push[t]
  BY <1>4, <1>5 DEF OutboxInv, OutboxTypeOK
<1>7. late' \in SUBSET Writes /\ answered' \in SUBSET Writes /\ answered \subseteq answered'
  BY <1>2 DEF Handle, OutboxInv, OutboxTypeOK
<1>8. version' \in 1..MaxVersion /\ applied' \in [Writes -> Nat]
  BY UpdateType DEF Handle, OutboxInv, OutboxTypeOK
<1>9. UNCHANGED <<outbox, pushInFlight, base>>
  BY DEF Handle
<1>10. OutboxTypeOK'
  BY <1>6, <1>7, <1>8, <1>9 DEF OutboxInv, OutboxTypeOK
<1>11. Single(push', pushInFlight')
  BY <1>1, <1>6, <1>9 DEF OutboxInv, Single
<1>12. \A t \in Pushes : InHand(outbox, push'[t])
  BY <1>1, <1>4, <1>6 DEF OutboxInv, InHand
<1>13. ASSUME NEW t \in Pushes PROVE Replied(outbox, push'[t], answered')
  <2>1. CASE t = s
    <3>1. \A i \in outbox : i.id = Least(push[s].todo) => i.write = CurrentWrite(s)
      BY <1>1, CurrentItem
    <3> QED BY <1>3, <1>4, <1>6, <2>1, <3>1 DEF Replied
  <2>2. CASE t # s
    BY <1>6, <1>7, <2>2, SeenGrows
  <2> QED BY <2>1, <2>2
<1> QED BY <1>7, <1>9, <1>10, <1>11, <1>12, <1>13, SeenGrows DEF OutboxInv

\* The item of an answer is done, failed or pending again; the others stay.
LEMMA MarkGood == ASSUME OutboxInv, NEW s \in Pushes, Mark(s) PROVE OutboxInv'
<1> DEFINE n == Current(s)
           left == push[s].todo \ {n}
           F == [i \in outbox |->
                   IF i.id # n THEN i
                   ELSE IF Done(push[s].answer) THEN [i EXCEPT !.status = "done"]
                   ELSE [i EXCEPT !.attempts = @ + 1, !.status = StatusAfter(i.attempts + 1)]]
<1>1. push[s] # Idle /\ push[s] \in Batches
  BY DEF Mark, OutboxInv, OutboxTypeOK
<1>2. outbox' = {F[i] : i \in outbox}
  BY DEF Mark
<1>3. ASSUME NEW i \in outbox, i.id # n PROVE F[i] = i
  BY <1>3
<1>4. ASSUME NEW i \in outbox, i.id = n
      PROVE  /\ F[i] \in Items /\ F[i].id = i.id /\ F[i].write = i.write
             /\ F[i].status = "done" => i.write \in answered
             /\ F[i].status = "pending" => F[i].attempts < MaxAttempts
  <2>1. i \in Items /\ i.attempts < MaxAttempts /\ i.attempts \in Nat
    <3>1. PICK j \in outbox : j.id = n /\ j.status = "pending"
      BY <1>1, CurrentItem
    <3>2. j = i
      BY <1>4, <3>1 DEF OutboxInv, Numbered
    <3> QED BY <3>1, <3>2 DEF OutboxInv, OutboxTypeOK, Numbered, Items
  <2>2. CASE Done(push[s].answer)
    <3>1. F[i] = [i EXCEPT !.status = "done"]
      BY <1>4, <2>2
    <3>2. i.write \in answered
      BY <1>1, <1>4, <2>2, CurrentItem DEF Done, OutboxInv, Replied
    <3> QED BY <2>1, <3>1, <3>2 DEF Items
  <2>3. CASE ~Done(push[s].answer)
    <3>1. F[i] = [i EXCEPT !.attempts = i.attempts + 1, !.status = StatusAfter(i.attempts + 1)]
      BY <1>4, <2>3
    <3>2. /\ StatusAfter(i.attempts + 1) \in {"pending", "failed"}
          /\ StatusAfter(i.attempts + 1) = "pending" => i.attempts + 1 < MaxAttempts
      BY <2>1, SmartClientAssumption DEF StatusAfter
    <3>3. i.attempts + 1 \in 0..MaxAttempts
      BY <2>1, SmartClientAssumption
    <3> HIDE DEF F
    <3> QED BY <2>1, <3>1, <3>2, <3>3 DEF Items
  <2> QED BY <2>2, <2>3
<1>5. /\ push' = [push EXCEPT ![s] = IF left = {} THEN Idle
                                     ELSE [todo |-> left, answer |-> "none"]]
      /\ pushInFlight' = (left # {})
      /\ UNCHANGED <<version, base, late, applied, answered>>
  BY DEF Mark
<1>6. left \in SUBSET (Nat \ {0}) /\ left \subseteq push[s].todo /\ n \notin left
  BY <1>1 DEF Batches
<1>7. \A i \in outbox : F[i].id = i.id
  BY <1>3, <1>4
<1> HIDE DEF F, n, left
<1>8. outbox' \in SUBSET Items
  BY <1>2, <1>3, <1>4 DEF OutboxInv, OutboxTypeOK
<1>9. IsFiniteSet(outbox') /\ Cardinality(outbox') = Cardinality(outbox)
  <2>1. F \in Bijection(outbox, outbox')
    <3>1. F \in [outbox -> outbox'] /\ DOMAIN F = outbox
      BY <1>2 DEF F
    <3>2. \A i, j \in outbox : F[i] = F[j] => i = j
      BY <1>7 DEF OutboxInv, Numbered
    <3>3. \A x \in outbox' : \E i \in outbox : F[i] = x
      BY <1>2
    <3> QED BY <3>1, <3>2, <3>3 DEF Bijection, Injection, Surjection, IsInjective
  <2>2. ExistsBijection(outbox, outbox')
    BY <2>1 DEF ExistsBijection
  <2> QED BY <2>2, FS_Bijection DEF OutboxInv, Numbered
<1>10. Numbered(outbox')
  <2>1. \A i \in outbox' : i.id <= Cardinality(outbox')
    BY <1>2, <1>7, <1>9 DEF OutboxInv, Numbered
  <2>2. \A i, j \in outbox' : i.id = j.id => i = j
    BY <1>2, <1>7 DEF OutboxInv, Numbered
  <2>3. \A i \in outbox' : i.status = "pending" => i.attempts < MaxAttempts
    BY <1>2, <1>3, <1>4 DEF OutboxInv, Numbered
  <2> QED BY <1>9, <2>1, <2>2, <2>3 DEF Numbered
<1>11. Acknowledged(outbox', answered)
  <2>1. \A i \in outbox : F[i].status = "done" => F[i].write \in answered
    BY <1>3, <1>4 DEF OutboxInv, Acknowledged
  <2> QED BY <1>2, <2>1 DEF Acknowledged
<1>12. /\ push' \in [Pushes -> Batches \cup {Idle}]
       /\ push'[s] = IF left = {} THEN Idle ELSE [todo |-> left, answer |-> "none"]
       /\ \A t \in Pushes \ {s} : push'[t] = Idle
  <2>1. left # {} => [todo |-> left, answer |-> "none"] \in Batches
    BY <1>6 DEF Batches, Answers
  <2>2. \A t \in Pushes \ {s} : push[t] = Idle
    BY <1>1 DEF OutboxInv, Single
  <2> QED BY <1>5, <2>1, <2>2 DEF OutboxInv, OutboxTypeOK
<1>13. Single(push', pushInFlight')
  BY <1>5, <1>12 DEF Single
<1>14. ASSUME NEW k \in left PROVE \E i \in outbox' : i.id = k /\ i.status = "pending"
  <2>1. PICK i \in outbox : i.id = k /\ i.status = "pending"
    BY <1>1, <1>6 DEF OutboxInv, InHand
  <2>2. F[i] = i /\ F[i] \in outbox'
    BY <1>2, <1>3, <1>6, <2>1
  <2> QED BY <2>1, <2>2
<1>15. \A t \in Pushes : InHand(outbox', push'[t]) /\ Replied(outbox', push'[t], answered)
  <2> DEFINE b == [todo |-> left, answer |-> "none"]
  <2>1. b.todo = left /\ b.answer = "none"
    OBVIOUS
  <2>2. \A t \in Pushes : push'[t] = Idle \/ (left # {} /\ push'[t] = b)
    <3>1. push'[s] = Idle \/ (left # {} /\ push'[s] = b)
      BY <1>12
    <3> HIDE DEF b
    <3> QED BY <1>12, <3>1
  <2> HIDE DEF b
  <2> QED BY <1>14, <2>1, <2>2 DEF InHand, Replied
<1>16. OutboxTypeOK'
  BY <1>5, <1>8, <1>12 DEF OutboxInv, OutboxTypeOK
<1> QED BY <1>5, <1>10, <1>11, <1>13, <1>15, <1>16 DEF OutboxInv

LEMMA OutboxStep == ASSUME OutboxInv, [Next]_vars PROVE OutboxInv'
<1>1. ASSUME UNCHANGED outboxVars PROVE OutboxInv'
  BY <1>1 DEF outboxVars, OutboxInv, OutboxTypeOK, Numbered, Acknowledged
<1>2. ASSUME NEW up \in BOOLEAN, Ping(up) PROVE OutboxInv'
  <2>1. UNCHANGED <<outbox, version, base, late, applied, answered>>
    BY <1>2 DEF Ping
  <2>2. NoPush \/ \E s \in Pushes : StartPush(s)
    BY <1>2 DEF Ping
  <2> QED BY <1>1, <2>1, <2>2, StartPushGood DEF NoPush, outboxVars
<1>3. CASE TriggerSync
  BY <1>3, StartPushGood DEF TriggerSync
<1>4. ASSUME NEW w \in Writes, HandleLate(w) PROVE OutboxInv'
  <2>1. version' \in 1..MaxVersion /\ applied' \in [Writes -> Nat]
    BY <1>4, UpdateType DEF HandleLate, OutboxInv
  <2> QED BY <1>4, <2>1 DEF HandleLate, OutboxInv, OutboxTypeOK, Numbered, Acknowledged
<1>5. CASE OtherSave
  <2>1. version' \in 1..MaxVersion
    BY <1>5, SmartClientAssumption DEF OtherSave, OutboxInv, OutboxTypeOK
  <2> QED BY <1>5, <2>1 DEF OtherSave, OutboxInv, OutboxTypeOK, Numbered, Acknowledged
<1>6. CASE Quit
  <2>1. late' \in SUBSET Writes
    <3>1. PICK sent \in SUBSET {s \in Pushes : push[s] # Idle /\ push[s].answer = "none"} :
            late' = late \cup {CurrentWrite(s) : s \in sent}
      BY <1>6 DEF Quit
    <3>2. \A s \in sent : CurrentWrite(s) \in Writes
      BY CurrentItem
    <3> QED BY <3>1, <3>2 DEF OutboxInv, OutboxTypeOK
  <2>2. \A s \in Pushes : push'[s] = Idle
    BY <1>6 DEF Quit
  <2>3. OutboxTypeOK'
    BY <1>6, <2>1 DEF Quit, OutboxInv, OutboxTypeOK
  <2> QED BY <1>6, <2>2, <2>3
          DEF Quit, OutboxInv, Numbered, Single, InHand, Replied, Acknowledged
<1> QED BY <1>1, <1>2, <1>3, <1>4, <1>5, <1>6, WriteGood, HandleGood, MarkGood
        DEF Next, vars, SaveTable, Pull, Answer, NoAnswer, Apply

LEMMA OutboxInvariance == Spec => []OutboxInv
<1>1. ASSUME Init PROVE OutboxInv
  <2>1. OutboxTypeOK
    <3>1. 0 \in 0..MaxVersion /\ 1 \in 1..MaxVersion
      BY SmartClientAssumption
    <3> QED BY <1>1, <3>1 DEF Init, OutboxTypeOK
  <2>2. Numbered(outbox)
    BY <1>1, FS_EmptySet DEF Init, Numbered
  <2> QED BY <1>1, <2>1, <2>2 DEF Init, OutboxInv, Single, InHand, Replied, Acknowledged
<1> QED BY <1>1, OutboxStep, PTL DEF Spec

\* Two pushes never have the same item in hand.
THEOREM NoDoubleSendInvariance == Spec => []NoDoubleSend
<1>1. OutboxInv => NoDoubleSend
  BY DEF OutboxInv, Single, NoDoubleSend
<1> QED BY <1>1, OutboxInvariance, PTL

\* What the outbox calls done was accepted or refused by the server.
THEOREM DoneWasAnsweredInvariance == Spec => []DoneWasAnswered
<1>1. OutboxInv => DoneWasAnswered
  BY DEF OutboxInv, Acknowledged, DoneWasAnswered
<1> QED BY <1>1, OutboxInvariance, PTL

-----------------------------------------------------------------------------
\* An update that was applied was made from an older version than there is.
Spent(v, b, a) == \A w \in Writes : a[w] <= 1 /\ (a[w] = 1 => b[w] # 0 /\ b[w] < v)

SpentInv == Spent(version, base, applied)

LEMMA UpdateSpends ==
  ASSUME OutboxTypeOK, NEW w, NEW n, NEW b, b \in [Writes -> 0..MaxVersion],
         Spent(version, b, applied), w \in Writes => b[w] = n, n # 0, Update(w, n)
  PROVE  Spent(version', b, applied')
<1>1. /\ version \in Nat /\ \A x \in Writes : b[x] \in Nat /\ applied[x] \in Nat
  BY SmartClientAssumption DEF OutboxTypeOK
<1>2. CASE n = version
  <2>1. version' = version + 1 /\ applied' = [applied EXCEPT ![w] = applied[w] + 1]
    BY <1>2 DEF Update
  <2>2. \A x \in Writes : applied'[x] = IF x = w THEN applied[x] + 1 ELSE applied[x]
    BY <2>1 DEF OutboxTypeOK
  <2>3. w \in Writes => applied[w] = 0
    BY <1>1, <1>2 DEF Spent
  <2> QED BY <1>1, <1>2, <2>1, <2>2, <2>3 DEF Spent
<1>3. CASE n # version
  BY <1>3 DEF Update
<1> QED BY <1>2, <1>3

LEMMA SpentStep ==
  ASSUME OutboxInv, SpentInv, [Next]_vars PROVE SpentInv'
<1>1. OutboxTypeOK /\ version \in Nat \ {0} /\ base \in [Writes -> 0..MaxVersion]
      /\ \A x \in Writes : base[x] \in Nat /\ applied[x] \in Nat
  BY SmartClientAssumption DEF OutboxInv, OutboxTypeOK
\* A request for w, whose version is the one it was made from.
<1>2. ASSUME NEW w, UNCHANGED base, Update(w, base[w]) PROVE SpentInv'
  <2>1. CASE base[w] = 0
    BY <1>1, <1>2, <2>1 DEF Update, SpentInv
  <2>2. CASE base[w] # 0
    BY <1>1, <1>2, <2>2, UpdateSpends DEF SpentInv
  <2> QED BY <2>1, <2>2
<1>3. ASSUME UNCHANGED <<version, base, applied>> PROVE SpentInv'
  BY <1>3 DEF SpentInv
<1>4. ASSUME NEW w \in Writes, Write(w) PROVE SpentInv'
  <2>1. PICK b \in 1..version :
          /\ base' = [base EXCEPT ![w] = b] /\ base[w] = 0
          /\ Update(w, b) \/ UNCHANGED <<version, applied>>
    BY <1>4 DEF Write
  <2>a. b \in 0..MaxVersion /\ b # 0
    BY <1>1, SmartClientAssumption DEF OutboxTypeOK
  <2>2. /\ base' \in [Writes -> 0..MaxVersion] /\ base'[w] = b
        /\ \A x \in Writes \ {w} : base'[x] = base[x]
    BY <1>1, <2>1, <2>a
  <2>3. applied[w] = 0
    BY <1>1, <2>1 DEF SpentInv, Spent
  <2>4. Spent(version, base', applied)
    BY <1>1, <2>2, <2>3 DEF SpentInv, Spent
  <2>5. CASE Update(w, b)
    <3> HIDE <2>1
    <3> QED BY <1>1, <2>2, <2>a, <2>4, <2>5, UpdateSpends DEF SpentInv
  <2>6. CASE UNCHANGED <<version, applied>>
    BY <2>4, <2>6 DEF SpentInv
  <2> QED BY <2>1, <2>5, <2>6
<1>5. ASSUME NEW s \in Pushes, Handle(s) PROVE SpentInv'
  <2>1. \/ Update(CurrentWrite(s), base[CurrentWrite(s)]) /\ UNCHANGED base
        \/ UNCHANGED <<version, base, applied>>
    BY <1>5 DEF Handle
  <2> QED BY <1>2, <1>3, <2>1
<1>6. ASSUME NEW w \in Writes, HandleLate(w) PROVE SpentInv'
  BY <1>2, <1>6 DEF HandleLate
<1>7. CASE OtherSave
  BY <1>1, <1>7 DEF OtherSave, SpentInv, Spent
<1> QED BY <1>3, <1>4, <1>5, <1>6, <1>7
        DEF Next, vars, outboxVars, Ping, TriggerSync, Mark, SaveTable, Pull,
            Answer, NoAnswer, Apply, Quit

\* However often an update is sent, it is applied once at most.
THEOREM UpdateAppliedOnceInvariance == Spec => []UpdateAppliedOnce
<1>1. ASSUME Init PROVE SpentInv
  BY <1>1 DEF Init, SpentInv, Spent
<1>2. SpentInv => UpdateAppliedOnce
  BY DEF SpentInv, Spent, UpdateAppliedOnce
<1> QED BY <1>1, <1>2, OutboxInvariance, SpentStep, PTL DEF Spec

-----------------------------------------------------------------------------
CacheTypeOK ==
    /\ file \in [Rows -> Times]
    /\ stamp \in [Rows -> Times]
    /\ mtime \in Times
    /\ pull \in [Pulls -> Asked \cup Deltas \cup {Idle}]
    /\ cache \in [Rows -> Times]
    /\ mark \in Times

\* An answer a on its way, for rows f of a file of time m: unless the file is
\* newer than a, it has the rows without a stamp as they are, or none because
\* it was asked for since the time of the file.
Covers(a, f, m) ==
    /\ a.since <= a.max /\ a.max <= m
    /\ \A r \in Rows \ Stamped :
         \/ f[r] = 0
         \/ m > a.max
         \/ /\ \A t \in Times : <<r, t>> \in a.rows => t = f[r]
            /\ <<r, f[r]>> \in a.rows \/ a.since = a.max

CacheInv ==
    /\ CacheTypeOK
    /\ mark <= mtime
    /\ \A r \in Rows : stamp[r] <= mtime
    /\ \A p \in Pulls : pull[p] \in Asked => pull[p].since <= mtime
    /\ \A p \in Pulls : pull[p] \in Deltas => Covers(pull[p], file, mtime)

\* A request, its answer and no pull are told apart.
LEMMA PullKinds ==
  /\ Asked \cap Deltas = {}
  /\ Idle \notin Asked /\ Idle \notin Deltas
<1>1. ASSUME NEW x \in Asked, x \in Deltas PROVE FALSE
  <2>1. "rows" \in DOMAIN x /\ "rows" \notin DOMAIN x
    BY <1>1 DEF Asked, Deltas
  <2> QED BY <2>1
<1> QED BY <1>1, SmartIdleAssumption

LEMMA TimesAreNats == Times \subseteq Nat /\ 0 \in Times
  BY SmartClientAssumption DEF Times

\* What storing rows does to one row of the cache.
LEMMA UpsertedRow ==
  ASSUME CacheTypeOK, NEW rows \in SUBSET (Rows \X Times), NEW r \in Rows
  PROVE  /\ Upserted(rows) \in [Rows -> Times]
         /\ \/ <<r, Upserted(rows)[r]>> \in rows
            \/ /\ Upserted(rows)[r] = cache[r]
               /\ r \in Keyed => \A t \in Times : <<r, t>> \notin rows
  BY DEF CacheTypeOK, Upserted

\* The rows an answer has, and the time it goes up to.
LEMMA DeltaParts ==
  ASSUME CacheTypeOK, NEW since \in Times
  PROVE  /\ Delta(since) \in Deltas /\ Delta(since).since = since
         /\ \/ Delta(since).max = since
            \/ \E r \in Rows : Delta(since).max = SavedAt(r) /\ SavedAt(r) > since
         /\ \A r \in Rows, t \in Times :
              <<r, t>> \in Delta(since).rows <=>
                t = file[r] /\ file[r] # 0 /\ SavedAt(r) > since
         /\ \A r \in Rows :
              file[r] # 0 /\ SavedAt(r) > since => SavedAt(r) <= Delta(since).max
<1> DEFINE rows == {r \in Rows : file[r] # 0 /\ SavedAt(r) > since}
           times == {since} \cup {SavedAt(r) : r \in rows}
           max == CHOOSE t \in times : \A r \in rows : SavedAt(r) <= t
<1>1. Delta(since) = [since |-> since, rows |-> {<<r, file[r]>> : r \in rows}, max |-> max]
  BY DEF Delta
<1>2. \A r \in Rows : SavedAt(r) \in Times
  BY DEF CacheTypeOK, SavedAt
<1>3. times \in SUBSET (0..MaxSaves) /\ times # {}
  BY <1>2 DEF Times
<1>4. \E t \in times : \A k \in times : k <= t
  <2> HIDE DEF times
  <2> QED BY <1>3, SmartClientAssumption, GreatestOfNats
<1>5. max \in times /\ \A r \in rows : SavedAt(r) <= max
  <2>1. \E t \in times : \A r \in rows : SavedAt(r) <= t
    BY <1>4
  <2> HIDE DEF times, rows
  <2> QED BY <2>1
<1>6. /\ max \in Times
      /\ max = since \/ \E r \in Rows : max = SavedAt(r) /\ SavedAt(r) > since
  <2>1. \A t \in times : /\ t \in Times
                         /\ t = since \/ \E r \in Rows : t = SavedAt(r) /\ SavedAt(r) > since
    BY <1>2
  <2> HIDE DEF times, max
  <2> QED BY <1>5, <2>1
<1>7. {<<r, file[r]>> : r \in rows} \in SUBSET (Rows \X Times)
  BY DEF CacheTypeOK
<1> HIDE DEF max, times
<1> QED BY <1>1, <1>5, <1>6, <1>7 DEF Deltas, CacheTypeOK

\* The types of the table, its pulls and the cache, with any number of pulls.
LEMMA CacheTypeStep == ASSUME CacheTypeOK, [Next]_vars PROVE CacheTypeOK'
<1>1. ASSUME UNCHANGED cacheVars PROVE CacheTypeOK'
  BY <1>1 DEF cacheVars, CacheTypeOK
<1>2. ASSUME NEW r \in Rows, SaveTable(r) PROVE CacheTypeOK'
  <2>1. mtime' \in Times
    BY <1>2, SmartClientAssumption DEF SaveTable, CacheTypeOK, Times
  <2>2. 1..mtime' \subseteq Times
    BY <2>1, SmartClientAssumption DEF Times
  <2>3. stamp' \in [Rows -> Times]
    BY <1>2, <2>2 DEF SaveTable, CacheTypeOK
  <2>4. file' \in [Rows -> Times]
    BY <1>2, <2>1, TimesAreNats DEF SaveTable, CacheTypeOK
  <2> QED BY <1>2, <2>1, <2>3, <2>4 DEF SaveTable, CacheTypeOK
<1>3. ASSUME NEW p \in Pulls, Pull(p) PROVE CacheTypeOK'
  <2>1. [since |-> mark] \in Asked
    BY DEF CacheTypeOK, Asked
  <2> QED BY <1>3, <2>1 DEF Pull, CacheTypeOK
<1>4. ASSUME NEW p \in Pulls, Answer(p) PROVE CacheTypeOK'
  <2>1. pull[p].since \in Times
    BY <1>4 DEF Answer, Asked
  <2>2. Delta(pull[p].since) \in Deltas
    BY <2>1, DeltaParts
  <2> QED BY <1>4, <2>2 DEF Answer, CacheTypeOK
<1>5. ASSUME NEW p \in Pulls, NoAnswer(p) PROVE CacheTypeOK'
  BY <1>5 DEF NoAnswer, CacheTypeOK
<1>6. ASSUME NEW p \in Pulls, Apply(p) PROVE CacheTypeOK'
  <2>1. pull[p].max \in Times
    BY <1>6 DEF Apply, Deltas
  <2>2. cache' \in [Rows -> Times]
    BY <1>6 DEF Apply, Upserted, CacheTypeOK
  <2> QED BY <1>6, <2>1, <2>2 DEF Apply, CacheTypeOK
<1>7. CASE Quit
  <2>1. cache' \in [Rows -> Times]
    BY <1>7 DEF Quit, Upserted, CacheTypeOK
  <2> QED BY <1>7, <2>1 DEF Quit, CacheTypeOK
<1> QED BY <1>1, <1>2, <1>3, <1>4, <1>5, <1>6, <1>7
        DEF Next, vars, Ping, TriggerSync, Write, HandleLate, Handle, Mark, OtherSave

LEMMA CacheStep ==
  ASSUME CacheInv, [Next]_vars PROVE CacheInv'
<1>1. /\ CacheTypeOK /\ mark \in Nat /\ mtime \in Nat
      /\ \A r \in Rows : file[r] \in Nat /\ stamp[r] \in Nat
  BY TimesAreNats DEF CacheInv, CacheTypeOK
<1>2. CacheTypeOK'
  BY <1>1, CacheTypeStep
<1>3. ASSUME UNCHANGED cacheVars PROVE CacheInv'
  BY <1>2, <1>3 DEF cacheVars, CacheInv
\* A newer file is newer than every answer on its way.
<1>4. ASSUME NEW r \in Rows, SaveTable(r) PROVE CacheInv'
  <2>1. mtime' = mtime + 1 /\ UNCHANGED <<pull, mark>>
    BY <1>4 DEF SaveTable
  <2>2. mark' <= mtime'
    BY <1>1, <2>1 DEF CacheInv
  <2>3. \A q \in Rows : stamp'[q] <= mtime'
    <3>1. PICK t \in 1..mtime' :
            stamp' = IF r \in Stamped THEN [stamp EXCEPT ![r] = t] ELSE stamp
      BY <1>4 DEF SaveTable
    <3>2. \A q \in Rows : stamp[q] <= mtime'
      BY <1>1, <2>1 DEF CacheInv
    <3> QED BY <1>1, <2>1, <3>1, <3>2 DEF CacheTypeOK
  <2>4. ASSUME NEW p \in Pulls PROVE pull[p] \in Asked => pull[p].since <= mtime'
    <3>1. pull[p] \in Asked => pull[p].since \in Nat /\ pull[p].since <= mtime
      BY TimesAreNats DEF CacheInv, Asked
    <3> QED BY <1>1, <2>1, <3>1
  <2>5. ASSUME NEW p \in Pulls, pull[p] \in Deltas PROVE Covers(pull[p], file', mtime')
    <3>1. Covers(pull[p], file, mtime) /\ pull[p].max \in Nat
      BY <2>5, TimesAreNats DEF CacheInv, Deltas
    <3>2. pull[p].max <= mtime' /\ mtime' > pull[p].max
      BY <1>1, <2>1, <3>1 DEF Covers
    <3> QED BY <3>1, <3>2 DEF Covers
  <2> QED BY <1>2, <2>1, <2>2, <2>3, <2>4, <2>5 DEF CacheInv
<1>5. ASSUME NEW p \in Pulls, Pull(p) PROVE CacheInv'
  <2>1. [since |-> mark] \in Asked
    BY <1>1 DEF CacheTypeOK, Asked
  <2>2. pull'[p] = [since |-> mark] /\ \A q \in Pulls \ {p} : pull'[q] = pull[q]
    BY <1>1, <1>5 DEF Pull, CacheTypeOK
  <2>3. pull'[p] \notin Deltas
    BY <2>1, <2>2, PullKinds
  <2> QED BY <1>2, <1>5, <2>2, <2>3 DEF Pull, CacheInv
<1>6. ASSUME NEW p \in Pulls, Answer(p) PROVE CacheInv'
  <2> DEFINE since == pull[p].since
             a == Delta(since)
  <2>1. pull[p] \in Asked /\ since \in Times /\ since \in Nat /\ since <= mtime
    BY <1>6, TimesAreNats DEF Answer, CacheInv, Asked
  <2>2. \A r \in Rows : SavedAt(r) \in Nat /\ SavedAt(r) <= mtime
    BY <1>1 DEF SavedAt, CacheInv
  <2>3. pull' = [pull EXCEPT ![p] = a] /\ UNCHANGED <<file, stamp, mtime, mark>>
    BY <1>6 DEF Answer
  <2> HIDE DEF since
  <2>4. /\ a \in Deltas /\ a.since = since
        /\ \A r \in Rows, t \in Times :
             <<r, t>> \in a.rows <=> t = file[r] /\ file[r] # 0 /\ SavedAt(r) > since
        /\ \A r \in Rows : file[r] # 0 /\ SavedAt(r) > since => SavedAt(r) <= a.max
        /\ since <= a.max /\ a.max <= mtime
    BY <1>1, <2>1, <2>2, DeltaParts
  <2> HIDE DEF a
  <2>5. a.max \in Nat
    BY <2>4, TimesAreNats DEF Deltas
  <2>6. ASSUME NEW r \in Rows \ Stamped, file[r] # 0, ~(mtime > a.max)
        PROVE  /\ \A t \in Times : <<r, t>> \in a.rows => t = file[r]
               /\ <<r, file[r]>> \in a.rows \/ a.since = a.max
    <3>1. SavedAt(r) = mtime /\ a.max = mtime
      BY <1>1, <2>4, <2>5, <2>6 DEF SavedAt
    <3>2. file[r] \in Times
      BY <1>1 DEF CacheTypeOK
    <3>3. CASE mtime > since
      BY <2>4, <2>6, <3>1, <3>2, <3>3
    <3>4. CASE ~(mtime > since)
      BY <1>1, <2>1, <2>4, <3>1, <3>4
    <3> QED BY <3>3, <3>4
  <2>7. Covers(a, file, mtime)
    BY <2>4, <2>6 DEF Covers
  <2>8. pull'[p] = a /\ \A q \in Pulls \ {p} : pull'[q] = pull[q]
    BY <1>1, <2>3 DEF CacheTypeOK
  <2>9. pull'[p] \notin Asked
    BY <2>4, <2>8, PullKinds
  <2> QED BY <1>2, <2>3, <2>7, <2>8, <2>9 DEF CacheInv
<1>7. ASSUME NEW p \in Pulls, NoAnswer(p) PROVE CacheInv'
  <2>1. pull'[p] = Idle /\ \A q \in Pulls \ {p} : pull'[q] = pull[q]
    BY <1>1, <1>7 DEF NoAnswer, CacheTypeOK
  <2> QED BY <1>2, <1>7, <2>1, PullKinds DEF NoAnswer, CacheInv
<1>8. ASSUME NEW p \in Pulls, Apply(p) PROVE CacheInv'
  <2>1. pull'[p] = Idle /\ \A q \in Pulls \ {p} : pull'[q] = pull[q]
    BY <1>1, <1>8 DEF Apply, CacheTypeOK
  <2>2. mark' <= mtime
    BY <1>8 DEF Apply, CacheInv, Covers
  <2> QED BY <1>2, <1>8, <2>1, <2>2, PullKinds DEF Apply, CacheInv
<1>9. CASE Quit
  <2>1. \A p \in Pulls : pull'[p] = Idle
    BY <1>9 DEF Quit
  <2> QED BY <1>2, <1>9, <2>1, PullKinds DEF Quit, CacheInv
<1> QED BY <1>3, <1>4, <1>5, <1>6, <1>7, <1>8, <1>9
        DEF Next, vars, Ping, TriggerSync, Write, HandleLate, Handle, Mark, OtherSave

LEMMA CacheInvariance == Spec => []CacheInv
<1>1. Init => CacheInv
  BY TimesAreNats, PullKinds DEF Init, CacheInv, CacheTypeOK
<1>2. CacheInv /\ [Next]_vars => CacheInv'
  BY CacheStep
<1> QED BY <1>1, <1>2, PTL DEF Spec

\* Rows of the answer a are stored: a row without a stamp is as in the file,
\* or the file is newer than a, or a had nothing to say of it.
LEMMA StoredRow ==
  ASSUME CacheInv, NEW p \in Pulls, pull[p] \in Deltas, NEW rows \in SUBSET pull[p].rows,
         cache' = Upserted(rows), UNCHANGED <<file, mtime>>,
         NEW r \in Keyed \ Stamped, file[r] # 0, ~(mtime > pull[p].max)
  PROVE  \/ cache'[r] = file[r]
         \/ /\ cache'[r] = cache[r]
            /\ rows = pull[p].rows => pull[p].since = mtime
<1> DEFINE a == pull[p]
<1>1. CacheTypeOK /\ r \in Rows /\ rows \in SUBSET (Rows \X Times)
      /\ a.rows \in SUBSET (Rows \X Times) /\ a.max \in Nat /\ mtime \in Nat
      /\ file[r] \in Times
  BY SmartClientAssumption, TimesAreNats DEF CacheInv, CacheTypeOK, Deltas
<1>2. /\ \A t \in Times : <<r, t>> \in a.rows => t = file[r]
      /\ <<r, file[r]>> \in a.rows \/ a.since = a.max
      /\ a.max <= mtime
  BY <1>1 DEF CacheInv, Covers
<1>3. /\ cache'[r] \in Times
      /\ \/ <<r, cache'[r]>> \in rows
         \/ cache'[r] = cache[r] /\ \A t \in Times : <<r, t>> \notin rows
  BY <1>1, UpsertedRow
<1>4. a.max = mtime
  BY <1>1, <1>2
<1>5. CASE <<r, cache'[r]>> \in rows
  BY <1>2, <1>3, <1>5
<1>6. CASE cache'[r] = cache[r] /\ \A t \in Times : <<r, t>> \notin rows
  BY <1>1, <1>2, <1>4, <1>6
<1> QED BY <1>3, <1>5, <1>6

\* The watermark passes no row with a key and no stamp, however many pulls
\* overlap, but by an answer that lapses.
LEMMA RowStays ==
  ASSUME CacheInv, [Next]_vars, NEW r \in Keyed \ Stamped, WillArrive(r),
         \A p \in Pulls : ~Lapses(p)
  PROVE  WillArrive(r)'
<1>1. /\ CacheTypeOK /\ r \in Rows /\ mark \in Nat /\ mtime \in Nat /\ mark <= mtime
      /\ file[r] \in Nat /\ cache[r] \in Nat
  BY SmartClientAssumption, TimesAreNats DEF CacheInv, CacheTypeOK
<1>2. WillArrive(r) <=> (file[r] # 0 /\ cache[r] # file[r] => mtime > mark)
  BY DEF WillArrive, SavedAt
<1>3. WillArrive(r)' <=> (file'[r] # 0 /\ cache'[r] # file'[r] => mtime' > mark')
  BY DEF WillArrive, SavedAt
<1>4. ASSUME UNCHANGED <<file, mtime, cache, mark>> PROVE WillArrive(r)'
  BY <1>2, <1>3, <1>4
<1>5. ASSUME NEW q \in Rows, SaveTable(q) PROVE WillArrive(r)'
  <2>1. mtime' = mtime + 1 /\ mark' = mark
    BY <1>5 DEF SaveTable
  <2> QED BY <1>1, <1>3, <2>1
<1>6. ASSUME NEW p \in Pulls, Apply(p) PROVE WillArrive(r)'
  <2> DEFINE a == pull[p]
  <2>1. /\ a \in Deltas /\ cache' = Upserted(a.rows) /\ mark' = a.max
        /\ UNCHANGED <<file, mtime>> /\ a.since \in Nat /\ a.max \in Nat
        /\ a.since <= a.max /\ a.max <= mtime
    BY <1>6, TimesAreNats DEF Apply, Deltas, CacheInv, Covers
  <2>2. a.since <= mark
    <3>1. pull'[p] = Idle
      BY <1>1, <1>6 DEF Apply, CacheTypeOK
    <3> QED BY <1>1, <2>1, <3>1 DEF Lapses
  <2>3. CASE file[r] = 0 \/ mtime > a.max
    BY <1>3, <2>1, <2>3
  <2>4. CASE file[r] # 0 /\ ~(mtime > a.max)
    <3>1. cache'[r] = file[r] \/ (cache'[r] = cache[r] /\ a.since = mtime)
      <4>1. a.rows \in SUBSET a.rows
        OBVIOUS
      <4> QED BY <2>1, <2>4, <4>1, StoredRow
    <3>2. cache'[r] = cache[r] /\ a.since = mtime => mark = mtime
      BY <1>1, <2>1, <2>2
    <3> QED BY <1>1, <1>2, <1>3, <2>1, <3>1, <3>2
  <2> QED BY <2>3, <2>4
<1>7. CASE Quit
  <2>1. UNCHANGED <<file, mtime, mark>> /\ \A p \in Pulls : pull'[p] = Idle
    BY <1>7 DEF Quit
  <2>2. CASE UNCHANGED cache
    BY <1>4, <2>1, <2>2
  <2>3. ASSUME NEW p \in Pulls, pull[p] \in Deltas, NEW rows \in SUBSET pull[p].rows,
               cache' = Upserted(rows)
        PROVE  WillArrive(r)'
    <3> DEFINE a == pull[p]
    <3>1. a.since \in Nat /\ a.max \in Nat /\ a.since <= a.max
      BY <2>3, TimesAreNats DEF Deltas, CacheInv, Covers
    <3>2. mark <= a.since
      BY <1>1, <2>1, <2>3, <3>1 DEF Lapses
    <3>3. CASE file[r] = 0 \/ mtime > a.max
      BY <1>1, <1>3, <2>1, <3>1, <3>2, <3>3
    <3>4. CASE file[r] # 0 /\ ~(mtime > a.max)
      <4>1. cache'[r] = file[r] \/ cache'[r] = cache[r]
        BY <2>1, <2>3, <3>4, StoredRow
      <4> QED BY <1>2, <1>3, <2>1, <4>1
    <3> QED BY <3>3, <3>4
  <2> QED BY <1>7, <2>2, <2>3 DEF Quit
<1> QED BY <1>4, <1>5, <1>6, <1>7
        DEF Next, vars, cacheVars, Ping, TriggerSync, Write, HandleLate, Handle, Mark,
            OtherSave, Pull, Answer, NoAnswer

THEOREM PullsPassNoRow == Spec => NoRowIsPassed
<1>1. ASSUME CacheInv, [Next]_vars
      PROVE  \A r \in Keyed \ Stamped :
               WillArrive(r) => WillArrive(r)' \/ \E p \in Pulls : Lapses(p)
  BY <1>1, RowStays
<1> QED BY <1>1, CacheInvariance, PTL DEF Spec, NoRowIsPassed

\* The variables always have their types, however many pulls overlap.
THEOREM TypeInvariance == Spec => []TypeOK
<1> DEFINE OnlineOK == lastOnline \in BOOLEAN \cup {Unknown}
<1>1. Init => OnlineOK /\ CacheTypeOK
  BY TimesAreNats DEF Init, CacheTypeOK
<1>2. OnlineOK /\ [Next]_vars => OnlineOK'
  BY DEF Next, vars, Ping, TriggerSync, Write, HandleLate, Handle, Mark, OtherSave,
         SaveTable, Pull, Answer, NoAnswer, Apply, Quit
<1>3. OnlineOK /\ OutboxInv /\ CacheTypeOK => TypeOK
  BY DEF OutboxInv, OutboxTypeOK, CacheTypeOK, TypeOK
<1> QED BY <1>1, <1>2, <1>3, OutboxInvariance, CacheTypeStep, PTL DEF Spec
=============================================================================
