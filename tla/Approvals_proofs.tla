-------------------------- MODULE Approvals_proofs --------------------------
(***************************************************************************)
(* The trail a quote's transitions leave, for every set of quotes, people, *)
(* requests and digests, every cap and whether or not writes may fail:     *)
(* TrailInv keeps rows and records in order, MarkInv keeps marks on what   *)
(* was sent, IdsInv gives ids out once, and OnceInv says who may be told   *)
(* twice.                                                                  *)
(***************************************************************************)
EXTENDS Approvals, FiniteSetTheorems, WellFoundedInduction, TLAPS

LEMMA RecipientsArePeople ==
  ASSUME NEW t \in Transitions PROVE Recipients(t) \subseteq People
  BY ApprovalsAssumption DEF Recipients, Transitions

LEMMA MaxIdIsNat == MaxId \in Nat
<1>1. MaxMoves \in Nat /\ Cardinality(People) \in Nat
  BY ApprovalsAssumption, FS_CardinalityType
<1>2. \A x, y \in Nat : x * y \in Nat
  OBVIOUS
<1> QED BY <1>1, <1>2 DEF MaxId

\* The records of a transition.
LEMMA ToldParts ==
  ASSUME NEW t \in Transitions, NEW ids \in [Recipients(t) -> 1..MaxId]
  PROVE  /\ Told(t, ids) \in SUBSET Notices
         /\ \A n \in Told(t, ids) :
              /\ n.id \in 0..MaxId /\ n.move = t.move /\ n.quote = t.quote
              /\ n.rcpt \in Recipients(t) /\ n.id = ids[n.rcpt] /\ ~n.delivered
<1>1. ASSUME NEW p \in Recipients(t)
      PROVE  ids[p] \in Nat \ {0} /\ ids[p] \in 0..MaxId /\ p \in People
  BY MaxIdIsNat, RecipientsArePeople
<1> DEFINE rec(p) == [id |-> ids[p], move |-> t.move, quote |-> t.quote, rcpt |-> p,
                      delivered |-> FALSE]
<1>2. t.move \in Moves /\ t.quote \in Quotes
  BY DEF Transitions
<1>3. ASSUME NEW p \in Recipients(t)
      PROVE  /\ rec(p) \in Notices
             /\ rec(p).id \in 0..MaxId /\ rec(p).move = t.move /\ rec(p).quote = t.quote
             /\ rec(p).rcpt \in Recipients(t) /\ rec(p).id = ids[rec(p).rcpt]
             /\ ~rec(p).delivered
  BY <1>1, <1>2, <1>3 DEF Notices
<1>4. Told(t, ids) = {rec(p) : p \in Recipients(t)}
  BY DEF Told
<1> QED
  <2> HIDE DEF rec
  <2> QED BY <1>3, <1>4

LEMMA StatesOfRequest ==
  ASSUME TypeOK, NEW r \in Requests, req[r] # Idle
  PROVE  /\ req[r] \in Transitions /\ req[r].quote \in Quotes /\ req[r].move \in Moves
         /\ req[r].stage \in {"version", "notify"}
  BY DEF TypeOK, Transitions

LEMMA ItemsAreNotices ==
  ASSUME TypeOK, NEW d \in Runs, run[d] # Idle
  PROVE  run[d] \in Digests /\ run[d].items \in SUBSET Notices
         /\ Keys(run[d].items) \in SUBSET (Moves \X People)
  BY DEF TypeOK, Digests, Notices, Keys

\* A record that is marked is still one.
LEMMA MarkedType ==
  ASSUME NEW n \in Notices
  PROVE  /\ [n EXCEPT !.delivered = TRUE] \in Notices
         /\ [n EXCEPT !.delivered = TRUE].id = n.id
         /\ [n EXCEPT !.delivered = TRUE].move = n.move
         /\ [n EXCEPT !.delivered = TRUE].quote = n.quote
         /\ [n EXCEPT !.delivered = TRUE].rcpt = n.rcpt
  BY DEF Notices

LEMMA TypeStep == ASSUME TypeOK, [Next]_vars PROVE TypeOK'
<1> USE ApprovalsAssumption, IdleAssumption
<1>1. ASSUME NEW r \in Requests, NEW q \in Quotes, NEW p \in People, NEW to \in Statuses,
             Transition(r, q, p, to)
      PROVE  TypeOK'
  <2>1. moves + 1 \in Moves /\ moves' = moves + 1 /\ moves' \in 0..MaxMoves
    BY <1>1 DEF Transition, TypeOK, Moves
  <2>2. approval[q].by \in People \cup {None}
    BY DEF TypeOK
  <2>3. [stage |-> "version", quote |-> q, move |-> moves', actor |-> p,
         prev |-> approval[q].by, to |-> to] \in Transitions
    BY <2>1, <2>2 DEF Transitions
  <2>4. last' \in [Quotes -> 0..MaxMoves]
    BY <1>1, <2>1 DEF Transition, TypeOK
  <2> QED BY <1>1, <2>1, <2>3, <2>4 DEF Transition, TypeOK
<1>2. ASSUME NEW r \in Requests, AppendQuoteVersion(r) PROVE TypeOK'
  <2>1. req[r] \in Transitions /\ req[r].quote \in Quotes /\ req[r].move \in Moves
    BY <1>2, StatesOfRequest DEF AppendQuoteVersion
  <2>2. [req[r] EXCEPT !.stage = "notify"] \in Transitions
    BY <2>1 DEF Transitions
  <2>3. req' = [req EXCEPT ![r] = [req[r] EXCEPT !.stage = "notify"]]
    BY <1>2 DEF AppendQuoteVersion
  <2>4. ASSUME NEW num \in 1..MaxMoves
        PROVE  KeptRows(versions[req[r].quote] \cup {[num |-> num, move |-> req[r].move]})
                 \in SUBSET Rows
    BY <2>1 DEF KeptRows, TypeOK, Rows
  <2>5. versions' \in [Quotes -> SUBSET Rows]
    BY <1>2, <2>4 DEF AppendQuoteVersion, TypeOK
  <2>6. gap' \in [Quotes -> BOOLEAN]
    BY <1>2 DEF AppendQuoteVersion, TypeOK
  <2>7. req' \in [Requests -> Transitions \cup {Idle}]
    BY <2>2, <2>3 DEF TypeOK
  <2>8. UNCHANGED <<approval, queue, run, moves, last, posted, again, excuse>>
    BY <1>2 DEF AppendQuoteVersion
  <2> QED BY <2>5, <2>6, <2>7, <2>8 DEF TypeOK
<1>3. ASSUME NEW r \in Requests, Enqueue(r) PROVE TypeOK'
  <2>1. req[r] \in Transitions /\ req[r].quote \in Quotes /\ req[r].move \in Moves
    BY <1>3, StatesOfRequest DEF Enqueue
  <2>2. ASSUME NEW ids \in [Recipients(req[r]) -> 1..MaxId]
        PROVE  Told(req[r], ids) \in SUBSET Notices
    BY <2>1, ToldParts
  <2>3. queue' \in SUBSET Notices
    <3>1. CASE UNCHANGED queue
      BY <3>1 DEF TypeOK
    <3>2. ASSUME NEW ids \in [Recipients(req[r]) -> 1..MaxId],
                 queue' = Newest(queue \cup Told(req[r], ids))
          PROVE  queue' \in SUBSET Notices
      BY <2>2, <3>2 DEF Newest, TypeOK
    <3> QED BY <1>3, <3>1, <3>2 DEF Enqueue
  <2> QED BY <1>3, <2>3 DEF Enqueue, TypeOK
<1>4. ASSUME NEW d \in Runs, RunDigest(d) PROVE TypeOK'
  <2>1. [stage |-> "posting", items |-> Pending] \in Digests
    BY DEF TypeOK, Digests, Pending
  <2> QED BY <1>4, <2>1 DEF RunDigest, TypeOK
<1>5. ASSUME NEW d \in Runs, Accepted(d) PROVE TypeOK'
  <2>1. run[d] \in Digests /\ Keys(run[d].items) \in SUBSET (Moves \X People)
    BY <1>5, ItemsAreNotices DEF Accepted
  <2>2. [run[d] EXCEPT !.stage = "answered"] \in Digests
    BY <2>1 DEF Digests
  <2>3. run' = [run EXCEPT ![d] = [run[d] EXCEPT !.stage = "answered"]]
    BY <1>5 DEF Accepted
  <2> QED BY <1>5, <2>1, <2>2, <2>3 DEF Accepted, Taken, TypeOK
<1>6. ASSUME NEW d \in Runs, Unanswered(d) PROVE TypeOK'
  <2>1. Keys(run[d].items) \in SUBSET (Moves \X People)
    BY <1>6, ItemsAreNotices DEF Unanswered
  <2> QED BY <1>6, <2>1 DEF Unanswered, Taken, TypeOK
<1>7. ASSUME NEW d \in Runs, MarkDelivered(d) PROVE TypeOK'
  <2>1. queue' \in SUBSET Notices
    BY <1>7, MarkedType DEF MarkDelivered, TypeOK
  <2> QED BY <1>7, <2>1 DEF MarkDelivered, TypeOK
<1>8. ASSUME NEW d \in Runs, MarkFails(d) PROVE TypeOK'
  BY <1>8 DEF MarkFails, TypeOK
<1>9. CASE Crash
  <2>1. PICK arrived \in SUBSET {d \in Runs : run[d] # Idle /\ run[d].stage = "posting"} :
          Taken(UNION {run[d].items : d \in arrived})
    BY <1>9 DEF Crash
  <2>2. UNION {run[d].items : d \in arrived} \in SUBSET Notices
    BY ItemsAreNotices
  <2>3. Keys(UNION {run[d].items : d \in arrived}) \in SUBSET (Moves \X People)
    BY <2>2 DEF Keys, Notices
  <2> QED BY <1>9, <2>1, <2>3 DEF Crash, Taken, TypeOK
<1>10. CASE UNCHANGED vars
  BY <1>10 DEF vars, TypeOK
<1> QED BY <1>1, <1>2, <1>3, <1>4, <1>5, <1>6, <1>7, <1>8, <1>9, <1>10 DEF Next

\* The variables always have their types.
THEOREM TypeInvariance == Spec => []TypeOK
<1>1. Init => TypeOK
  <2>1. 0 \in 0..MaxMoves
    BY ApprovalsAssumption
  <2>2. [status |-> "draft", by |-> None] \in [status : Statuses, by : People \cup {None}]
    BY DEF Statuses
  <2> QED BY <2>1, <2>2 DEF Init, TypeOK
<1> QED BY <1>1, TypeStep, PTL DEF Spec

-----------------------------------------------------------------------------
\* The transitions of a quote under way are one, its newest, and its rows and
\* records are of transitions before, or of itself.
UnderWay ==
    /\ \A r, s \in Requests :
         req[r] # Idle /\ req[s] # Idle /\ req[r].quote = req[s].quote => r = s
    /\ \A r \in Requests : req[r] # Idle => req[r].move = last[req[r].quote]

\* Rows v of a quote whose newest transition is m.
RowsGood(v, m) ==
    /\ \A x \in v : x.move <= m
    /\ \A x, y \in v : x.num < y.num => x.move < y.move

Appending(q) ==
    \E r \in Requests : req[r] # Idle /\ req[r].quote = q /\ req[r].stage = "version"

RowsInv ==
    \A q \in Quotes :
      /\ RowsGood(versions[q], last[q])
      /\ Appending(q) => \A x \in versions[q] : x.move < last[q]

QueueInOrder ==
    /\ \A n \in queue : n.move <= last[n.quote]
    /\ \A n, m \in queue : n.quote = m.quote /\ n.id < m.id => n.move <= m.move

Counted == \A q \in Quotes : last[q] <= moves

\* No row is missing: the newest one is the newest transition's.
Tracked(v, m) == \E x \in v : x.move = m /\ \A y \in v : y.num <= x.num

TrailInv ==
    /\ TypeOK /\ UnderWay /\ RowsInv /\ QueueInOrder /\ Counted
    /\ \A q \in Quotes : last[q] # 0 /\ ~gap[q] /\ ~Appending(q) => Tracked(versions[q], last[q])

\* A row with the next number is kept, and is the newest.
LEMMA KeptNewest ==
  ASSUME NEW v \in SUBSET Rows, NEW x \in Rows, \A y \in v : y.num < x.num
  PROVE  /\ x \in KeptRows(v \cup {x}) /\ KeptRows(v \cup {x}) \subseteq v \cup {x}
         /\ \A y \in KeptRows(v \cup {x}) : y.num <= x.num
<1> DEFINE after == {w \in v \cup {x} : w.num > x.num}
<1>1. \A y \in v \cup {x} : y.num \in Nat /\ y.num <= x.num
  BY DEF Rows
<1>2. after = {}
  <2>1. \A y \in v \cup {x} : ~(y.num > x.num)
    BY <1>1
  <2> QED BY <2>1
<1>3. Cardinality(after) < MaxVersions
  BY <1>2, FS_EmptySet, ApprovalsAssumption
<1>4. x \in KeptRows(v \cup {x})
  BY <1>3 DEF KeptRows
<1> QED BY <1>1, <1>4 DEF KeptRows

LEMMA TransitionTrail ==
  ASSUME TrailInv, NEW r \in Requests, NEW q \in Quotes, NEW p \in People,
         NEW to \in Statuses, Transition(r, q, p, to), TypeOK'
  PROVE  TrailInv'
<1> DEFINE t == [stage |-> "version", quote |-> q, move |-> moves + 1,
                 actor |-> p, prev |-> approval[q].by, to |-> to]
<1>1. /\ TypeOK /\ moves \in Nat /\ \A x \in Quotes : last[x] \in Nat /\ last[x] <= moves
  BY ApprovalsAssumption DEF TrailInv, TypeOK, Counted
<1>2. /\ req' = [req EXCEPT ![r] = t] /\ last' = [last EXCEPT ![q] = moves + 1]
      /\ gap' = [gap EXCEPT ![q] = FALSE] /\ moves' = moves + 1
      /\ versions' = versions /\ queue' = queue
  BY DEF Transition
<1>3. t.stage = "version" /\ t.quote = q /\ t.move = moves + 1 /\ t # Idle
  <2>1. req'[r] = t /\ req'[r] \in Transitions \cup {Idle}
    BY <1>1, <1>2 DEF TypeOK
  <2>2. approval[q].by \in People \cup {None} /\ moves + 1 \in Moves
    BY <1>1, ApprovalsAssumption DEF Transition, TypeOK, Moves
  <2>3. t \in Transitions
    BY <2>2 DEF Transitions
  <2> QED BY <2>3, IdleAssumption
<1> HIDE DEF t
<1>4. /\ req'[r] = t /\ \A s \in Requests \ {r} : req'[s] = req[s]
      /\ last'[q] = moves + 1 /\ \A x \in Quotes \ {q} : last'[x] = last[x]
      /\ gap'[q] = FALSE /\ \A x \in Quotes \ {q} : gap'[x] = gap[x]
  BY <1>1, <1>2 DEF TypeOK
<1>5. req[r] = Idle /\ \A s \in Requests : req[s] # Idle => req[s].quote # q
  BY DEF Transition, Free
<1>6. /\ Appending(q)' /\ \A x \in Quotes \ {q} : Appending(x)' <=> Appending(x)
  BY <1>3, <1>4, <1>5 DEF Appending
<1>7. UnderWay'
  BY <1>3, <1>4, <1>5, StatesOfRequest, <1>1 DEF TrailInv, UnderWay
<1>8. RowsInv'
  <2>1. \A x \in versions[q] : x.move \in Nat /\ x.move <= last[q]
    BY <1>1 DEF TrailInv, TypeOK, RowsInv, RowsGood, Rows, Moves
  <2>2. RowsGood(versions[q], last'[q]) /\ \A x \in versions[q] : x.move < last'[q]
    BY <1>1, <1>4, <2>1 DEF TrailInv, RowsInv, RowsGood
  <2> QED BY <1>2, <1>4, <1>6, <2>2 DEF TrailInv, RowsInv, RowsGood
<1>9. QueueInOrder'
  <2>1. \A n \in queue : n.quote \in Quotes /\ n.move \in Nat /\ last[n.quote] <= last'[n.quote]
    BY <1>1, <1>4 DEF TypeOK, Notices, Moves
  <2>2. \A n \in queue : n.move <= last'[n.quote]
    BY <1>1, <1>4, <2>1 DEF TrailInv, QueueInOrder
  <2> QED BY <1>2, <2>2 DEF TrailInv, QueueInOrder
<1>10. Counted'
  BY <1>1, <1>2, <1>4 DEF Counted
<1>11. ASSUME NEW x \in Quotes, last'[x] # 0, ~gap'[x], ~Appending(x)'
       PROVE  Tracked(versions[x], last'[x])
  BY <1>4, <1>6, <1>11 DEF TrailInv
<1> QED BY <1>2, <1>7, <1>8, <1>9, <1>10, <1>11 DEF TrailInv

\* The stage of a request under way moves on, or the request ends.
LEMMA AppendTrail ==
  ASSUME TrailInv, NEW r \in Requests, AppendQuoteVersion(r), TypeOK'
  PROVE  TrailInv'
<1>0. PICK q \in Quotes, m \in Moves : q = req[r].quote /\ m = req[r].move
  BY StatesOfRequest DEF TrailInv, AppendQuoteVersion
<1>1. /\ TypeOK /\ req[r] \in Transitions /\ q \in Quotes /\ m \in Moves /\ m \in Nat
      /\ req[r] # Idle /\ req[r].stage = "version" /\ m = last[q]
      /\ req[r].quote = q /\ req[r].move = m
  BY <1>0, StatesOfRequest DEF TrailInv, UnderWay, AppendQuoteVersion, Moves
<1>2. [req[r] EXCEPT !.stage = "notify"] \in Transitions
  BY <1>1 DEF Transitions
<1>3. /\ req'[r] = [req[r] EXCEPT !.stage = "notify"] /\ req'[r] # Idle
      /\ req'[r].quote = q /\ req'[r].move = m /\ req'[r].stage = "notify"
      /\ \A s \in Requests \ {r} : req'[s] = req[s]
  BY <1>1, <1>2, IdleAssumption DEF AppendQuoteVersion, TypeOK, Transitions
<1>4. queue' = queue /\ moves' = moves /\ last' = last
  BY DEF AppendQuoteVersion
<1>5. \A s \in Requests \ {r} : req[s] # Idle => req[s].quote # q
  BY <1>1 DEF TrailInv, UnderWay
<1>6. /\ Appending(q) /\ ~Appending(q)'
      /\ \A x \in Quotes \ {q} : Appending(x)' <=> Appending(x)
  <2>1. Appending(q)
    BY <1>1 DEF Appending
  <2>2. \A s \in Requests : ~(req'[s] # Idle /\ req'[s].quote = q /\ req'[s].stage = "version")
    BY <1>3, <1>5
  <2>3. ASSUME NEW x \in Quotes \ {q}, NEW s \in Requests
        PROVE  /\ req[s] # Idle /\ req[s].quote = x => req'[s] = req[s]
               /\ req'[s] # Idle /\ req'[s].quote = x => req'[s] = req[s]
    BY <1>1, <1>3, <2>3
  <2>4. \A x \in Quotes \ {q} : Appending(x)' <=> Appending(x)
    BY <2>3 DEF Appending
  <2>5. ~Appending(q)'
    BY <2>2 DEF Appending
  <2> QED BY <2>1, <2>4, <2>5
<1>7. UnderWay'
  <2>1. \A s \in Requests : /\ req'[s] # Idle <=> req[s] # Idle
                            /\ req'[s].quote = req[s].quote /\ req'[s].move = req[s].move
    BY <1>1, <1>3
  <2> QED BY <1>4, <2>1 DEF TrailInv, UnderWay
<1>8. QueueInOrder' /\ Counted'
  BY <1>4 DEF TrailInv, QueueInOrder, Counted
<1>9. /\ \A x \in Quotes \ {q} : versions'[x] = versions[x] /\ gap'[x] = gap[x]
      /\ RowsGood(versions'[q], m)
      /\ ~gap'[q] => Tracked(versions'[q], m)
  <2>1. versions[q] \in SUBSET Rows /\ RowsGood(versions[q], m)
         /\ \A x \in versions[q] : x.move < m
    BY <1>1, <1>6 DEF TrailInv, RowsInv, TypeOK
  <2>0. \/ /\ \E num \in 1..MaxMoves :
               /\ IsNext(num, {y.num : y \in versions[q]})
               /\ versions' = [versions EXCEPT ![q] = KeptRows(@ \cup {[num |-> num, move |-> m]})]
           /\ UNCHANGED gap
        \/ gap' = [gap EXCEPT ![q] = TRUE] /\ versions' = versions
    BY <1>1 DEF AppendQuoteVersion
  <2>2. CASE /\ gap' = [gap EXCEPT ![q] = TRUE] /\ versions' = versions
    BY <1>1, <2>1, <2>2 DEF TypeOK
  <2>3. ASSUME NEW num \in 1..MaxMoves, IsNext(num, {y.num : y \in versions[q]}),
               versions' = [versions EXCEPT ![q] = KeptRows(@ \cup {[num |-> num, move |-> m]})],
               UNCHANGED gap
        PROVE  <1>9!1 /\ <1>9!2 /\ <1>9!3
    <3> DEFINE x == [num |-> num, move |-> m]
               kept == KeptRows(versions[q] \cup {x})
    <3>1. versions'[q] = kept /\ \A z \in Quotes \ {q} : versions'[z] = versions[z]
      BY <1>1, <2>3 DEF TypeOK
    <3>2. x \in Rows /\ \A y \in versions[q] : y.num < x.num
      BY <1>1, <2>3 DEF IsNext, Rows
    <3>3. x \in kept /\ kept \subseteq versions[q] \cup {x} /\ \A y \in kept : y.num <= x.num
      BY <2>1, <3>2, KeptNewest
    <3>4. \A y \in versions[q] : y.num \in Nat /\ y.move \in Nat /\ y.move < m
      BY <2>1 DEF Rows, Moves
    <3>5. x.move = m /\ x.num = num /\ num \in Nat
      BY <2>3, ApprovalsAssumption
    <3> HIDE DEF x, kept
    <3>6. \A y \in kept : y.move <= m
      BY <1>1, <3>3, <3>4, <3>5
    <3>7. \A y, z \in kept : y.num < z.num => y.move < z.move
      <4>1. SUFFICES ASSUME NEW y \in kept, NEW z \in kept, y.num < z.num
                     PROVE  y.move < z.move
        OBVIOUS
      <4>2. y # x
        BY <3>3, <3>4, <3>5, <4>1
      <4>3. CASE z = x
        BY <3>3, <3>4, <3>5, <4>1, <4>2, <4>3
      <4>4. CASE z # x
        BY <2>1, <3>3, <4>1, <4>2, <4>4 DEF RowsGood
      <4> QED BY <4>3, <4>4
    <3>8. RowsGood(kept, m)
      BY <3>6, <3>7 DEF RowsGood
    <3>9. Tracked(kept, m)
      BY <3>3, <3>5 DEF Tracked
    <3> QED BY <2>3, <3>1, <3>8, <3>9
  <2> QED BY <2>0, <2>2, <2>3
<1>10. RowsInv'
  <2>1. RowsGood(versions'[q], last'[q]) /\ ~Appending(q)'
    BY <1>1, <1>4, <1>6, <1>9
  <2>2. ASSUME NEW x \in Quotes \ {q}
        PROVE  /\ RowsGood(versions'[x], last'[x])
               /\ Appending(x)' => \A y \in versions'[x] : y.move < last'[x]
    <3>1. versions'[x] = versions[x] /\ last'[x] = last[x] /\ (Appending(x)' <=> Appending(x))
      BY <1>4, <1>6, <1>9, <2>2
    <3>2. x \in Quotes
      BY <2>2
    <3> QED BY <3>1, <3>2 DEF TrailInv, RowsInv
  <2> QED BY <2>1, <2>2 DEF RowsInv
<1>11. ASSUME NEW x \in Quotes, last'[x] # 0, ~gap'[x], ~Appending(x)'
       PROVE  Tracked(versions'[x], last'[x])
  BY <1>1, <1>4, <1>6, <1>9, <1>11 DEF TrailInv
<1> QED BY <1>7, <1>8, <1>10, <1>11 DEF TrailInv

LEMMA EnqueueTrail ==
  ASSUME TrailInv, NEW r \in Requests, Enqueue(r), TypeOK'
  PROVE  TrailInv'
<1> DEFINE t == req[r]
<1>1. /\ TypeOK /\ t \in Transitions /\ t.quote \in Quotes /\ t.move \in Moves
      /\ t # Idle /\ t.stage = "notify" /\ t.move = last[t.quote]
  BY StatesOfRequest DEF TrailInv, UnderWay, Enqueue
<1>2. /\ versions' = versions /\ moves' = moves /\ last' = last /\ gap' = gap
      /\ req'[r] = Idle /\ \A s \in Requests \ {r} : req'[s] = req[s]
  BY <1>1 DEF Enqueue, TypeOK
<1>3. \A x \in Quotes : Appending(x)' <=> Appending(x)
  BY <1>1, <1>2 DEF Appending
<1>4. UnderWay'
  BY <1>2 DEF TrailInv, UnderWay
<1>5. RowsInv' /\ Counted'
  BY <1>2, <1>3 DEF TrailInv, RowsInv, Counted
<1>6. QueueInOrder'
  <2>1. CASE UNCHANGED queue
    BY <1>2, <2>1 DEF TrailInv, QueueInOrder
  <2>2. ASSUME NEW ids \in [Recipients(t) -> 1..MaxId], IsBatch(ids, Recipients(t)),
               queue' = Newest(queue \cup Told(t, ids))
        PROVE  QueueInOrder'
    <3>1. \A n \in Told(t, ids) :
            /\ n.move = t.move /\ n.quote = t.quote /\ n.rcpt \in Recipients(t)
            /\ n.id = ids[n.rcpt] /\ n.id \in Nat
      BY <1>1, ToldParts, MaxIdIsNat
    <3>2. \A n \in queue, p \in Recipients(t) : n.id < ids[p]
      BY <2>2 DEF IsBatch, IsNext, Ids
    <3>3. \A n \in queue : n.id \in Nat /\ n.move \in Nat /\ n.move <= last[n.quote]
      BY <1>1 DEF TypeOK, Notices, TrailInv, QueueInOrder, Moves
    <3>4. queue' \subseteq queue \cup Told(t, ids)
      BY <2>2 DEF Newest
    <3>5. t.move \in Nat
      BY <1>1 DEF Moves
    <3> HIDE DEF t
    <3>6. \A n \in queue' : n.move <= last[n.quote]
      BY <1>1, <3>1, <3>3, <3>4, <3>5
    <3>7. ASSUME NEW n \in queue', NEW k \in queue', n.quote = k.quote, n.id < k.id
          PROVE  n.move <= k.move
      <4>1. CASE n \in queue /\ k \in queue
        BY <3>7, <4>1 DEF TrailInv, QueueInOrder
      <4>2. CASE k \in Told(t, ids)
        BY <1>1, <3>1, <3>4, <3>6, <3>7, <4>2
      <4>3. CASE n \in Told(t, ids) /\ k \in queue
        BY <3>1, <3>2, <3>3, <3>7, <4>3
      <4> QED BY <3>4, <4>1, <4>2, <4>3
    <3> QED BY <1>2, <3>6, <3>7 DEF QueueInOrder
  <2> QED BY <2>1, <2>2 DEF Enqueue
<1>7. ASSUME NEW x \in Quotes, last'[x] # 0, ~gap'[x], ~Appending(x)'
      PROVE  Tracked(versions'[x], last'[x])
  BY <1>2, <1>3, <1>7 DEF TrailInv
<1> QED BY <1>4, <1>5, <1>6, <1>7 DEF TrailInv

\* A crash ends every transition: what was not appended is a gap.
LEMMA CrashTrail == ASSUME TrailInv, Crash, TypeOK' PROVE TrailInv'
<1>1. /\ UNCHANGED <<versions, queue, moves, last>> /\ req' = [s \in Requests |-> Idle]
      /\ gap' = [q \in Quotes |-> gap[q] \/ Appending(q)]
  BY DEF Crash, Appending
<1>2. UnderWay' /\ \A q \in Quotes : ~Appending(q)'
  BY <1>1 DEF UnderWay, Appending
<1>3. QueueInOrder' /\ Counted'
  BY <1>1 DEF TrailInv, QueueInOrder, Counted
<1>4. RowsInv'
  BY <1>1, <1>2 DEF TrailInv, RowsInv, RowsGood
<1>5. ASSUME NEW x \in Quotes, last'[x] # 0, ~gap'[x] PROVE Tracked(versions'[x], last'[x])
  BY <1>1, <1>5 DEF TrailInv
<1> QED BY <1>2, <1>3, <1>4, <1>5 DEF TrailInv

\* Digests leave the trail alone, and change no record but its mark.
LEMMA DigestTrail ==
  ASSUME TrailInv, TypeOK', UNCHANGED <<versions, req, moves, last, gap>>,
         \A n \in queue' : \E k \in queue : n.id = k.id /\ n.move = k.move /\ n.quote = k.quote
  PROVE  TrailInv'
<1>1. \A q \in Quotes : Appending(q)' <=> Appending(q)
  BY DEF Appending
<1>2. UnderWay' /\ RowsInv' /\ Counted'
  BY <1>1 DEF TrailInv, UnderWay, RowsInv, Counted
<1>3. QueueInOrder'
  BY DEF TrailInv, QueueInOrder
<1> QED BY <1>1, <1>2, <1>3 DEF TrailInv

LEMMA TrailStep == ASSUME TrailInv, [Next]_vars PROVE TrailInv'
<1>0. TypeOK /\ TypeOK'
  BY TypeStep DEF TrailInv
<1>1. ASSUME NEW r \in Requests, NEW q \in Quotes, NEW p \in People, NEW to \in Statuses,
             Transition(r, q, p, to)
      PROVE  TrailInv'
  BY <1>0, <1>1, TransitionTrail
<1>2. ASSUME NEW r \in Requests, AppendQuoteVersion(r) PROVE TrailInv'
  BY <1>0, <1>2, AppendTrail
<1>3. ASSUME NEW r \in Requests, Enqueue(r) PROVE TrailInv'
  BY <1>0, <1>3, EnqueueTrail
<1>4. ASSUME NEW d \in Runs, RunDigest(d) \/ Accepted(d) \/ Unanswered(d) \/ MarkFails(d)
      PROVE  TrailInv'
  BY <1>0, <1>4, DigestTrail DEF RunDigest, Accepted, Unanswered, MarkFails
<1>5. ASSUME NEW d \in Runs, MarkDelivered(d) PROVE TrailInv'
  <2>1. \A n \in queue' : \E k \in queue : n.id = k.id /\ n.move = k.move /\ n.quote = k.quote
    <3>1. SUFFICES ASSUME NEW n \in queue'
                   PROVE  \E k \in queue : n.id = k.id /\ n.move = k.move /\ n.quote = k.quote
      OBVIOUS
    <3>2. PICK k \in queue : n = IF k.id \in Ids(run[d].items)
                                 THEN [k EXCEPT !.delivered = TRUE] ELSE k
      BY <1>5 DEF MarkDelivered
    <3>3. k \in Notices
      BY <1>0 DEF TypeOK
    <3> QED BY <3>2, <3>3, MarkedType
  <2> QED BY <1>0, <1>5, <2>1, DigestTrail DEF MarkDelivered
<1>6. CASE Crash
  BY <1>0, <1>6, CrashTrail
<1>7. CASE UNCHANGED vars
  BY <1>0, <1>7, DigestTrail DEF vars
<1> QED BY <1>1, <1>2, <1>3, <1>4, <1>5, <1>6, <1>7 DEF Next

LEMMA TrailFirst == Init => TrailInv
<1> SUFFICES ASSUME Init PROVE TrailInv
  OBVIOUS
<1>1. 0 \in 0..MaxMoves /\ [status |-> "draft", by |-> None] \in [status : Statuses, by : People \cup {None}]
  BY ApprovalsAssumption DEF Statuses
<1>2. TypeOK
  BY <1>1 DEF Init, TypeOK
<1> QED BY <1>2 DEF Init, TrailInv, UnderWay, RowsInv, RowsGood, QueueInOrder, Counted

\* What a transition leaves behind hangs together: one transition of a quote
\* at a time, its rows in order and none missing without a gap.
THEOREM TrailInvariance == Spec => []TrailInv
BY TrailFirst, TrailStep, PTL DEF Spec

\* Version rows and notifications of a quote follow its transitions.
THEOREM RecordsInOrder == Spec => []HistoryInOrder
<1>1. TrailInv => HistoryInOrder
  BY DEF TrailInv, RowsInv, RowsGood, QueueInOrder, HistoryInOrder
<1> QED BY <1>1, TrailInvariance, PTL

\* Between transitions the newest version row is the newest transition's.
THEOREM NewestRowIsKept == Spec => []TrailTracksQuote
<1>1. ASSUME TrailInv PROVE TrailTracksQuote
  <2>1. \A r \in Requests : req[r] # Idle => req[r].stage \in {"version", "notify"}
    BY <1>1, StatesOfRequest DEF TrailInv
  <2> QED BY <1>1, <2>1 DEF TrailInv, TrailTracksQuote, Appending, Tracked
<1> QED BY <1>1, TrailInvariance, PTL

-----------------------------------------------------------------------------
\* A set of naturals that is not empty has a least element.
LEMMA LeastOfNats ==
  ASSUME NEW S \in SUBSET Nat, S # {}
  PROVE  \E n \in S : \A k \in S : n <= k
<1>1. PICK n \in S : \A k \in S : ~(<<k, n>> \in OpToRel(<, Nat))
  BY NatLessThanWellFounded, WFMin
<1>2. \A k \in S : <<k, n>> \in Nat \X Nat
  OBVIOUS
<1>3. \A k \in S : ~(k < n)
  BY <1>1, <1>2, Zenon DEF OpToRel
<1> QED BY <1>3

\* A bounded set of naturals that is not empty has a greatest element.
LEMMA GreatestOfNats ==
  ASSUME NEW N \in Nat, NEW S \in SUBSET (0..N), S # {}
  PROVE  \E n \in S : \A k \in S : k <= n
<1> DEFINE B == {m \in Nat : \A k \in S : k <= m}
<1>1. N \in B
  OBVIOUS
<1>2. PICK n \in B : \A k \in B : n <= k
  <2> HIDE DEF B
  <2>1. B \in SUBSET Nat
    BY DEF B
  <2> QED BY <1>1, <2>1, LeastOfNats
<1>3. n \in Nat /\ \A k \in S : k \in Nat /\ k <= n
  BY <1>2
<1>4. ASSUME n \notin S PROVE FALSE
  <2>1. PICK k \in S : TRUE
    OBVIOUS
  <2>2. n # 0
    BY <1>3, <1>4, <2>1
  <2>3. \A m \in S : m <= n - 1
    BY <1>3, <1>4
  <2>4. n - 1 \in B
    BY <1>3, <2>2, <2>3
  <2> QED BY <1>2, <1>3, <2>4
<1> QED BY <1>3, <1>4

\* Records about the same move for the same person.
Same(n, m) == n.move = m.move /\ n.rcpt = m.rcpt

\* Records of a queue have an id each, and ids are bounded.
Ordered(q) ==
    /\ \A n \in q : n.id \in 0..MaxId
    /\ \A n, m \in q : n.id = m.id => Same(n, m)

\* What a digest holds is not newer than the queue, and an id in both means
\* the same.
HeldGood(items, q) ==
    \A m \in items :
      /\ \E n \in q : m.id <= n.id
      /\ \A n \in q : n.id = m.id => Same(n, m)

MarkInv ==
    /\ TypeOK
    /\ Ordered(queue)
    /\ \A d \in Runs : run[d] # Idle =>
         /\ HeldGood(run[d].items, queue)
         /\ run[d].stage = "answered" => Keys(run[d].items) \subseteq posted
    /\ DeliveredWasPosted

\* The newest record of a queue outlives the cap.
LEMMA NewestStays ==
  ASSUME NEW q \in SUBSET Notices, \A n \in q : n.id \in 0..MaxId, q # {}
  PROVE  \E n \in Newest(q) : \A k \in q : k.id <= n.id
<1>1. Ids(q) \in SUBSET (0..MaxId) /\ Ids(q) # {}
  BY DEF Ids
<1>2. PICK top \in Ids(q) : \A k \in Ids(q) : k <= top
  BY <1>1, MaxIdIsNat, GreatestOfNats
<1>3. PICK n \in q : n.id = top
  BY <1>2 DEF Ids
<1>4. \A k \in q : k.id \in Nat /\ k.id <= n.id
  BY <1>2, <1>3 DEF Ids, Notices
<1>5. {m \in q : m.id > n.id} = {}
  <2>1. \A m \in q : ~(m.id > n.id)
    BY <1>3, <1>4
  <2> QED BY <2>1
<1>6. n \in Newest(q)
  <2>1. Cardinality({m \in q : m.id > n.id}) = 0
    BY <1>5, FS_EmptySet
  <2>2. 0 < Cap
    BY ApprovalsAssumption
  <2> QED BY <1>3, <2>1, <2>2 DEF Newest
<1> QED BY <1>4, <1>6

\* A batch keeps ids apart, and means nothing else by an id a digest holds.
LEMMA EnqueueKeepsIds ==
  ASSUME TypeOK, Ordered(queue), NEW t \in Transitions,
         NEW ids \in [Recipients(t) -> 1..MaxId], IsBatch(ids, Recipients(t)),
         NEW q, q = Newest(queue \cup Told(t, ids))
  PROVE  /\ Ordered(q)
         /\ \A items \in SUBSET Notices : HeldGood(items, queue) => HeldGood(items, q)
<1> DEFINE all == queue \cup Told(t, ids)
<1>1. /\ Told(t, ids) \in SUBSET Notices
      /\ \A n \in Told(t, ids) : n.id \in 0..MaxId /\ n.move = t.move
                                 /\ n.rcpt \in Recipients(t) /\ n.id = ids[n.rcpt]
  BY ToldParts
<1>2. \A n \in queue, p \in Recipients(t) : n.id < ids[p]
  BY DEF IsBatch, IsNext, Ids
<1>3. \A n \in all : n \in Notices /\ n.id \in 0..MaxId /\ n.id \in Nat
  BY <1>1, MaxIdIsNat DEF TypeOK, Ordered
<1>4. q \subseteq all
  BY DEF Newest
<1>5. \A n \in queue, m \in Told(t, ids) : n.id < m.id
  BY <1>1, <1>2
<1>6. \A n, m \in Told(t, ids) : n.id = m.id => Same(n, m)
  BY <1>1 DEF IsBatch, Same
<1>7. \A n, m \in all : n.id = m.id => Same(n, m)
  <2>1. SUFFICES ASSUME NEW n \in all, NEW m \in all, n.id = m.id PROVE Same(n, m)
    OBVIOUS
  <2>2. n \in queue <=> m \in queue
    BY <1>3, <1>5, <2>1
  <2> QED BY <1>6, <2>1, <2>2 DEF Ordered
<1>8. Ordered(q)
  BY <1>3, <1>4, <1>7 DEF Ordered
<1>9. ASSUME NEW items \in SUBSET Notices, HeldGood(items, queue), NEW m \in items
      PROVE  /\ \E n \in q : m.id <= n.id
             /\ \A n \in q : n.id = m.id => Same(n, m)
  <2>1. PICK k \in queue : m.id <= k.id
    BY <1>9 DEF HeldGood
  <2>2. m.id \in Nat /\ k.id \in Nat /\ k \in all
    BY <1>3, <1>9 DEF Notices
  <2>3. PICK n \in q : k.id <= n.id
    BY <1>3, <2>2, NewestStays
  <2>4. n.id \in Nat /\ m.id <= n.id
    <3>1. n \in all
      BY <1>4
    <3> HIDE DEF all
    <3>2. n.id \in Nat
      BY <1>3, <3>1
    <3> QED BY <2>1, <2>2, <2>3, <3>2
  <2>5. ASSUME NEW o \in q, o.id = m.id PROVE Same(o, m)
    <3>1. o \in queue
      BY <1>3, <1>4, <1>5, <2>1, <2>2, <2>5
    <3> QED BY <1>9, <2>5, <3>1 DEF HeldGood
  <2> QED BY <2>3, <2>4, <2>5
<1>10. \A items \in SUBSET Notices : HeldGood(items, queue) => HeldGood(items, q)
  BY <1>9 DEF HeldGood
<1> QED BY <1>8, <1>10

\* A step that leaves the queue alone, and digests but for d.
LEMMA DigestsElse ==
  ASSUME MarkInv, TypeOK', queue' = queue, posted \subseteq posted', NEW d \in Runs,
         \A e \in Runs \ {d} : run'[e] = run[e],
         run'[d] # Idle =>
           /\ HeldGood(run'[d].items, queue)
           /\ run'[d].stage = "answered" => Keys(run'[d].items) \subseteq posted'
  PROVE  MarkInv'
<1>1. Ordered(queue')
  BY DEF MarkInv
<1>2. ASSUME NEW e \in Runs, run'[e] # Idle
      PROVE  /\ HeldGood(run'[e].items, queue')
             /\ run'[e].stage = "answered" => Keys(run'[e].items) \subseteq posted'
  BY <1>2 DEF MarkInv
<1>3. DeliveredWasPosted'
  BY DEF MarkInv, DeliveredWasPosted
<1> QED BY <1>1, <1>2, <1>3 DEF MarkInv, Ordered, HeldGood, Keys

\* A step that leaves queue, digests and the webhook alone.
LEMMA MarkElse == ASSUME MarkInv, TypeOK', UNCHANGED <<queue, run, posted>> PROVE MarkInv'
BY DEF MarkInv, Ordered, HeldGood, Keys, Same, DeliveredWasPosted

LEMMA MarkStep == ASSUME MarkInv, [Next]_vars PROVE MarkInv'
<1>0. TypeOK /\ TypeOK'
  BY TypeStep DEF MarkInv
<1>1. ASSUME NEW r \in Requests,
             \/ \E q \in Quotes, p \in People, to \in Statuses : Transition(r, q, p, to)
             \/ AppendQuoteVersion(r)
      PROVE  MarkInv'
  BY <1>0, <1>1, MarkElse DEF Transition, AppendQuoteVersion
<1>2. ASSUME NEW r \in Requests, Enqueue(r) PROVE MarkInv'
  <2>1. req[r] \in Transitions /\ run' = run /\ posted' = posted
    BY <1>0, <1>2, StatesOfRequest DEF Enqueue
  <2>2. CASE UNCHANGED queue
    BY <1>0, <2>1, <2>2, MarkElse
  <2>3. ASSUME NEW ids \in [Recipients(req[r]) -> 1..MaxId], IsBatch(ids, Recipients(req[r])),
               queue' = Newest(queue \cup Told(req[r], ids))
        PROVE  MarkInv'
    <3>1. /\ Ordered(queue')
          /\ \A items \in SUBSET Notices : HeldGood(items, queue) => HeldGood(items, queue')
      BY <1>0, <2>1, <2>3, EnqueueKeepsIds DEF MarkInv
    <3>2. ASSUME NEW d \in Runs, run[d] # Idle
          PROVE  /\ HeldGood(run[d].items, queue')
                 /\ run[d].stage = "answered" => Keys(run[d].items) \subseteq posted
      BY <1>0, <3>1, <3>2, ItemsAreNotices DEF MarkInv
    <3>3. ASSUME NEW n \in queue', n.delivered PROVE <<n.move, n.rcpt>> \in posted
      <4>1. n \in queue
        BY <2>1, <2>3, <3>3, ToldParts DEF Newest
      <4> QED BY <3>3, <4>1 DEF MarkInv, DeliveredWasPosted
    <3> QED BY <1>0, <2>1, <3>1, <3>2, <3>3 DEF MarkInv, DeliveredWasPosted, Ordered, HeldGood, Keys
  <2> QED BY <1>2, <2>2, <2>3 DEF Enqueue
<1>3. ASSUME NEW d \in Runs, RunDigest(d) PROVE MarkInv'
  <2>1. /\ run'[d] = [stage |-> "posting", items |-> Pending]
        /\ \A e \in Runs \ {d} : run'[e] = run[e]
    BY <1>0, <1>3 DEF RunDigest, TypeOK
  <2>2. HeldGood(Pending, queue)
    BY <1>0 DEF MarkInv, HeldGood, Ordered, Pending, TypeOK, Notices
  <2> QED BY <1>0, <1>3, <2>1, <2>2, DigestsElse DEF RunDigest
<1>4. ASSUME NEW d \in Runs, Accepted(d) PROVE MarkInv'
  <2>1. run[d] \in Digests /\ run[d] # Idle
    BY <1>0, <1>4, ItemsAreNotices DEF Accepted
  <2>2. /\ run'[d] = [run[d] EXCEPT !.stage = "answered"]
        /\ \A e \in Runs \ {d} : run'[e] = run[e]
        /\ posted' = posted \cup Keys(run[d].items) /\ queue' = queue
    BY <1>0, <1>4 DEF Accepted, Taken, TypeOK
  <2>3. run'[d].items = run[d].items
    BY <2>1, <2>2 DEF Digests
  <2>4. HeldGood(run[d].items, queue)
    BY <2>1 DEF MarkInv
  <2>5. Keys(run'[d].items) \subseteq posted' /\ posted \subseteq posted'
    BY <2>2, <2>3 DEF Keys
  <2> QED BY <1>0, <2>2, <2>3, <2>4, <2>5, DigestsElse
<1>5. ASSUME NEW d \in Runs, Unanswered(d) \/ MarkFails(d) PROVE MarkInv'
  <2>1. /\ run'[d] = Idle /\ \A e \in Runs \ {d} : run'[e] = run[e]
        /\ queue' = queue /\ posted \subseteq posted'
    BY <1>0, <1>5 DEF Unanswered, MarkFails, Taken, TypeOK
  <2> QED BY <1>0, <2>1, DigestsElse
<1>6. ASSUME NEW d \in Runs, MarkDelivered(d) PROVE MarkInv'
  <2>1. /\ run[d] # Idle /\ run[d].stage = "answered" /\ posted' = posted
        /\ run'[d] = Idle /\ \A e \in Runs \ {d} : run'[e] = run[e]
    BY <1>0, <1>6 DEF MarkDelivered, TypeOK
  <2>2. ASSUME NEW n \in queue'
        PROVE  \E k \in queue : /\ n.id = k.id /\ Same(n, k)
                                /\ n.delivered => k.delivered \/ k.id \in Ids(run[d].items)
    <3>1. PICK k \in queue : n = IF k.id \in Ids(run[d].items)
                                 THEN [k EXCEPT !.delivered = TRUE] ELSE k
      BY <1>6, <2>2 DEF MarkDelivered
    <3>2. k \in Notices
      BY <1>0 DEF TypeOK
    <3> QED BY <3>1, <3>2, MarkedType DEF Same
  <2>3. ASSUME NEW k \in queue PROVE \E n \in queue' : n.id = k.id
    <3>1. k \in Notices
      BY <1>0 DEF TypeOK
    <3> QED BY <1>6, <3>1, MarkedType DEF MarkDelivered
  <2>4. Ordered(queue')
    BY <2>2 DEF MarkInv, Ordered, Same
  <2>5. ASSUME NEW e \in Runs, run'[e] # Idle
        PROVE  /\ HeldGood(run'[e].items, queue')
               /\ run'[e].stage = "answered" => Keys(run'[e].items) \subseteq posted'
    <3>1. /\ run'[e] = run[e] /\ HeldGood(run[e].items, queue)
          /\ run'[e].stage = "answered" => Keys(run'[e].items) \subseteq posted'
      BY <2>1, <2>5 DEF MarkInv
    <3>2. HeldGood(run[e].items, queue')
      BY <2>2, <2>3, <3>1 DEF HeldGood, Same
    <3> QED BY <3>1, <3>2
  <2>6. ASSUME NEW n \in queue', n.delivered PROVE <<n.move, n.rcpt>> \in posted
    <3>1. PICK k \in queue : /\ Same(n, k)
                             /\ k.delivered \/ k.id \in Ids(run[d].items)
      BY <2>2, <2>6
    <3>2. CASE k.delivered
      BY <3>1, <3>2 DEF MarkInv, DeliveredWasPosted, Same
    <3>3. CASE k.id \in Ids(run[d].items)
      <4>1. PICK m \in run[d].items : m.id = k.id
        BY <3>3 DEF Ids
      <4>2. Same(k, m) /\ <<m.move, m.rcpt>> \in posted
        BY <2>1, <4>1 DEF MarkInv, HeldGood, Keys
      <4> QED BY <3>1, <4>2 DEF Same
    <3> QED BY <3>1, <3>2, <3>3
  <2> QED BY <1>0, <2>1, <2>4, <2>5, <2>6 DEF MarkInv, DeliveredWasPosted, Ordered, HeldGood, Keys
<1>7. CASE Crash
  <2>1. run' = [d \in Runs |-> Idle] /\ queue' = queue /\ posted \subseteq posted'
    BY <1>7 DEF Crash, Taken
  <2> QED BY <1>0, <2>1 DEF MarkInv, DeliveredWasPosted, Ordered
<1>8. CASE UNCHANGED vars
  BY <1>0, <1>8, MarkElse DEF vars
<1> QED BY <1>1, <1>2, <1>3, <1>4, <1>5, <1>6, <1>7, <1>8 DEF Next

\* A mark never falls on a record that was not sent.
THEOREM MarksFallOnPosted == Spec => []DeliveredWasPosted
<1>1. Init => MarkInv
  BY TrailFirst DEF Init, TrailInv, MarkInv, Ordered, DeliveredWasPosted
<1>2. MarkInv => DeliveredWasPosted
  BY DEF MarkInv
<1> QED BY <1>1, <1>2, MarkStep, PTL DEF Spec

-----------------------------------------------------------------------------
\* The image of a finite set under a function is finite.
LEMMA ImageIsFinite ==
  ASSUME NEW S, IsFiniteSet(S), NEW I, NEW f \in [S -> I], \A y \in I : \E x \in S : f[x] = y
  PROVE  IsFiniteSet(I)
<1>1. f \in Surjection(S, I)
  BY DEF Surjection
<1> QED BY <1>1, FS_Surjection

\* The records of a transition are as many as its recipients at most, with an
\* id each, all newer than the queue.
LEMMA ToldIsFinite ==
  ASSUME TypeOK, NEW t \in Transitions, NEW ids \in [Recipients(t) -> 1..MaxId],
         IsBatch(ids, Recipients(t))
  PROVE  /\ IsFiniteSet(Told(t, ids))
         /\ \A n, m \in Told(t, ids) : n.id = m.id => n = m
         /\ \A n \in queue, m \in Told(t, ids) : n.id < m.id
<1> DEFINE rec == [p \in Recipients(t) |->
                     [id |-> ids[p], move |-> t.move, quote |-> t.quote, rcpt |-> p,
                      delivered |-> FALSE]]
<1>1. IsFiniteSet(Recipients(t))
  BY RecipientsArePeople, ApprovalsAssumption, FS_Subset
<1>2. \A p \in Recipients(t) : rec[p].id = ids[p]
  OBVIOUS
<1>3. Told(t, ids) = {rec[p] : p \in Recipients(t)}
  BY DEF Told
<1>4. rec \in [Recipients(t) -> Told(t, ids)]
  BY <1>3
<1> HIDE DEF rec
<1>5. IsFiniteSet(Told(t, ids))
  <2>1. \A n \in Told(t, ids) : \E p \in Recipients(t) : rec[p] = n
    BY <1>3
  <2> QED BY <1>1, <1>4, <2>1, ImageIsFinite
<1>6. \A n, m \in Told(t, ids) : n.id = m.id => n = m
  BY <1>2, <1>3 DEF IsBatch
<1>7. \A n \in queue, p \in Recipients(t) : n.id < ids[p]
  BY DEF IsBatch, IsNext, Ids
<1> QED BY <1>2, <1>3, <1>5, <1>6, <1>7

\* Ids are given out once.
IdsInv ==
    /\ TypeOK
    /\ IsFiniteSet(queue)
    /\ \A n, m \in queue : n.id = m.id => n = m

LEMMA IdsElse == ASSUME IdsInv, TypeOK', UNCHANGED queue PROVE IdsInv'
  BY DEF IdsInv

LEMMA IdsStep == ASSUME IdsInv, [Next]_vars PROVE IdsInv'
<1>0. TypeOK /\ TypeOK'
  BY TypeStep DEF IdsInv
<1>1. ASSUME NEW r \in Requests, NEW q \in Quotes, NEW p \in People, NEW to \in Statuses,
             Transition(r, q, p, to)
      PROVE  IdsInv'
  BY <1>0, <1>1, IdsElse DEF Transition
<1>2. ASSUME NEW r \in Requests, AppendQuoteVersion(r) PROVE IdsInv'
  BY <1>0, <1>2, IdsElse DEF AppendQuoteVersion
<1>3. ASSUME NEW r \in Requests, Enqueue(r) PROVE IdsInv'
  <2>1. req[r] \in Transitions
    BY <1>0, <1>3, StatesOfRequest DEF Enqueue
  <2>2. CASE UNCHANGED queue
    BY <1>0, <2>2, IdsElse
  <2>3. ASSUME NEW ids \in [Recipients(req[r]) -> 1..MaxId], IsBatch(ids, Recipients(req[r])),
               queue' = Newest(queue \cup Told(req[r], ids))
        PROVE  IdsInv'
    <3> DEFINE all == queue \cup Told(req[r], ids)
    <3>1. /\ IsFiniteSet(Told(req[r], ids))
          /\ \A n, m \in Told(req[r], ids) : n.id = m.id => n = m
          /\ \A n \in queue, m \in Told(req[r], ids) : n.id < m.id
      BY <1>0, <2>1, <2>3, ToldIsFinite
    <3>2. all \in SUBSET Notices /\ IsFiniteSet(all)
      BY <1>0, <2>1, <3>1, ToldParts, FS_Union DEF TypeOK, IdsInv
    <3>3. \A n \in all : n.id \in Nat
      BY <3>2 DEF Notices
    <3>4. \A n, m \in all : n.id = m.id => n = m
      BY <3>1, <3>3 DEF IdsInv
    <3> HIDE DEF all
    <3>5. queue' \in SUBSET all
      BY <2>3 DEF Newest, all
    <3> QED BY <1>0, <3>2, <3>4, <3>5, FS_Subset DEF IdsInv
  <2> QED BY <1>3, <2>2, <2>3 DEF Enqueue
<1>4. ASSUME NEW d \in Runs, RunDigest(d) \/ Accepted(d) \/ Unanswered(d) \/ MarkFails(d)
      PROVE  IdsInv'
  BY <1>0, <1>4, IdsElse DEF RunDigest, Accepted, Unanswered, MarkFails
<1>5. ASSUME NEW d \in Runs, MarkDelivered(d) PROVE IdsInv'
  <2> DEFINE mark == [n \in queue |-> IF n.id \in Ids(run[d].items)
                                      THEN [n EXCEPT !.delivered = TRUE] ELSE n]
  <2>1. queue' = {mark[n] : n \in queue}
    BY <1>5 DEF MarkDelivered
  <2>2. mark \in [queue -> {mark[n] : n \in queue}] /\ \A n \in queue : mark[n].id = n.id
    <3>1. \A n \in queue : n \in Notices
      BY <1>0 DEF TypeOK
    <3>2. \A n \in queue : mark[n] = IF n.id \in Ids(run[d].items)
                                     THEN [n EXCEPT !.delivered = TRUE] ELSE n
      OBVIOUS
    <3>3. mark \in [queue -> {mark[n] : n \in queue}]
      OBVIOUS
    <3> HIDE DEF mark
    <3> QED BY <3>1, <3>2, <3>3, MarkedType
  <2> HIDE DEF mark
  <2>3. IsFiniteSet(queue')
    <3>1. mark \in [queue -> queue'] /\ \A n \in queue' : \E k \in queue : mark[k] = n
      BY <2>1, <2>2
    <3> QED BY <3>1, ImageIsFinite DEF IdsInv
  <2>4. \A n, m \in queue' : n.id = m.id => n = m
    BY <2>1, <2>2 DEF IdsInv
  <2> QED BY <1>0, <2>3, <2>4 DEF IdsInv
<1>6. CASE Crash
  BY <1>0, <1>6, IdsElse DEF Crash
<1>7. CASE UNCHANGED vars
  BY <1>0, <1>7, IdsElse DEF vars
<1> QED BY <1>1, <1>2, <1>3, <1>4, <1>5, <1>6, <1>7 DEF Next

LEMMA IdsFirst == Init => IdsInv
<1> SUFFICES ASSUME Init PROVE IdsInv
  OBVIOUS
<1>1. TypeOK
  BY TrailFirst DEF TrailInv
<1> QED BY <1>1, FS_EmptySet DEF Init, IdsInv

\* What the cap drops has Cap newer ones among what it keeps.
LEMMA NewestLeaves ==
  ASSUME NEW q \in SUBSET Notices, IsFiniteSet(q), \A n \in q : n.id \in 0..MaxId,
         NEW z \in q, z \notin Newest(q)
  PROVE  Cardinality({m \in Newest(q) : m.id > z.id}) >= Cap
<1> DEFINE newer(x) == {m \in q : m.id > x.id}
           W == {m \in Newest(q) : m.id > z.id}
<1>0. /\ \A n \in q : n.id \in Nat /\ n.id \in 0..MaxId
      /\ Newest(q) \subseteq q /\ MaxId \in Nat /\ Cap \in Nat
      /\ \A n \in q : n \notin Newest(q) => ~(Cardinality(newer(n)) < Cap)
  BY MaxIdIsNat, ApprovalsAssumption DEF Newest, Notices
<1>1. PICK x \in q \ Newest(q) : \A y \in q \ Newest(q) : y.id <= x.id
  <2> DEFINE J == {j \in 0..MaxId : \E y \in q \ Newest(q) : y.id = j}
  <2>1. J \in SUBSET (0..MaxId) /\ J # {}
    BY <1>0
  <2>2. PICK k \in J : \A j \in J : j <= k
    <3> HIDE DEF J
    <3> QED BY <1>0, <2>1, GreatestOfNats
  <2> QED BY <1>0, <2>2
<1>2. newer(x) \in SUBSET W
  <2>1. SUFFICES ASSUME NEW y \in q, y.id > x.id PROVE y \in Newest(q) /\ y.id > z.id
    OBVIOUS
  <2>2. y.id \in Nat /\ x.id \in Nat /\ z.id \in Nat /\ z.id <= x.id
    BY <1>0, <1>1
  <2>3. y \in Newest(q)
    BY <1>1, <2>1, <2>2
  <2> QED BY <2>1, <2>2, <2>3
<1>3. IsFiniteSet(newer(x)) /\ IsFiniteSet(W)
  BY <1>0, FS_Subset
<1>4. ~(Cardinality(newer(x)) < Cap)
  BY <1>0, <1>1
<1> HIDE DEF newer, W
<1>5. /\ Cardinality(newer(x)) <= Cardinality(W)
      /\ Cardinality(newer(x)) \in Nat /\ Cardinality(W) \in Nat
  BY <1>2, <1>3, FS_Subset, FS_CardinalityType
<1>6. Cardinality(W) >= Cap
  BY <1>0, <1>4, <1>5
<1> QED BY <1>6 DEF W

\* Record n is in the next queue, was sent, or has Cap newer ones there.
KeptOrDue(n) ==
    \/ n \in queue'
    \/ <<n.move, n.rcpt>> \in posted
    \/ Cardinality({m \in queue' : m.id > n.id}) >= Cap

LEMMA DropStep ==
  ASSUME MarkInv, IdsInv, Next, NEW n \in Pending PROVE KeptOrDue(n)
<1>0. TypeOK /\ n \in queue
  BY DEF MarkInv, Pending
<1>1. CASE UNCHANGED queue
  BY <1>0, <1>1 DEF KeptOrDue
<1>2. ASSUME NEW r \in Requests, Enqueue(r),
             NEW ids \in [Recipients(req[r]) -> 1..MaxId], IsBatch(ids, Recipients(req[r])),
             queue' = Newest(queue \cup Told(req[r], ids)), n \notin queue'
      PROVE  Cardinality({m \in queue' : m.id > n.id}) >= Cap
  <2> DEFINE all == queue \cup Told(req[r], ids)
  <2>1. req[r] \in Transitions
    BY <1>0, <1>2, StatesOfRequest DEF Enqueue
  <2>2. /\ IsFiniteSet(Told(req[r], ids)) /\ Told(req[r], ids) \in SUBSET Notices
        /\ \A m \in Told(req[r], ids) : m.id \in 0..MaxId
    BY <1>0, <1>2, <2>1, ToldIsFinite, ToldParts
  <2>3. all \in SUBSET Notices /\ IsFiniteSet(all)
    BY <1>0, <2>2, FS_Union DEF TypeOK, IdsInv
  <2>4. (\A m \in all : m.id \in 0..MaxId) /\ n \in all /\ queue' = Newest(all)
    BY <1>0, <1>2, <2>2 DEF MarkInv, Ordered
  <2> HIDE DEF all
  <2> QED BY <1>2, <2>3, <2>4, NewestLeaves
<1>3. ASSUME NEW d \in Runs, MarkDelivered(d), n \notin queue'
      PROVE  <<n.move, n.rcpt>> \in posted
  <2>1. n.id \in Ids(run[d].items)
    BY <1>0, <1>3 DEF MarkDelivered
  <2>2. PICK m \in run[d].items : m.id = n.id
    BY <2>1 DEF Ids
  <2>3. Same(n, m) /\ <<m.move, m.rcpt>> \in posted
    BY <1>0, <1>3, <2>2 DEF MarkDelivered, MarkInv, HeldGood, Keys
  <2> QED BY <2>3 DEF Same
<1> QED
  BY <1>1, <1>2, <1>3 DEF KeptOrDue, Next, Transition, AppendQuoteVersion, Enqueue, RunDigest, Accepted,
                          Unanswered, MarkFails, Crash

\* A notification waits until the webhook has taken it or Cap newer ones push
\* it out, for any cap and any overlap of requests, digests and crashes.
THEOREM NothingElseDrops == Spec => OnlyTheCapDrops
<1>1. MarkInv /\ IdsInv /\ [Next]_vars => [\A n \in Pending : KeptOrDue(n)]_vars
  BY DropStep
<1>2. Init => MarkInv
  BY TrailFirst DEF Init, TrailInv, MarkInv, Ordered, DeliveredWasPosted
<1> QED
  BY <1>1, <1>2, IdsFirst, MarkStep, IdsStep, PTL DEF Spec, OnlyTheCapDrops, KeptOrDue

-----------------------------------------------------------------------------
\* The records in the queue and in the hands of digests.
Held(d) == IF run[d] = Idle THEN {} ELSE run[d].items
Known == queue \cup UNION {Held(d) : d \in Runs}

\* Move m has no record yet.
Unused(m) == (\A n \in Known : n.move # m) /\ (\A k \in posted : k[1] # m)

\* A transition that may still tell somebody is the only one of its move and
\* has told nobody; a recipient of a move has one record, wherever it is.
KeyInv ==
    /\ TypeOK
    /\ \A r \in Requests : req[r] # Idle => req[r].move <= moves /\ Unused(req[r].move)
    /\ \A r, s \in Requests :
         req[r] # Idle /\ req[s] # Idle /\ req[r].move = req[s].move => r = s
    /\ (\A n \in Known : n.move <= moves) /\ (\A k \in posted : k[1] <= moves)
    /\ \A n, m \in Known : Same(n, m) => n.id = m.id

\* Digest d has been answered and holds what is pending of record n.
Marks(d, n) == run[d] # Idle /\ run[d].stage = "answered" /\ n.id \in Ids(run[d].items)

\* As long as nothing excuses a repeat, one digest runs at a time, it has not
\* sent what it is about to send, and what was sent and still waits is about to
\* be marked by it.
Quiet ==
    /\ ~again
    /\ \A d, e \in Runs : run[d] # Idle /\ run[e] # Idle => d = e
    /\ \A d \in Runs : run[d] # Idle /\ run[d].stage = "posting" => Keys(run[d].items) \cap posted = {}
    /\ \A n \in Pending : <<n.move, n.rcpt>> \in posted => \E d \in Runs : Marks(d, n)

OnceInv == KeyInv /\ (excuse \/ Quiet)

LEMMA KnownIs ==
  \A n : n \in Known <=> n \in queue \/ \E d \in Runs : run[d] # Idle /\ n \in run[d].items
BY DEF Known, Held

LEMMA KnownAre ==
  ASSUME TypeOK, NEW n \in Known
  PROVE  n \in Notices /\ n.move \in Nat /\ <<n.move, n.rcpt>>[1] = n.move
BY KnownIs, ItemsAreNotices DEF TypeOK, Notices, Moves

\* A step that makes no record, sends no other, and starts no transition.
LEMMA KeyElse ==
  ASSUME KeyInv, TypeOK', moves' = moves,
         \A r \in Requests : req'[r] # Idle => req[r] # Idle /\ req'[r].move = req[r].move,
         \A n \in Known' : \E k \in Known : n.id = k.id /\ Same(n, k),
         \A k \in posted' : k \in posted \/ \E n \in Known : k = <<n.move, n.rcpt>>
  PROVE  KeyInv'
<1>1. \A n \in Known : <<n.move, n.rcpt>>[1] = n.move
  OBVIOUS
<1>2. ASSUME NEW r \in Requests, req'[r] # Idle
      PROVE  /\ req'[r].move <= moves' /\ \A n \in Known' : n.move # req'[r].move
             /\ \A k \in posted' : k[1] # req'[r].move
  <2>1. req'[r].move = req[r].move /\ req[r].move <= moves /\ Unused(req[r].move)
    BY <1>2 DEF KeyInv
  <2> QED BY <1>1, <2>1 DEF Unused, Same
<1>3. /\ \A n \in Known' : n.move <= moves'
      /\ \A k \in posted' : k[1] <= moves'
      /\ \A n, m \in Known' : Same(n, m) => n.id = m.id
  BY <1>1 DEF KeyInv, Same
<1>4. \A r, s \in Requests :
        req'[r] # Idle /\ req'[s] # Idle /\ req'[r].move = req'[s].move => r = s
  BY DEF KeyInv
<1> QED BY <1>2, <1>3, <1>4 DEF KeyInv, Unused, Same

LEMMA TransitionKeys ==
  ASSUME KeyInv, NEW r \in Requests, NEW q \in Quotes, NEW p \in People,
         NEW to \in Statuses, Transition(r, q, p, to), TypeOK'
  PROVE  KeyInv'
<1>1. /\ TypeOK /\ moves \in Nat /\ moves' = moves + 1
      /\ queue' = queue /\ run' = run /\ posted' = posted
  BY ApprovalsAssumption DEF KeyInv, TypeOK, Transition
<1>2. Known' = Known
  BY <1>1 DEF Known, Held
<1>3. /\ req'[r].move = moves + 1 /\ \A s \in Requests \ {r} : req'[s] = req[s]
  BY <1>1 DEF Transition, TypeOK
<1>4. \A n \in Known : n.move \in Nat /\ n.move < moves + 1
  BY <1>1, KnownAre DEF KeyInv
<1>5. \A k \in posted : k[1] \in Nat /\ k[1] < moves + 1
  BY <1>1 DEF KeyInv, TypeOK, Moves
<1>6. Unused(moves + 1)
  BY <1>4, <1>5 DEF Unused
<1>7. \A s \in Requests : req[s] # Idle => req[s].move \in Nat /\ req[s].move < moves + 1
  BY <1>1, StatesOfRequest DEF KeyInv, Moves
<1>8. \A s \in Requests : req'[s] # Idle =>
        req'[s].move <= moves' /\ Unused(req'[s].move)
  BY <1>1, <1>3, <1>6, <1>7 DEF KeyInv
<1>9. \A s, u \in Requests :
        req'[s] # Idle /\ req'[u] # Idle /\ req'[s].move = req'[u].move => s = u
  BY <1>1, <1>3, <1>7 DEF KeyInv
<1>10. (\A n \in Known : n.move <= moves') /\ (\A k \in posted : k[1] <= moves')
  BY <1>1, <1>4, <1>5
<1> QED BY <1>1, <1>2, <1>8, <1>9, <1>10 DEF KeyInv, Unused, Same

LEMMA EnqueueKeys ==
  ASSUME KeyInv, NEW r \in Requests, Enqueue(r), TypeOK'
  PROVE  KeyInv'
<1>1. /\ TypeOK /\ req[r] # Idle /\ req[r] \in Transitions
      /\ run' = run /\ posted' = posted /\ moves' = moves
      /\ req'[r] = Idle /\ \A s \in Requests \ {r} : req'[s] = req[s]
  BY StatesOfRequest DEF KeyInv, Enqueue, TypeOK
<1>2. CASE UNCHANGED queue
  <2>1. Known' = Known
    BY <1>1, <1>2 DEF Known, Held
  <2> QED BY <1>1, <2>1, KeyElse DEF Same
<1>3. ASSUME NEW ids \in [Recipients(req[r]) -> 1..MaxId], IsBatch(ids, Recipients(req[r])),
             queue' = Newest(queue \cup Told(req[r], ids))
      PROVE  KeyInv'
  <2> DEFINE t == req[r]
             told == Told(t, ids)
  <2>1. /\ \A n \in told : n.move = t.move /\ n.rcpt \in Recipients(t) /\ n.id = ids[n.rcpt]
        /\ \A n \in Known' : n \in Known \/ n \in told
    <3>1. \A n \in told : n.move = t.move /\ n.rcpt \in Recipients(t) /\ n.id = ids[n.rcpt]
      BY <1>1, ToldParts
    <3>2. \A n \in Known' : n \in queue' \/ \E d \in Runs : run[d] # Idle /\ n \in run[d].items
      BY <1>1 DEF Known, Held
    <3>3. queue' \subseteq queue \cup told
      BY <1>3 DEF Newest
    <3> QED BY <3>1, <3>2, <3>3, KnownIs
  <2>2. t.move <= moves /\ Unused(t.move)
    BY <1>1 DEF KeyInv
  <2> HIDE DEF told, t
  <2>3. ASSUME NEW s \in Requests, req'[s] # Idle
        PROVE  /\ req'[s].move <= moves /\ \A n \in Known' : n.move # req'[s].move
               /\ \A k \in posted : k[1] # req'[s].move
    <3>1. /\ s # r /\ req'[s] = req[s] /\ req[s].move <= moves
          /\ req[s].move # t.move /\ Unused(req[s].move)
      BY <1>1, <2>3 DEF KeyInv, t
    <3> QED BY <1>1, <2>1, <3>1 DEF Unused
  <2>4. \A s, u \in Requests :
          req'[s] # Idle /\ req'[u] # Idle /\ req'[s].move = req'[u].move => s = u
    BY <1>1 DEF KeyInv
  <2>5. (\A n \in Known' : n.move <= moves) /\ (\A k \in posted : k[1] <= moves)
    BY <2>1, <2>2 DEF KeyInv
  <2>6. \A n, m \in Known' : Same(n, m) => n.id = m.id
    <3>1. SUFFICES ASSUME NEW n \in Known', NEW m \in Known', Same(n, m) PROVE n.id = m.id
      BY DEF Same
    <3>2. CASE n \in told /\ m \in told
      BY <2>1, <3>1, <3>2 DEF Same
    <3>3. CASE n \in Known /\ m \in Known
      BY <3>1, <3>3 DEF KeyInv
    <3>4. \A x \in Known : x.move # t.move
      BY <2>2 DEF Unused
    <3> QED BY <2>1, <3>1, <3>2, <3>3, <3>4 DEF Same
  <2> QED BY <1>1, <2>3, <2>4, <2>5, <2>6 DEF KeyInv, Unused, Same
<1> QED BY <1>2, <1>3 DEF Enqueue

\* A step that leaves queue, digests and the webhook alone.
LEMMA KeySame ==
  ASSUME KeyInv, TypeOK', UNCHANGED <<queue, run, posted, moves>>,
         \A r \in Requests : req'[r] # Idle => req[r] # Idle /\ req'[r].move = req[r].move
  PROVE  KeyInv'
<1>1. Known' = Known
  BY DEF Known, Held
<1> QED BY <1>1, KeyElse DEF Same

LEMMA KeyStep == ASSUME KeyInv, [Next]_vars PROVE KeyInv'
<1>0. TypeOK /\ TypeOK'
  BY TypeStep DEF KeyInv
<1>1. ASSUME NEW r \in Requests, NEW q \in Quotes, NEW p \in People, NEW to \in Statuses,
             Transition(r, q, p, to)
      PROVE  KeyInv'
  BY <1>0, <1>1, TransitionKeys
<1>2. ASSUME NEW r \in Requests, AppendQuoteVersion(r) PROVE KeyInv'
  <2>1. req[r] # Idle /\ req[r] \in Transitions /\ UNCHANGED <<queue, run, posted, moves>>
    BY <1>0, <1>2, StatesOfRequest DEF AppendQuoteVersion
  <2>2. /\ req'[r] = [req[r] EXCEPT !.stage = "notify"]
        /\ \A s \in Requests \ {r} : req'[s] = req[s]
    BY <1>0, <1>2 DEF AppendQuoteVersion, TypeOK
  <2>3. req'[r].move = req[r].move
    BY <2>1, <2>2 DEF Transitions
  <2> QED BY <1>0, <2>1, <2>2, <2>3, KeySame
<1>3. ASSUME NEW r \in Requests, Enqueue(r) PROVE KeyInv'
  BY <1>0, <1>3, EnqueueKeys
<1>4. ASSUME NEW d \in Runs, RunDigest(d) PROVE KeyInv'
  <2>1. /\ run'[d] = [stage |-> "posting", items |-> Pending]
        /\ \A e \in Runs \ {d} : run'[e] = run[e]
        /\ UNCHANGED <<queue, req, moves, posted>>
    BY <1>0, <1>4 DEF RunDigest, TypeOK
  <2>2. \A n \in Known' : n \in Known
    <3>1. \A n \in Known' : n \in queue \/ \E e \in Runs : run'[e] # Idle /\ n \in run'[e].items
      BY <2>1 DEF Known, Held
    <3> QED BY <2>1, <3>1, KnownIs DEF Pending
  <2> QED BY <1>0, <2>1, <2>2, KeyElse DEF Same
<1>5. ASSUME NEW d \in Runs, Accepted(d) \/ Unanswered(d) \/ MarkFails(d) PROVE KeyInv'
  <2>1. /\ run[d] # Idle /\ run'[d] \in {Idle, [run[d] EXCEPT !.stage = "answered"]}
        /\ \A e \in Runs \ {d} : run'[e] = run[e]
        /\ UNCHANGED <<queue, req, moves>> /\ posted' \subseteq posted \cup Keys(run[d].items)
    BY <1>0, <1>5 DEF Accepted, Unanswered, MarkFails, Taken, TypeOK
  <2>2. run'[d] # Idle => run'[d].items = run[d].items
    BY <1>0, <2>1, ItemsAreNotices DEF Digests
  <2>3. \A n \in Known' : n \in Known
    <3>1. \A n \in Known' : n \in queue \/ \E e \in Runs : run'[e] # Idle /\ n \in run'[e].items
      BY <2>1 DEF Known, Held
    <3> QED BY <2>1, <2>2, <3>1, KnownIs
  <2>4. \A k \in posted' : k \in posted \/ \E n \in Known : k = <<n.move, n.rcpt>>
    BY <2>1, KnownIs DEF Keys
  <2> QED BY <1>0, <2>1, <2>3, <2>4, KeyElse DEF Same
<1>6. ASSUME NEW d \in Runs, MarkDelivered(d) PROVE KeyInv'
  <2>1. /\ run'[d] = Idle /\ \A e \in Runs \ {d} : run'[e] = run[e]
        /\ UNCHANGED <<req, moves, posted>>
    BY <1>0, <1>6 DEF MarkDelivered, TypeOK
  <2>2. ASSUME NEW n \in queue' PROVE \E k \in queue : n.id = k.id /\ Same(n, k)
    <3>1. PICK k \in queue : n = IF k.id \in Ids(run[d].items)
                                 THEN [k EXCEPT !.delivered = TRUE] ELSE k
      BY <1>6, <2>2 DEF MarkDelivered
    <3>2. k \in Notices
      BY <1>0 DEF TypeOK
    <3> QED BY <3>1, <3>2, MarkedType DEF Same
  <2>3. \A n \in Known' : \E k \in Known : n.id = k.id /\ Same(n, k)
    <3>1. \A n \in Known' : n \in queue' \/ \E e \in Runs : run'[e] # Idle /\ n \in run'[e].items
      BY DEF Known, Held
    <3> QED BY <2>1, <2>2, <3>1, KnownIs DEF Same
  <2> QED BY <1>0, <2>1, <2>3, KeyElse DEF Same
<1>7. CASE Crash
  <2>1. PICK arrived \in SUBSET {d \in Runs : run[d] # Idle /\ run[d].stage = "posting"} :
          posted' = posted \cup Keys(UNION {run[d].items : d \in arrived})
    BY <1>7 DEF Crash, Taken
  <2>2. /\ run' = [d \in Runs |-> Idle] /\ req' = [r \in Requests |-> Idle]
        /\ UNCHANGED <<queue, moves>>
    BY <1>7 DEF Crash
  <2>3. \A n \in Known' : n \in Known
    BY <2>2 DEF Known, Held
  <2>4. \A k \in posted' : k \in posted \/ \E n \in Known : k = <<n.move, n.rcpt>>
    BY <2>1, KnownIs DEF Keys
  <2> QED BY <1>0, <2>2, <2>3, <2>4, KeyElse DEF Same
<1>8. CASE UNCHANGED vars
  BY <1>0, <1>8, KeySame DEF vars
<1> QED BY <1>1, <1>2, <1>3, <1>4, <1>5, <1>6, <1>7, <1>8 DEF Next

\* A step that leaves digests and the webhook alone and adds no record that
\* was sent.
LEMMA QuietElse ==
  ASSUME Quiet, UNCHANGED <<run, posted, again>>,
         \A n \in queue' : n \in queue \/ <<n.move, n.rcpt>> \notin posted
  PROVE  Quiet'
BY DEF Quiet, Marks, Pending, Keys, Ids

LEMMA QuietStep ==
  ASSUME KeyInv, Quiet, [Next]_vars, ~excuse' PROVE Quiet'
<1>0. TypeOK
  BY DEF KeyInv
<1>1. ASSUME NEW r \in Requests,
             \/ \E q \in Quotes, p \in People, to \in Statuses : Transition(r, q, p, to)
             \/ AppendQuoteVersion(r)
      PROVE  Quiet'
  BY <1>1, QuietElse DEF Transition, AppendQuoteVersion
<1>2. ASSUME NEW r \in Requests, Enqueue(r) PROVE Quiet'
  <2>1. /\ req[r] # Idle /\ req[r] \in Transitions /\ UNCHANGED <<run, posted, again>>
        /\ Unused(req[r].move)
    BY <1>0, <1>2, StatesOfRequest DEF Enqueue, KeyInv
  <2>2. ASSUME NEW ids \in [Recipients(req[r]) -> 1..MaxId],
               queue' = Newest(queue \cup Told(req[r], ids))
        PROVE  \A n \in queue' : n \in queue \/ <<n.move, n.rcpt>> \notin posted
    <3>1. \A n \in Told(req[r], ids) : n.move = req[r].move
      BY <2>1, ToldParts
    <3>2. \A k \in posted : k[1] # req[r].move
      BY <2>1 DEF Unused
    <3>3. \A n : <<n.move, n.rcpt>>[1] = n.move
      OBVIOUS
    <3>4. \A n \in queue' : n \in queue \/ n \in Told(req[r], ids)
      BY <2>2 DEF Newest
    <3> QED BY <3>1, <3>2, <3>3, <3>4
  <2>3. \A n \in queue' : n \in queue \/ <<n.move, n.rcpt>> \notin posted
    BY <1>2, <2>2 DEF Enqueue
  <2> QED BY <2>1, <2>3, QuietElse
<1>3. ASSUME NEW d \in Runs, RunDigest(d) PROVE Quiet'
  <2>1. /\ \A e \in Runs : run[e] = Idle
        /\ run'[d] = [stage |-> "posting", items |-> Pending]
        /\ \A e \in Runs \ {d} : run'[e] = run[e]
        /\ UNCHANGED <<queue, posted, again>>
    BY <1>0, <1>3 DEF RunDigest, TypeOK
  <2>2. \A n \in Pending : <<n.move, n.rcpt>> \notin posted
    BY <2>1 DEF Quiet, Marks
  <2>3. Keys(Pending) \cap posted = {} /\ Pending' = Pending
    BY <2>1, <2>2 DEF Keys, Pending
  <2>4. \A e \in Runs : run'[e] # Idle => e = d
    BY <2>1
  <2> QED BY <2>1, <2>2, <2>3, <2>4 DEF Quiet, Keys
<1>4. ASSUME NEW d \in Runs, Accepted(d) PROVE Quiet'
  <2>1. /\ run[d] # Idle /\ run[d].stage = "posting" /\ run[d] \in Digests
        /\ run'[d] = [run[d] EXCEPT !.stage = "answered"]
        /\ \A e \in Runs \ {d} : run'[e] = run[e] /\ run[e] = Idle
        /\ queue' = queue /\ posted' = posted \cup Keys(run[d].items)
        /\ again' = (again \/ Keys(run[d].items) \cap posted # {})
    BY <1>0, <1>4, ItemsAreNotices DEF Accepted, Taken, TypeOK, Quiet
  <2>2. ~again'
    BY <2>1 DEF Quiet
  <2>3. run'[d].items = run[d].items /\ run'[d].stage = "answered"
    BY <2>1 DEF Digests
  <2>4. ASSUME NEW n \in Pending, <<n.move, n.rcpt>> \in posted' PROVE n.id \in Ids(run[d].items)
    <3>1. <<n.move, n.rcpt>> \notin posted
      BY <2>1 DEF Quiet, Marks
    <3>2. PICK m \in run[d].items : <<m.move, m.rcpt>> = <<n.move, n.rcpt>>
      BY <2>1, <2>4, <3>1 DEF Keys
    <3>3. n \in Known /\ m \in Known /\ Same(n, m)
      BY <2>1, <3>2, KnownIs DEF Pending, Same
    <3> QED BY <3>2, <3>3 DEF KeyInv, Ids
  <2>5. run'[d] # Idle
    BY <2>1, <2>3, ItemsAreNotices, IdleAssumption DEF Digests
  <2>6. \A n \in Pending' : <<n.move, n.rcpt>> \in posted' => Marks(d, n)'
    BY <2>1, <2>3, <2>4, <2>5 DEF Pending, Marks, Ids
  <2>7. \A e \in Runs : run'[e] # Idle => e = d
    BY <2>1
  <2> QED BY <2>2, <2>3, <2>6, <2>7 DEF Quiet
<1>5. ASSUME NEW d \in Runs, Unanswered(d) PROVE Quiet'
  <2>1. /\ run[d] # Idle /\ run[d].stage = "posting" /\ run'[d] = Idle
        /\ \A e \in Runs \ {d} : run'[e] = run[e] /\ run[e] = Idle
        /\ UNCHANGED <<queue, posted, again>>
    BY <1>0, <1>5 DEF Unanswered, TypeOK, Quiet
  <2>2. \A n \in Pending : <<n.move, n.rcpt>> \notin posted
    BY <2>1 DEF Quiet, Marks
  <2>3. \A e \in Runs : run'[e] = Idle
    BY <2>1
  <2> QED BY <2>1, <2>2, <2>3 DEF Quiet, Pending
<1>6. ASSUME NEW d \in Runs, MarkDelivered(d) PROVE Quiet'
  <2>1. /\ run[d] # Idle /\ run[d].stage = "answered" /\ run'[d] = Idle
        /\ \A e \in Runs \ {d} : run'[e] = run[e] /\ run[e] = Idle
        /\ UNCHANGED <<posted, again>>
    BY <1>0, <1>6 DEF MarkDelivered, TypeOK, Quiet
  <2>2. ASSUME NEW n \in Pending' PROVE n \in Pending /\ n.id \notin Ids(run[d].items)
    <3>1. PICK k \in queue : n = IF k.id \in Ids(run[d].items)
                                 THEN [k EXCEPT !.delivered = TRUE] ELSE k
      BY <1>6, <2>2 DEF MarkDelivered, Pending
    <3>2. k \in Notices /\ ~n.delivered
      BY <1>0, <2>2 DEF TypeOK, Pending
    <3>3. [k EXCEPT !.delivered = TRUE].delivered
      BY <3>2 DEF Notices
    <3> QED BY <3>1, <3>2, <3>3 DEF Pending
  <2>3. \A n \in Pending' : <<n.move, n.rcpt>> \notin posted
    BY <2>1, <2>2 DEF Quiet, Marks
  <2>4. \A e \in Runs : run'[e] = Idle
    BY <2>1
  <2> QED BY <2>1, <2>3, <2>4 DEF Quiet
<1>7. ASSUME NEW d \in Runs, MarkFails(d) PROVE Quiet'
  BY <1>7 DEF MarkFails
<1>8. CASE Crash
  <2>1. /\ \A d \in Runs : run[d] = Idle /\ run'[d] = Idle
        /\ queue' = queue
    BY <1>8 DEF Crash
  <2>2. PICK arrived \in SUBSET {d \in Runs : run[d] # Idle /\ run[d].stage = "posting"} :
          Taken(UNION {run[d].items : d \in arrived})
    BY <1>8 DEF Crash
  <2>3. UNION {run[d].items : d \in arrived} = {}
    BY <2>1
  <2>4. posted' = posted /\ ~again'
    <3>1. Keys({}) = {}
      BY DEF Keys
    <3> QED BY <2>2, <2>3, <3>1 DEF Taken, Quiet
  <2>5. \A n \in Pending : <<n.move, n.rcpt>> \notin posted
    BY <2>1 DEF Quiet, Marks
  <2> QED BY <2>1, <2>4, <2>5 DEF Quiet, Pending
<1>9. CASE UNCHANGED vars
  BY <1>9, QuietElse DEF vars
<1> QED BY <1>1, <1>2, <1>3, <1>4, <1>5, <1>6, <1>7, <1>8, <1>9 DEF Next

LEMMA OnceStep == ASSUME OnceInv, [Next]_vars PROVE OnceInv'
<1>1. KeyInv'
  BY KeyStep DEF OnceInv
<1>2. excuse => excuse'
  BY DEF OnceInv, Next, vars, Transition, AppendQuoteVersion, Enqueue, RunDigest, Accepted,
         Unanswered, MarkDelivered, MarkFails, Crash
<1> QED BY <1>1, <1>2, QuietStep DEF OnceInv

LEMMA OnceFirst == Init => OnceInv
<1> SUFFICES ASSUME Init PROVE OnceInv
  OBVIOUS
<1>1. TypeOK
  BY TrailFirst DEF TrailInv
<1>2. Known = {}
  BY DEF Init, Known, Held
<1> QED BY <1>1, <1>2 DEF Init, OnceInv, KeyInv, Quiet, Pending

\* Nobody is told twice unless digests overlapped or a mark could not be made,
\* for any number of requests and digests, any caps and any failures.
THEOREM RepeatsHaveCause == Spec => []RepeatHasCause
<1>1. OnceInv => RepeatHasCause
  BY DEF OnceInv, Quiet, RepeatHasCause
<1> QED BY <1>1, OnceFirst, OnceStep, PTL DEF Spec

\* A person has one record of a transition: no crash, failed write or overlap of
\* requests and digests leaves two of them in pending.json, and a digest holds it
\* under the id it has there.
THEOREM OneRecordEach ==
  Spec => []/\ \A n, m \in queue : Same(n, m) => n = m
            /\ \A n \in queue, d \in Runs :
                 run[d] # Idle => \A m \in run[d].items : Same(n, m) => n.id = m.id
<1> DEFINE One == /\ \A n, m \in queue : Same(n, m) => n = m
                  /\ \A n \in queue, d \in Runs :
                       run[d] # Idle => \A m \in run[d].items : Same(n, m) => n.id = m.id
<1>1. ASSUME IdsInv, OnceInv PROVE One
  <2>1. \A n, m \in Known : Same(n, m) => n.id = m.id
    BY <1>1 DEF OnceInv, KeyInv
  <2>2. \A n, m \in queue : n.id = m.id => n = m
    BY <1>1 DEF IdsInv
  <2> QED BY <2>1, <2>2, KnownIs
<1>2. Spec => []One
  <2> HIDE DEF One
  <2> QED BY <1>1, IdsFirst, IdsStep, OnceFirst, OnceStep, PTL DEF Spec
<1> QED BY <1>2
=============================================================================
