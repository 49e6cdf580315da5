------------------------------ MODULE Approvals ------------------------------
(***************************************************************************)
(* What happens around a change of a quote's approval status, in one       *)
(* server process: POST /approvals/:quoteId/transition saves the quote,    *)
(* appends a row to quote_versions and queues notifications in             *)
(* pending.json; POST /notifications/digest/run posts what is pending to   *)
(* the webhook and marks it delivered (server/routes/shared.js,            *)
(* repositories/approvalWorkflow.js, repositories/quoteVersions.js and     *)
(* services/notifications.js).                                             *)
(*                                                                         *)
(* A transition holds withLock('quote:<id>') from its load to its answer   *)
(* and awaits twice on the way, once before the version row and once for   *)
(* the queue.  Changes of the queue run under withLock('notifications')    *)
(* without an await inside and are one step each.  Reading the queue for a *)
(* digest takes no lock.                                                   *)
(*                                                                         *)
(* The list in pending.json and the rows of a quote are sets here: ids and *)
(* version numbers give their order.                                       *)
(***************************************************************************)
EXTENDS Integers, FiniteSets

CONSTANTS
    Quotes,
    People,         \* users: actors of transitions and recipients
    Cost,           \* those of role cost and above
    Sales,          \* those with an approval role of Sales
    None,           \* nobody
    Requests,       \* transitions that may be under way at once
    Runs,           \* digests that may be under way at once
    Idle,
    Cap,            \* OPS_NOTIFICATIONS_CAP
    MaxVersions,    \* OPS_MAX_QUOTE_VERSIONS
    MaxMoves,       \* bound on the number of transitions
    MayFail         \* ops.db and pending.json may refuse a write

ASSUME ApprovalsAssumption ==
    /\ IsFiniteSet(People) /\ Cost \subseteq People /\ Sales \subseteq People
    /\ None \notin People
    /\ Cap \in Nat \ {0}
    /\ MaxVersions \in Nat \ {0}
    /\ MaxMoves \in Nat
    /\ MayFail \in BOOLEAN

\* APPROVAL_STATES.
Statuses == {"draft", "quote_to_sale", "price_approved", "cancelled", "rejected"}

VARIABLES
    approval,       \* approval[q]: status and changed_by in the saved quote
    versions,       \* versions[q]: rows of quote_versions
    queue,          \* pending.json
    req,            \* req[r]: a transition between its save and its answer
    run,            \* run[d]: a digest under way
    moves,          \* number of transitions so far (history)
    last,           \* last[q]: the newest transition of q, 0 at first (history)
    gap,            \* gap[q]: its version row was refused or cut off (history)
    posted,         \* notifications the webhook has taken (history)
    again,          \* one of them was taken twice (history)
    excuse          \* digests overlapped, an answer or a mark was lost (history)

vars == <<approval, versions, queue, req, run, moves, last, gap, posted, again, excuse>>

Moves == 1..MaxMoves
MaxId == MaxMoves * Cardinality(People)

\* A notification: which transition it is about, of which quote, for whom.
Notices == [id : Nat \ {0}, move : Moves, quote : Quotes, rcpt : People, delivered : BOOLEAN]
Rows == [num : Nat \ {0}, move : Moves]
Transitions == [stage : {"version", "notify"}, quote : Quotes, move : Moves,
                actor : People, prev : People \cup {None}, to : Statuses]
Digests == [stage : {"posting", "answered"}, items : SUBSET Notices]

ASSUME IdleAssumption == Idle \notin Transitions /\ Idle \notin Digests

TypeOK ==
    /\ approval \in [Quotes -> [status : Statuses, by : People \cup {None}]]
    /\ versions \in [Quotes -> SUBSET Rows]
    /\ queue \in SUBSET Notices
    /\ req \in [Requests -> Transitions \cup {Idle}]
    /\ run \in [Runs -> Digests \cup {Idle}]
    /\ moves \in 0..MaxMoves
    /\ last \in [Quotes -> 0..MaxMoves]
    /\ gap \in [Quotes -> BOOLEAN]
    /\ posted \in SUBSET (Moves \X People)
    /\ again \in BOOLEAN
    /\ excuse \in BOOLEAN

-----------------------------------------------------------------------------
\* canUserSetStatus.
MaySet(p, to) ==
    \/ p \in Cost
    \/ p \in Sales /\ to \in {"price_approved", "cancelled", "rejected"}

\* A status set by nobody known still has a recipient.
RecipientsFault(t) ==
    (IF t.to = "quote_to_sale" THEN Sales ELSE {t.prev}) \ {t.actor}

\* notificationRecipients: Sales for a quote sent to them, else whoever
\* changed the status before; never the actor.
Recipients(t) ==
    (IF t.to = "quote_to_sale" THEN Sales ELSE {t.prev} \ {None}) \ {t.actor}

\* Transitions of one quote are not kept apart.
FreeFault(q) == TRUE

\* withLock('quote:<id>').
Free(q) == \A r \in Requests : req[r] # Idle => req[r].quote # q

\* The number a set of numbered records gives out next: max + 1.
IsNext(n, taken) ==
    /\ n \in Nat \ {0}
    /\ \A k \in taken : k < n
    /\ n = 1 \/ n - 1 \in taken

Ids(notices) == {n.id : n \in notices}
Keys(notices) == {<<n.move, n.rcpt>> : n \in notices}
Pending == {n \in queue : ~n.delivered}

Init ==
    /\ approval = [q \in Quotes |-> [status |-> "draft", by |-> None]]
    /\ versions = [q \in Quotes |-> {}]
    /\ queue = {}
    /\ req = [r \in Requests |-> Idle]
    /\ run = [d \in Runs |-> Idle]
    /\ moves = 0
    /\ last = [q \in Quotes |-> 0]
    /\ gap = [q \in Quotes |-> FALSE]
    /\ posted = {}
    /\ again = FALSE
    /\ excuse = FALSE

\* A transition has its lock, is accepted and saves the quote.
Transition(r, q, p, to) ==
    /\ req[r] = Idle
    /\ Free(q)
    /\ moves < MaxMoves
    /\ to # approval[q].status
    /\ MaySet(p, to)
    /\ approval' = [approval EXCEPT ![q] = [status |-> to, by |-> p]]
    /\ moves' = moves + 1
    /\ last' = [last EXCEPT ![q] = moves']
    /\ gap' = [gap EXCEPT ![q] = FALSE]
    /\ req' = [req EXCEPT ![r] = [stage |-> "version", quote |-> q, move |-> moves',
                                  actor |-> p, prev |-> approval[q].by, to |-> to]]
    /\ UNCHANGED <<versions, queue, run, posted, again, excuse>>

\* Retention keeps the oldest rows.
KeptRowsFault(rows) ==
    {v \in rows : Cardinality({w \in rows : w.num < v.num}) < MaxVersions}

\* Retention: the MAX_VERSIONS newest rows of the quote.
KeptRows(rows) ==
    {v \in rows : Cardinality({w \in rows : w.num > v.num}) < MaxVersions}

\* appendQuoteVersion: the state differs from the latest row's in changed_at,
\* so the row is never skipped; a failure is only logged.
AppendQuoteVersion(r) ==
    /\ req[r] # Idle
    /\ req[r].stage = "version"
    /\ LET t == req[r] IN
         \/ /\ \E num \in 1..MaxMoves :
                 /\ IsNext(num, {v.num : v \in versions[t.quote]})
                 /\ versions' = [versions EXCEPT ![t.quote] =
                                   KeptRows(@ \cup {[num |-> num, move |-> t.move]})]
            /\ UNCHANGED gap
         \/ /\ MayFail
            /\ gap' = [gap EXCEPT ![t.quote] = TRUE]
            /\ UNCHANGED versions
    /\ req' = [req EXCEPT ![r].stage = "notify"]
    /\ UNCHANGED <<approval, queue, run, moves, last, posted, again, excuse>>

\* The cut takes one record too many.
NewestEarlyFault(notices) ==
    {n \in notices : Cardinality({m \in notices : m.id > n.id}) < Cap - 1}

\* enqueue cuts the list to its Cap newest records.
Newest(notices) ==
    {n \in notices : Cardinality({m \in notices : m.id > n.id}) < Cap}

\* The ids a batch of records gets: consecutive from max + 1.
IsBatch(ids, rcpts) ==
    /\ \A p, o \in rcpts : p # o => ids[p] # ids[o]
    /\ \A p \in rcpts : IsNext(ids[p], Ids(queue) \cup {ids[o] : o \in {x \in rcpts : ids[x] < ids[p]}})

\* The records of a transition, one per recipient.
Told(t, ids) ==
    {[id |-> ids[p], move |-> t.move, quote |-> t.quote, rcpt |-> p, delivered |-> FALSE]
       : p \in Recipients(t)}

\* enqueue, then the answer: a failure is only logged.
Enqueue(r) ==
    /\ req[r] # Idle
    /\ req[r].stage = "notify"
    /\ \/ \E ids \in [Recipients(req[r]) -> 1..MaxId] :
            /\ IsBatch(ids, Recipients(req[r]))
            /\ queue' = Newest(queue \cup Told(req[r], ids))
       \/ MayFail /\ UNCHANGED queue
    /\ req' = [req EXCEPT ![r] = Idle]
    /\ UNCHANGED <<approval, versions, run, moves, last, gap, posted, again, excuse>>

-----------------------------------------------------------------------------
\* runDigest: what is pending is posted to the webhook.
RunDigest(d) ==
    /\ run[d] = Idle
    /\ Pending # {}
    /\ run' = [run EXCEPT ![d] = [stage |-> "posting", items |-> Pending]]
    /\ excuse' = (excuse \/ \E e \in Runs : run[e] # Idle)
    /\ UNCHANGED <<approval, versions, queue, req, moves, last, gap, posted, again>>

\* The webhook takes the items of a digest.
Taken(items) ==
    /\ posted' = posted \cup Keys(items)
    /\ again' = (again \/ Keys(items) \cap posted # {})

\* The webhook takes them and says so in time.
Accepted(d) ==
    /\ run[d] # Idle
    /\ run[d].stage = "posting"
    /\ Taken(run[d].items)
    /\ run' = [run EXCEPT ![d].stage = "answered"]
    /\ UNCHANGED <<approval, versions, queue, req, moves, last, gap, excuse>>

\* No answer within 5 s, or a refusal: nothing is marked.  Without an answer
\* the webhook may have taken the items.
Unanswered(d) ==
    /\ run[d] # Idle
    /\ run[d].stage = "posting"
    /\ \/ Taken(run[d].items) /\ excuse' = TRUE
       \/ UNCHANGED <<posted, again, excuse>>
    /\ run' = [run EXCEPT ![d] = Idle]
    /\ UNCHANGED <<approval, versions, queue, req, moves, last, gap>>

\* The digest forgets to mark what it has delivered.
MarkDeliveredFault(d) ==
    /\ run[d] # Idle
    /\ run[d].stage = "answered"
    /\ run' = [run EXCEPT ![d] = Idle]
    /\ UNCHANGED <<approval, versions, queue, req, moves, last, gap, posted, again, excuse>>

\* Everything in the queue is marked, not only what was posted.
MarkAllFault(d) ==
    /\ run[d] # Idle
    /\ run[d].stage = "answered"
    /\ queue' = {[n EXCEPT !.delivered = TRUE] : n \in queue}
    /\ run' = [run EXCEPT ![d] = Idle]
    /\ UNCHANGED <<approval, versions, req, moves, last, gap, posted, again, excuse>>

\* markDelivered: by id, in the list as it is now.
MarkDelivered(d) ==
    /\ run[d] # Idle
    /\ run[d].stage = "answered"
    /\ queue' = {IF n.id \in Ids(run[d].items)
                 THEN [n EXCEPT !.delivered = TRUE] ELSE n : n \in queue}
    /\ run' = [run EXCEPT ![d] = Idle]
    /\ UNCHANGED <<approval, versions, req, moves, last, gap, posted, again, excuse>>

\* Its write fails: the route answers 500 for a digest that was sent.
MarkFails(d) ==
    /\ run[d] # Idle
    /\ run[d].stage = "answered"
    /\ MayFail
    /\ excuse' = TRUE
    /\ run' = [run EXCEPT ![d] = Idle]
    /\ UNCHANGED <<approval, versions, queue, req, moves, last, gap, posted, again>>

\* The process dies: what is on disk stays.  A post on its way may arrive.
Crash ==
    /\ \E arrived \in SUBSET {d \in Runs : run[d] # Idle /\ run[d].stage = "posting"} :
         Taken(UNION {run[d].items : d \in arrived})
    /\ excuse' = (excuse \/ \E d \in Runs : run[d] # Idle)
    /\ gap' = [q \in Quotes |->
                 gap[q] \/ \E r \in Requests :
                   req[r] # Idle /\ req[r].quote = q /\ req[r].stage = "version"]
    /\ req' = [r \in Requests |-> Idle]
    /\ run' = [d \in Runs |-> Idle]
    /\ UNCHANGED <<approval, versions, queue, moves, last>>

Next ==
    \/ \E r \in Requests :
         \/ \E q \in Quotes, p \in People, to \in Statuses : Transition(r, q, p, to)
         \/ AppendQuoteVersion(r)
         \/ Enqueue(r)
    \/ \E d \in Runs : RunDigest(d) \/ Accepted(d) \/ Unanswered(d)
                          \/ MarkDelivered(d) \/ MarkFails(d)
    \/ Crash

Spec == Init /\ [][Next]_vars

\* Digests are started by a schedule (shared.js:571-572); a webhook that is
\* asked again and again answers at last, and a mark is written at last.
Fairness ==
    \A d \in Runs :
        /\ WF_vars(RunDigest(d))
        /\ SF_vars(Accepted(d))
        /\ SF_vars(MarkDelivered(d))

FairSpec == Spec /\ Fairness

-----------------------------------------------------------------------------
\* The version rows and the notifications of a quote are in the order of its
\* transitions, although each is written after an await (shared.js:473-517).
HistoryInOrder ==
    /\ \A q \in Quotes : \A v, w \in versions[q] : v.num < w.num => v.move < w.move
    /\ \A n, m \in queue : n.quote = m.quote /\ n.id < m.id => n.move <= m.move

\* Between transitions the newest version row of a quote is its newest
\* transition, unless the write of that row failed or was cut off: retention
\* never takes it (shared.js:469-481, quoteVersions.js:58-80).
TrailTracksQuote ==
    \A q \in Quotes :
        /\ last[q] # 0 /\ ~gap[q]
        /\ \A r \in Requests : req[r] # Idle => req[r].quote # q \/ req[r].stage = "notify"
        => \E v \in versions[q] :
             v.move = last[q] /\ \A w \in versions[q] : w.num <= v.num

\* What is marked delivered was taken by the webhook: a mark made after other
\* records came or went never falls on a record that was not sent
\* (notifications.js:153-169, 222-269).
DeliveredWasPosted == \A n \in queue : n.delivered => <<n.move, n.rcpt>> \in posted

\* Nobody is told twice unless digests overlapped or a mark could not be made
\* (shared.js:565-569).
RepeatHasCause == again => excuse

\* A notification waits until the webhook has taken it or Cap newer ones push
\* it out: no crash, failed write, overlap of digests or late mark loses it
\* (notifications.js:117-126, 153-169).
OnlyTheCapDrops ==
    [][\A n \in Pending :
         \/ n \in queue'
         \/ <<n.move, n.rcpt>> \in posted
         \/ Cardinality({m \in queue' : m.id > n.id}) >= Cap]_vars

\* What is queued is delivered in the end or falls to the cap
\* (notifications.js:117-126, 222-226).
EveryoneIsTold ==
    \A k \in Moves \X People : k \in Keys(Pending) ~> k \notin Keys(Pending)
=============================================================================
