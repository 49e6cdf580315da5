----------------------------- MODULE SmartClient -----------------------------
(***************************************************************************)
(* The sync engine of a workstation in smart mode: it pings the server,    *)
(* replays the writes that wait in the outbox, and pulls what changed of a *)
(* master table into a local cache (desktop/smart-client.js and            *)
(* desktop/native/cache.js, against server/routes/sync.js and the version  *)
(* check of the quote store).                                              *)
(*                                                                         *)
(* The engine is one event loop: the code between two awaits is one step.  *)
(* Outbox, cache and watermark are in SQLite and outlive the app; what it  *)
(* knows of the network and its requests do not.                           *)
(*                                                                         *)
(* The writes here are updates of one quote that carry the _version their  *)
(* user saw.  One master table is pulled; the n-th change of its file is   *)
(* its time n, and a row's content is the change that wrote it.  A row may *)
(* carry a stamp of its own, of any time up to that change.                *)
(***************************************************************************)
EXTENDS Integers, FiniteSets

CONSTANTS
    Writes,         \* updates the user makes
    Pushes,         \* runs of push() that may be under way at once
    Pulls,          \* pulls of the table that may be under way at once
    Idle,
    Unknown,        \* lastOnline before the first ping
    Batch,          \* PUSH_BATCH_SIZE
    MaxAttempts,    \* attempts after which an item is failed
    MaxVersion,     \* bound on the quote's _version
    Rows,           \* rows of the master table
    Stamped,        \* those with a _saved_at of their own
    Keyed,          \* those with an id, _id, code or name
    MaxSaves        \* bound on the changes of the table's file

ASSUME SmartClientAssumption ==
    /\ Batch \in Nat \ {0}
    /\ MaxAttempts \in Nat \ {0}
    /\ MaxVersion \in Nat \ {0}
    /\ MaxSaves \in Nat
    /\ Stamped \subseteq Rows
    /\ Keyed \subseteq Rows
    /\ Unknown \notin BOOLEAN

VARIABLES
    lastOnline,
    outbox,         \* rows of the outbox, by id
    pushInFlight,
    push,           \* push[s]: what is left of its batch, the answer it got
    version,        \* _version of the quote on the server
    base,           \* base[w]: the _version in w, 0 before w is made
    late,           \* writes on their way whose sender has given up
    applied,        \* applied[w]: how often the server has applied w (history)
    answered,       \* writes the server has accepted or refused (history)
    file,           \* file[r]: the change that wrote row r, 0 when absent
    stamp,          \* stamp[r]: the _saved_at of row r
    mtime,          \* changes of the file so far
    pull,           \* pull[p]: a pull of the table
    cache,          \* cache[r]: the content of row r in master_cache
    mark            \* last_saved_at in sync_state

outboxVars == <<outbox, pushInFlight, push, version, base, late, applied, answered>>
cacheVars == <<file, stamp, mtime, pull, cache, mark>>
vars == <<lastOnline, outboxVars, cacheVars>>

Times == 0..MaxSaves
Answers == {"none", "ok", "conflict", "error", "lost"}
Items == [id : Nat \ {0}, write : Writes, attempts : 0..MaxAttempts,
          status : {"pending", "done", "failed"}]
Batches == [todo : SUBSET (Nat \ {0}), answer : Answers]
Asked == [since : Times]
Deltas == [since : Times, rows : SUBSET (Rows \X Times), max : Times]

ASSUME SmartIdleAssumption ==
    Idle \notin Batches /\ Idle \notin Asked /\ Idle \notin Deltas

TypeOK ==
    /\ lastOnline \in BOOLEAN \cup {Unknown}
    /\ outbox \in SUBSET Items
    /\ pushInFlight \in BOOLEAN
    /\ push \in [Pushes -> Batches \cup {Idle}]
    /\ version \in 1..MaxVersion
    /\ base \in [Writes -> 0..MaxVersion]
    /\ late \in SUBSET Writes
    /\ applied \in [Writes -> Nat]
    /\ answered \in SUBSET Writes
    /\ file \in [Rows -> Times]
    /\ stamp \in [Rows -> Times]
    /\ mtime \in Times
    /\ pull \in [Pulls -> Asked \cup Deltas \cup {Idle}]
    /\ cache \in [Rows -> Times]
    /\ mark \in Times

-----------------------------------------------------------------------------
Pending == {i.id : i \in {x \in outbox : x.status = "pending"}}

\* listPending: the oldest Batch ids.
Oldest(ids) == {n \in ids : Cardinality({k \in ids : k < n}) < Batch}

\* The item a push is at: the oldest left of its batch.
Current(s) == CHOOSE n \in push[s].todo : \A k \in push[s].todo : n <= k
CurrentWrite(s) == (CHOOSE i \in outbox : i.id = Current(s)).write

Init ==
    /\ lastOnline = Unknown
    /\ outbox = {}
    /\ pushInFlight = FALSE
    /\ push = [s \in Pushes |-> Idle]
    /\ version = 1
    /\ base = [w \in Writes |-> 0]
    /\ late = {}
    /\ applied = [w \in Writes |-> 0]
    /\ answered = {}
    /\ file = [r \in Rows |-> 0]
    /\ stamp = [r \in Rows |-> 0]
    /\ mtime = 0
    /\ pull = [p \in Pulls |-> Idle]
    /\ cache = [r \in Rows |-> 0]
    /\ mark = 0

\* push() does not look whether one is under way.
StartPushFault(s) ==
    /\ Pending # {}
    /\ push[s] = Idle
    /\ push' = [push EXCEPT ![s] = [todo |-> Oldest(Pending), answer |-> "none"]]
    /\ pushInFlight' = TRUE

\* push(), up to its first request; with nothing pending it ends at once.
StartPush(s) ==
    /\ ~pushInFlight
    /\ Pending # {}
    /\ push[s] = Idle
    /\ push' = [push EXCEPT ![s] = [todo |-> Oldest(Pending), answer |-> "none"]]
    /\ pushInFlight' = TRUE

NoPush == UNCHANGED <<push, pushInFlight>>

\* ping: the change to online, and only that, starts a push.
Ping(up) ==
    /\ lastOnline' = up
    /\ IF up /\ lastOnline # TRUE
       THEN \/ \E s \in Pushes : StartPush(s)
            \/ (pushInFlight \/ Pending = {}) /\ NoPush
       ELSE NoPush
    /\ UNCHANGED <<outbox, version, base, late, applied, answered, cacheVars>>

\* triggerSync, the badge's click: a push unless offline.
TriggerSync ==
    /\ lastOnline # FALSE
    /\ \E s \in Pushes : StartPush(s)
    /\ UNCHANGED <<lastOnline, outbox, version, base, late, applied, answered, cacheVars>>

\* The server takes an update whatever version it was made from.
UpdateFault(w, b) ==
    /\ version < MaxVersion
    /\ version' = version + 1
    /\ applied' = [applied EXCEPT ![w] = @ + 1]

\* The server's version check, and what it answers.
Update(w, b) ==
    IF b = version
    THEN /\ version < MaxVersion
         /\ version' = version + 1
         /\ applied' = [applied EXCEPT ![w] = @ + 1]
    ELSE UNCHANGED <<version, applied>>
Verdict(b) == IF b = version THEN "ok" ELSE "conflict"

Enqueue(w) ==
    outbox' = outbox \cup {[id |-> Cardinality(outbox) + 1, write |-> w,
                            attempts |-> 0, status |-> "pending"]}

\* enqueueOrSend: offline, or after a request without an answer, the write is
\* queued.  The server may have handled that request, or may do so later.
Write(w) ==
    /\ base[w] = 0
    /\ \E b \in 1..version :
         /\ base' = [base EXCEPT ![w] = b]
         /\ \/ /\ Update(w, b)
               /\ answered' = answered \cup {w}
               /\ UNCHANGED <<outbox, late>>
            \/ /\ Update(w, b)
               /\ Enqueue(w)
               /\ UNCHANGED <<answered, late>>
            \/ /\ Enqueue(w)
               /\ late' \in {late, late \cup {w}}
               /\ UNCHANGED <<version, applied, answered>>
    /\ UNCHANGED <<lastOnline, push, pushInFlight, cacheVars>>

\* The request of a push: handled and answered, refused for another reason
\* (any other status), or without an answer, handled or not.
Handle(s) ==
    /\ push[s] # Idle
    /\ push[s].answer = "none"
    /\ LET w == CurrentWrite(s)
           Gets(a) == push' = [push EXCEPT ![s].answer = a]
       IN \/ /\ Update(w, base[w])
             /\ Gets(Verdict(base[w]))
             /\ answered' = answered \cup {w}
             /\ UNCHANGED late
          \/ /\ Update(w, base[w])
             /\ Gets("lost")
             /\ UNCHANGED <<answered, late>>
          \/ /\ \/ Gets("error") /\ UNCHANGED late
                \/ Gets("lost") /\ late' \in {late, late \cup {w}}
             /\ UNCHANGED <<version, applied, answered>>
    /\ UNCHANGED <<lastOnline, outbox, pushInFlight, base, cacheVars>>

\* A request whose sender has given up reaches the server.
HandleLate(w) ==
    /\ w \in late
    /\ Update(w, base[w])
    /\ late' = late \ {w}
    /\ UNCHANGED <<lastOnline, outbox, push, pushInFlight, base, answered, cacheVars>>

\* Any answer at all, an error too, ends an item.
DoneFault(answer) == answer # "lost"

\* res.ok || res.status === 409.
Done(answer) == answer \in {"ok", "conflict"}

\* An item gets one attempt too many.
StatusAfterFault(attempts) == IF attempts > MaxAttempts THEN "failed" ELSE "pending"

\* markFailed: CASE WHEN attempts + 1 >= 5 THEN 'failed' ELSE 'pending' END.
StatusAfter(attempts) == IF attempts >= MaxAttempts THEN "failed" ELSE "pending"

\* markDone or markFailed, then the next item or the end of the push.
Mark(s) ==
    /\ push[s] # Idle
    /\ push[s].answer # "none"
    /\ LET n == Current(s)
           left == push[s].todo \ {n}
           Failed(i) == [i EXCEPT !.attempts = @ + 1,
                                  !.status = StatusAfter(i.attempts + 1)]
       IN /\ outbox' = {IF i.id # n THEN i
                        ELSE IF Done(push[s].answer) THEN [i EXCEPT !.status = "done"]
                        ELSE Failed(i) : i \in outbox}
          /\ push' = [push EXCEPT ![s] =
                        IF left = {} THEN Idle ELSE [todo |-> left, answer |-> "none"]]
          /\ pushInFlight' = (left # {})
    /\ UNCHANGED <<lastOnline, version, base, late, applied, answered, cacheVars>>

\* Another user saves the quote.
OtherSave ==
    /\ version < MaxVersion
    /\ version' = version + 1
    /\ UNCHANGED <<lastOnline, outbox, push, pushInFlight, base, late, applied, answered, cacheVars>>

-----------------------------------------------------------------------------
\* rowSavedAt: the row's own stamp, or the time of the file.
SavedAt(r) == IF r \in Stamped THEN stamp[r] ELSE mtime

\* The table's file is saved with a row written or taken out.  Nothing on the
\* server stamps the rows: a stamp is as old as whoever made it left it.
SaveTable(r) ==
    /\ mtime < MaxSaves
    /\ mtime' = mtime + 1
    /\ \E content \in {0, mtime'} : file' = [file EXCEPT ![r] = content]
    /\ \E t \in 1..mtime' : stamp' = IF r \in Stamped THEN [stamp EXCEPT ![r] = t] ELSE stamp
    /\ UNCHANGED <<lastOnline, outboxVars, pull, cache, mark>>

\* pullTable, up to its request.
Pull(p) ==
    /\ lastOnline # FALSE
    /\ pull[p] = Idle
    /\ pull' = [pull EXCEPT ![p] = [since |-> mark]]
    /\ UNCHANGED <<lastOnline, outboxVars, file, stamp, mtime, cache, mark>>

\* GET /sync/pull: the rows saved after since, and the newest time of them.
Delta(since) ==
    LET rows == {r \in Rows : file[r] # 0 /\ SavedAt(r) > since}
    IN [since |-> since,
        rows |-> {<<r, file[r]>> : r \in rows},
        max |-> CHOOSE t \in {since} \cup {SavedAt(r) : r \in rows} :
                  \A r \in rows : SavedAt(r) <= t]

Answer(p) ==
    /\ pull[p] \in Asked
    /\ pull' = [pull EXCEPT ![p] = Delta(pull[p].since)]
    /\ UNCHANGED <<lastOnline, outboxVars, file, stamp, mtime, cache, mark>>

\* No answer, or one that is not ok.
NoAnswer(p) ==
    /\ pull[p] \in Asked
    /\ pull' = [pull EXCEPT ![p] = Idle]
    /\ UNCHANGED <<lastOnline, outboxVars, file, stamp, mtime, cache, mark>>

\* Rows without a key are passed over.
Upserted(rows) ==
    [r \in Rows |-> IF r \in Keyed /\ \E t \in Times : <<r, t>> \in rows
                    THEN CHOOSE t \in Times : <<r, t>> \in rows
                    ELSE cache[r]]

\* The watermark is the time of the file when the rows are stored.
ApplyFault(p) ==
    /\ pull[p] \in Deltas
    /\ cache' = Upserted(pull[p].rows)
    /\ mark' = mtime
    /\ pull' = [pull EXCEPT ![p] = Idle]
    /\ UNCHANGED <<lastOnline, outboxVars, file, stamp, mtime>>

\* The rows are stored, then the watermark.
Apply(p) ==
    /\ pull[p] \in Deltas
    /\ cache' = Upserted(pull[p].rows)
    /\ mark' = pull[p].max
    /\ pull' = [pull EXCEPT ![p] = Idle]
    /\ UNCHANGED <<lastOnline, outboxVars, file, stamp, mtime>>

\* The app dies, maybe with some rows of an answer stored and not yet the
\* watermark; a request on its way may reach the server.
Quit ==
    /\ lastOnline' = Unknown
    /\ push' = [s \in Pushes |-> Idle]
    /\ pushInFlight' = FALSE
    /\ \E sent \in SUBSET {s \in Pushes : push[s] # Idle /\ push[s].answer = "none"} :
         late' = late \cup {CurrentWrite(s) : s \in sent}
    /\ \/ UNCHANGED cache
       \/ \E p \in Pulls :
            /\ pull[p] \in Deltas
            /\ \E rows \in SUBSET pull[p].rows : cache' = Upserted(rows)
    /\ pull' = [p \in Pulls |-> Idle]
    /\ UNCHANGED <<outbox, version, base, applied, answered, file, stamp, mtime, mark>>

Next ==
    \/ \E up \in BOOLEAN : Ping(up)
    \/ TriggerSync
    \/ \E w \in Writes : Write(w) \/ HandleLate(w)
    \/ \E s \in Pushes : Handle(s) \/ Mark(s)
    \/ OtherSave
    \/ \E r \in Rows : SaveTable(r)
    \/ \E p \in Pulls : Pull(p) \/ Answer(p) \/ NoAnswer(p) \/ Apply(p)
    \/ Quit

Spec == Init /\ [][Next]_vars

-----------------------------------------------------------------------------
\* However often an update is sent, live and from the outbox, with answers
\* lost and requests that arrive late, the server applies it once at most:
\* the repeat meets a newer _version (smart-client.js:159-170).
UpdateAppliedOnce == \A w \in Writes : applied[w] <= 1

\* What the outbox calls done was accepted or refused by the server
\* (smart-client.js:165-178, cache.js:197-213).
DoneWasAnswered == \A i \in outbox : i.status = "done" => i.write \in answered

\* Two pushes never have the same item in hand: a ping that comes back online
\* and a click on the badge do not send it twice side by side
\* (smart-client.js:91-95, 148-151, 191-196).
NoDoubleSend ==
    \A s, t \in Pushes :
        s # t /\ push[s] # Idle /\ push[t] # Idle => push[s].todo \cap push[t].todo = {}

\* The cache has the row as the server has it, or the next pull asks for it.
WillArrive(r) == file[r] # 0 /\ cache[r] # file[r] => SavedAt(r) > mark

\* An answer another pull has overtaken: it was asked for since a watermark
\* that has moved back by now, or the app dies while its rows are stored and
\* the watermark of a later answer stays.
Lapses(p) ==
    /\ pull[p] \in Deltas
    /\ pull'[p] = Idle
    /\ \/ pull[p].since > mark /\ mark' = pull[p].max
       \/ pull[p].since < mark /\ mark' = mark

\* The watermark passes no row: what changes while an answer is on its way,
\* what the app had not stored when it died and what an older answer wrote
\* over a newer one is asked for again.  So for the rows that have a key and
\* no stamp, and but for an answer that lapses (smart-client.js:110-131,
\* sync.js:139-165).
NoRowIsPassed ==
    [][\A r \in Keyed \ Stamped :
         WillArrive(r) => WillArrive(r)' \/ \E p \in Pulls : Lapses(p)]_vars
=============================================================================
