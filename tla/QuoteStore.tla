----------------------------- MODULE QuoteStore -----------------------------
(***************************************************************************)
(* The quote store of the server: quote_history.json, its mirror in        *)
(* ops.db, and the requests that read the list, change it and write it     *)
(* back (server/repositories/quotesStore.js, backends/sqliteBackend.js and *)
(* the quote routes of server/routes).                                     *)
(*                                                                         *)
(* Node runs a request without interruption between two awaits.  The run   *)
(* that loads the list and saves it is the `section` of an instance: one   *)
(* instance never starts a second one before the first has ended, two      *)
(* instances sharing a data directory may.  Inside a section the file is   *)
(* replaced first and the mirror after it.                                 *)
(*                                                                         *)
(* upsertQuote runs under withLock('quotes') and the approval route under  *)
(* withLock('quote:<id>') (module AsyncLock).  Across instances such a     *)
(* lock is a lock file, kept only under OPS_MULTI_INSTANCE, and a request  *)
(* that has tried for it in vain runs without it.  The purge and the       *)
(* restore of a backup take no lock.  A section that ran beside another    *)
(* one, with nothing to keep them apart, is `shared`: it may save a list   *)
(* that is out of date, and nothing is promised of it.                     *)
(***************************************************************************)
EXTENDS QuoteOps

CONSTANTS
    Instances,      \* server processes sharing the data directory
    Idle,
    Offered,        \* the kinds of request in use
    Backend,        \* where reads go: "file", "sqlite" or "strict"
    MultiInstance,  \* OPS_MULTI_INSTANCE: withLock takes a lock file too
    MirrorMayFail,  \* statements on ops.db may fail
    ReadMayFail     \* reading the file may fail

ASSUME StoreAssumption ==
    /\ Offered \subseteq Kinds
    /\ Backend \in {"file", "sqlite", "strict"}
    /\ MultiInstance \in BOOLEAN
    /\ MirrorMayFail \in BOOLEAN
    /\ ReadMayFail \in BOOLEAN

VARIABLES
    file,           \* quote_history.json
    mirror,         \* the quotes table of ops.db
    section,        \* section[i]: the load-save run of instance i, or Idle
    checked,        \* checked[i]: trash and restore requests of instance i
                    \* that found their quote and await upsertQuote
    backup,         \* quoteHistory in the newest backup snapshot
    drift,          \* the last file write did not reach the mirror, or a
                    \* shared section wrote it (history)
    swept           \* ids that lost their row while a request that had
                    \* found it waited (history)

vars == <<file, mirror, section, checked, backup, drift, swept>>

\* The requests in use, and those that mark a quote as deleted or not.
Usable == {r \in Requests : r.kind \in Offered}
MarkRequests == {r \in Usable : r.kind \in {"trash", "restore"}}

\* locked: the section holds its lock file.
Sections == [stage : {"load", "mirror"}, req : Usable, list : Lists,
             locked : BOOLEAN, shared : BOOLEAN]

ASSUME IdleAssumption == Idle \notin Sections /\ Idle \notin Requests

TypeOK ==
    /\ file \in Lists
    /\ mirror \in Lists
    /\ section \in [Instances -> Sections \cup {Idle}]
    /\ checked \in [Instances -> SUBSET MarkRequests]
    /\ backup \in Lists
    /\ drift \in BOOLEAN
    /\ swept \subseteq Ids

-----------------------------------------------------------------------------
\* loadQuotesFromFile: a file that cannot be read is an empty list.
FromFile == {file} \cup (IF ReadMayFail THEN {EmptyList} ELSE {})

\* loadQuotes: the lists it may return.  An empty table and a failing
\* statement fall back to the file unless reads are strict.
Loads ==
    CASE Backend = "file"   -> FromFile
      [] Backend = "strict" -> {mirror}
      [] OTHER -> (IF mirror # EmptyList THEN {mirror} ELSE {})
                    \cup (IF mirror = EmptyList \/ MirrorMayFail THEN FromFile ELSE {})

\* getQuoteById finds the quote.
Found(id) ==
    CASE Backend = "file"   -> file[id] # Absent
      [] Backend = "strict" -> mirror[id] # Absent
      [] OTHER              -> mirror[id] # Absent \/ file[id] # Absent

\* Every request starts from the table of ops.db, in whatever state it is.
SourcesFault(r) == IF r.kind = "replace" THEN {backup} ELSE {mirror}

\* The list a request starts from: upsertQuote reads the file whatever the
\* backend, the approval route and the purge call loadQuotes.
Sources(r) ==
    CASE r.kind \in LockedKinds -> FromFile
      [] r.kind = "replace"     -> {backup}
      [] OTHER                  -> Loads

\* withLock: 'quotes' for upsertQuote, 'quote:<id>' for a transition.
SameLock(r, s) ==
    \/ r.kind \in LockedKinds /\ s.kind \in LockedKinds
    \/ r.kind = "transition" /\ s.kind = "transition" /\ r.id = s.id

\* The lock file of a live process is taken for one left behind.
FreeFault(r) == TRUE

\* No live process holds the lock file of r.
Free(r) ==
    \A j \in Instances : section[j] # Idle /\ section[j].locked
                            => ~SameLock(r, section[j].req)

\* What acquireFileLock may come to: the lock file, if r takes one and no live
\* process has it, or nothing.  The retries last about four seconds, so that a
\* file left by a crash, stale after thirty, may end them as well as be taken
\* over; withLock then runs the request all the same.
Acquires(r) == {FALSE} \cup (IF MultiInstance /\ SameLock(r, r) /\ Free(r) THEN {TRUE} ELSE {})

\* The sections that r meets and that no lock file keeps apart from it.
Beside(i, r, locked) ==
    {j \in Instances \ {i} :
        /\ section[j] # Idle
        /\ ~(locked /\ section[j].locked /\ SameLock(r, section[j].req))}

\* The sections, those of S marked.
Shared(S) ==
    [j \in Instances |-> IF j \in S THEN [section[j] EXCEPT !.shared = TRUE] ELSE section[j]]

Init ==
    /\ file = EmptyList
    /\ mirror = EmptyList
    /\ section = [i \in Instances |-> Idle]
    /\ checked = [i \in Instances |-> {}]
    /\ backup = EmptyList
    /\ drift = FALSE
    /\ swept = {}

\* The quote is not looked up before upsertQuote.
CheckFault(i, r) ==
    /\ section[i] = Idle
    /\ checked' = [checked EXCEPT ![i] = @ \cup {r}]
    /\ UNCHANGED <<file, mirror, section, backup, drift, swept>>

\* DELETE /quotes/:id and /restore look the quote up before upsertQuote.
Check(i, r) ==
    /\ section[i] = Idle
    /\ Found(r.id)
    /\ checked' = [checked EXCEPT ![i] = @ \cup {r}]
    /\ UNCHANGED <<file, mirror, section, backup, drift, swept>>

\* A request has its lock, or has given it up, and loads the list.
Load(i, r) ==
    /\ section[i] = Idle
    /\ r.kind \in {"trash", "restore"} => r \in checked[i]
    /\ \E list \in Sources(r), locked \in Acquires(r) :
         /\ WithinBounds(list, r)
         /\ section' = [Shared(Beside(i, r, locked)) EXCEPT ![i] =
              [stage |-> "load", req |-> r, list |-> list, locked |-> locked,
               shared |-> Beside(i, r, locked) # {}]]
    /\ checked' = [checked EXCEPT ![i] = @ \ {r}]
    /\ UNCHANGED <<file, mirror, backup, drift, swept>>

\* saveQuotes, first half: the file is replaced (tmp, fsync, rename).
Save(i) ==
    /\ section[i] # Idle
    /\ section[i].stage = "load"
    /\ Saves(section[i].list, section[i].req, file')
    /\ section' = [section EXCEPT ![i].stage = "mirror", ![i].list = file']
    /\ swept' = swept \cup {id \in Ids : /\ file[id] # Absent /\ file'[id] = Absent
                                        /\ \E j \in Instances : \E c \in checked[j] : c.id = id}
    /\ UNCHANGED <<mirror, checked, backup, drift>>

\* The request is answered 404, 400 or 409.
Refuse(i) ==
    /\ section[i] # Idle
    /\ section[i].stage = "load"
    /\ Refused(section[i].list, section[i].req)
    /\ section' = [section EXCEPT ![i] = Idle]
    /\ UNCHANGED <<file, mirror, checked, backup, drift, swept>>

\* The file cannot be written: atomicWriteFileSync throws, the old file stays.
SaveFails(i) ==
    /\ section[i] # Idle
    /\ section[i].stage = "load"
    /\ ~Refused(section[i].list, section[i].req)
    /\ section' = [section EXCEPT ![i] = Idle]
    /\ UNCHANGED <<file, mirror, checked, backup, drift, swept>>

\* Rows that are gone from the list are not deleted from the table.
MirrorFault(i) ==
    /\ section[i] # Idle
    /\ section[i].stage = "mirror"
    /\ mirror' = [id \in Ids |-> IF section[i].list[id] = Absent
                                 THEN mirror[id] ELSE section[i].list[id]]
    /\ drift' = section[i].shared
    /\ section' = [section EXCEPT ![i] = Idle]
    /\ UNCHANGED <<file, checked, backup, swept>>

\* saveQuotes, second half: upsertQuotesBulk makes the table equal to the
\* list in one transaction, or fails and is only logged.
Mirror(i) ==
    /\ section[i] # Idle
    /\ section[i].stage = "mirror"
    /\ \/ mirror' = section[i].list /\ drift' = section[i].shared
       \/ MirrorMayFail /\ UNCHANGED mirror /\ drift' = TRUE
    /\ section' = [section EXCEPT ![i] = Idle]
    /\ UNCHANGED <<file, checked, backup, swept>>

\* buildBackupSnapshot reads the file.  A restore under way elsewhere puts
\* back what is no longer the newest snapshot.
Snapshot(i) ==
    /\ section[i] = Idle
    /\ "replace" \in Offered
    /\ backup' = file
    /\ section' = Shared({j \in Instances : section[j] # Idle /\ section[j].req.kind = "replace"})
    /\ UNCHANGED <<file, mirror, checked, drift, swept>>

\* The process dies: its requests are lost, the two stores stay.
Crash(i) ==
    /\ section' = [section EXCEPT ![i] = Idle]
    /\ checked' = [checked EXCEPT ![i] = {}]
    /\ drift' = (drift \/ (section[i] # Idle /\ section[i].stage = "mirror"))
    /\ UNCHANGED <<file, mirror, backup, swept>>

Step(i) == Save(i) \/ Refuse(i) \/ SaveFails(i) \/ Mirror(i) \/ Snapshot(i) \/ Crash(i)

Next == \E i \in Instances : \/ Step(i)
                             \/ \E r \in MarkRequests : Check(i, r)
                             \/ \E r \in Usable : Load(i, r)

Spec == Init /\ [][Next]_vars

-----------------------------------------------------------------------------
\* The step is the file write of instance i.
Writes(i) ==
    /\ section[i] # Idle /\ section[i].stage = "load"
    /\ section'[i] # Idle /\ section'[i].stage = "mirror"

\* Between two requests the table of ops.db holds what the file holds, unless
\* the last shadow write failed, was cut off or came from a shared section: a
\* later write always heals the difference (quotesStore.js:156-174,
\* sqliteBackend.js:201-252).
MirrorTracksFile ==
    ~drift /\ (\A i \in Instances : section[i] # Idle => section[i].stage = "load")
      => mirror = file

\* A request changes no quote but its own: what another request saved stays
\* in the file, whether or not the mirror ever got it (quotesStore.js:161-173).
\* Requests of two processes that hold their locks count among those that
\* must not touch each other's quotes (asyncLock.js:98-113).
OthersUntouched ==
    [][\A id \in Ids : file'[id] # file[id] =>
         \E i \in Instances :
           /\ Writes(i)
           /\ \/ section[i].shared
              \/ LET r == section[i].req IN
                   \/ r.kind = "replace"
                   \/ r.id = id
                   \/ r.kind = "post" /\ file[id] = Absent]_vars

\* A row that nobody sent a state for appears only where a purge came between
\* the look-up of a trash or restore request and its turn: apart from that the
\* look-up does what it is there for, over any waits, overlaps and crashes
\* (costApi.js:2955-2960, where the comment makes no such exception).
NoGhost ==
    \A id \in Ids : file[id] # Absent /\ file[id].content = NoContent => id \in swept

\* Content never changes under an unchanged `_version`, or a save based on
\* the old content could not be told from one based on the new
\* (quotesStore.js:255-263).  Purges and backups start a row afresh.
EditsBumpVersion ==
    [][\A i \in Instances, id \in Ids :
         /\ Writes(i) /\ ~section[i].shared /\ section[i].req.kind # "replace"
         /\ file[id] # Absent /\ file'[id] # Absent
         /\ file'[id].content # file[id].content
         => file'[id].version > file[id].version]_vars

-----------------------------------------------------------------------------
(* The refinement mapping: a request is pending until it has saved.          *)
AbsPending ==
    [i \in Instances |->
        IF section[i] # Idle /\ section[i].stage = "load" THEN section[i].req ELSE Idle]

Register == INSTANCE QuoteRegister WITH quotes <- file, pending <- AbsPending

\* Every request that kept its section to itself takes effect at one instant,
\* on the list of that instant: always so in one process, and in several while
\* each gets its lock file (asyncLock.js:10-15, 98-113).
ImplementsRegister ==
    /\ Register!RegInit
    /\ [][(\E i \in Instances : Writes(i) /\ section[i].shared)
            \/ Register!RegNext]_(Register!regVars)
=============================================================================
