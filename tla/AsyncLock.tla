----------------------------- MODULE AsyncLock -----------------------------
(***************************************************************************)
(* server/utils/asyncLock.js: withLock(key, fn).                           *)
(*                                                                         *)
(* Layer 1 is a chain of promises per key, kept in the Map `_locks` of one *)
(* process: a call waits for the promise it finds in the Map and leaves    *)
(* its own there.  Layer 2, switched on by OPS_MULTI_INSTANCE=1, is a lock *)
(* file per key shared by the processes of one data directory; when it     *)
(* cannot be had the call goes on without it.                              *)
(*                                                                         *)
(* A call is one invocation of withLock.  Its promise `mine` is resolved   *)
(* once the call has reached "done": withLock calls resolveRun() only      *)
(* after `await previous`, so both parts of `previous.then(() => run)`     *)
(* are settled by then.  `ticket` is a history variable: the order in      *)
(* which the calls were made.                                              *)
(***************************************************************************)
EXTENDS Naturals

CONSTANTS
    Procs,          \* Node processes sharing one data directory
    Keys,           \* lock keys: "quotes", "quote:<id>", "notifications", ...
    Calls,          \* invocations of withLock, each made at most once
    ProcOf,         \* [Calls -> Procs]: the process that makes the call
    KeyOf,          \* [Calls -> Keys]: the key it locks
    Parent,         \* the call whose fn awaits this one, or NoCall
    MultiInstance,  \* OPS_MULTI_INSTANCE=1
    NoCall

ASSUME LockAssumption ==
    /\ ProcOf \in [Calls -> Procs]
    /\ KeyOf \in [Calls -> Keys]
    /\ NoCall \notin Calls
    /\ Parent \in [Calls -> Calls \cup {NoCall}]
    /\ MultiInstance \in BOOLEAN

VARIABLES
    pc,         \* pc[c]: where call c stands in withLock
    locks,      \* locks[p][k]: the call whose promise is in _locks under k
    prev,       \* prev[c]: the call whose promise is c's `previous`
    held,       \* the calls with releaseFileLock # null
    fileLock,   \* fileLock[k]: the call whose lock file is on disk
    ticket,     \* ticket[c]: c was the ticket-th call made (history)
    made        \* the number of calls made so far (history)

vars == <<pc, locks, prev, held, fileLock, ticket, made>>

PCs == {"idle", "queued", "acquiring", "run", "releasing", "done", "crashed"}

TypeOK ==
    /\ pc \in [Calls -> PCs]
    /\ locks \in [Procs -> [Keys -> Calls \cup {NoCall}]]
    /\ prev \in [Calls -> Calls \cup {NoCall}]
    /\ held \in SUBSET Calls
    /\ fileLock \in [Keys -> Calls \cup {NoCall}]
    /\ ticket \in [Calls -> Nat]
    /\ made \in Nat

-----------------------------------------------------------------------------
(* Definitions named ...Fault are what a plausible mistake in the code would *)
(* make of the definition they precede; no specification uses them.  Each    *)
(* shows that some property checked below can fail.                          *)
-----------------------------------------------------------------------------
Active(c)  == pc[c] \in {"queued", "acquiring", "run", "releasing"}
Inside(c)  == pc[c] \in {"acquiring", "run", "releasing"}
SameScope(c, d) == ProcOf[c] = ProcOf[d] /\ KeyOf[c] = KeyOf[d]

\* Waiting until the Map had no entry when the call was made: a chain whose
\* run is never resolved.
ResolvedFault(c) == prev[c] = NoCall

\* `await previous` left out.
NotAwaitedFault(c) == TRUE

\* `await previous` can go on: there was no promise, or it is resolved.
Resolved(c) == prev[c] # NoCall => pc[prev[c]] = "done"

\* A stale time so short that a live owner's file is broken.
StaleAtOnceFault(k) == TRUE

\* A lock file whose owner no longer refreshes it is broken after 30 s.
FileLockFree(k) == fileLock[k] = NoCall \/ fileLock[k] \notin held

Init ==
    /\ pc = [c \in Calls |-> "idle"]
    /\ locks = [p \in Procs |-> [k \in Keys |-> NoCall]]
    /\ prev = [c \in Calls |-> NoCall]
    /\ held = {}
    /\ fileLock = [k \in Keys |-> NoCall]
    /\ ticket = [c \in Calls |-> 0]
    /\ made = 0

\* The whole Map of the process taken for the promise of the key.
EnterFault(c) ==
    /\ pc[c] = "idle"
    /\ pc' = [pc EXCEPT ![c] = "queued"]
    /\ prev' = [prev EXCEPT ![c] = locks[ProcOf[c]]]
    /\ locks' = [locks EXCEPT ![ProcOf[c]][KeyOf[c]] = c]
    /\ ticket' = [ticket EXCEPT ![c] = made + 1]
    /\ made' = made + 1
    /\ UNCHANGED <<held, fileLock>>

\* The synchronous start of withLock, up to `await previous`.  A nested call
\* is made by the running fn of its parent.
Enter(c) ==
    /\ pc[c] = "idle"
    /\ Parent[c] # NoCall => pc[Parent[c]] = "run"
    /\ pc' = [pc EXCEPT ![c] = "queued"]
    /\ prev' = [prev EXCEPT ![c] = locks[ProcOf[c]][KeyOf[c]]]
    /\ locks' = [locks EXCEPT ![ProcOf[c]][KeyOf[c]] = c]
    /\ ticket' = [ticket EXCEPT ![c] = made + 1]
    /\ made' = made + 1
    /\ UNCHANGED <<held, fileLock>>

\* `previous` has resolved: go for the lock file, or straight into fn.
Wake(c) ==
    /\ pc[c] = "queued"
    /\ Resolved(c)
    /\ pc' = [pc EXCEPT ![c] = IF MultiInstance THEN "acquiring" ELSE "run"]
    /\ UNCHANGED <<locks, prev, held, fileLock, ticket, made>>

\* lockfile.lock succeeds on a free or stale lock file.
AcquireFile(c) ==
    /\ pc[c] = "acquiring"
    /\ FileLockFree(KeyOf[c])
    /\ fileLock' = [fileLock EXCEPT ![KeyOf[c]] = c]
    /\ held' = held \cup {c}
    /\ pc' = [pc EXCEPT ![c] = "run"]
    /\ UNCHANGED <<locks, prev, ticket, made>>

\* The ten retries are used up, or the disk refuses: warn, run fn anyway.
Degrade(c) ==
    /\ pc[c] = "acquiring"
    /\ pc' = [pc EXCEPT ![c] = "run"]
    /\ UNCHANGED <<locks, prev, held, fileLock, ticket, made>>

\* The Map entry deleted without asking whose it is.
DeleteAlwaysFault(c) == [locks EXCEPT ![ProcOf[c]][KeyOf[c]] = NoCall]

\* The Map entry never deleted.
DeleteNeverFault(c) == locks

\* resolveRun(), and the Map entry is dropped when nobody queued behind.
LocksWithout(c) ==
    IF locks[ProcOf[c]][KeyOf[c]] = c
    THEN [locks EXCEPT ![ProcOf[c]][KeyOf[c]] = NoCall]
    ELSE locks

\* fn returns or throws once every withLock it awaits has ended; the finally
\* block releases the lock file first when there is one.
FnEnds(c) ==
    /\ pc[c] = "run"
    /\ \A d \in Calls : Parent[d] = c => ~Active(d)
    /\ IF c \in held
       THEN /\ pc' = [pc EXCEPT ![c] = "releasing"]
            /\ UNCHANGED locks
       ELSE /\ pc' = [pc EXCEPT ![c] = "done"]
            /\ locks' = LocksWithout(c)
    /\ UNCHANGED <<prev, held, fileLock, ticket, made>>

\* The release succeeds, or fails with a warning and leaves the file behind.
ReleaseFile(c) ==
    /\ pc[c] = "releasing"
    /\ \/ fileLock' = [fileLock EXCEPT ![KeyOf[c]] = NoCall]
       \/ UNCHANGED fileLock
    /\ held' = held \ {c}
    /\ pc' = [pc EXCEPT ![c] = "done"]
    /\ locks' = LocksWithout(c)
    /\ UNCHANGED <<prev, ticket, made>>

\* A process dies and restarts with an empty Map; its lock files stay.
Crash(p) ==
    /\ pc' = [c \in Calls |->
                IF ProcOf[c] = p /\ Active(c) THEN "crashed" ELSE pc[c]]
    /\ locks' = [locks EXCEPT ![p] = [k \in Keys |-> NoCall]]
    /\ held' = {c \in held : ProcOf[c] # p}
    /\ UNCHANGED <<prev, fileLock, ticket, made>>

Next ==
    \/ \E c \in Calls : \/ Enter(c) \/ Wake(c) \/ AcquireFile(c) \/ Degrade(c)
                        \/ FnEnds(c) \/ ReleaseFile(c)
    \/ \E p \in Procs : Crash(p)

Spec == Init /\ [][Next]_vars

\* Promise callbacks run, the retry loop of proper-lockfile is finite, every
\* fn under a lock ends, and so does the release of a lock file.
Fairness ==
    \A c \in Calls : /\ WF_vars(Wake(c))
                     /\ WF_vars(AcquireFile(c) \/ Degrade(c))
                     /\ WF_vars(FnEnds(c))
                     /\ WF_vars(ReleaseFile(c))

FairSpec == Spec /\ Fairness

-----------------------------------------------------------------------------
\* One fn per key and process at a time, whatever queued, threw or crashed
\* meanwhile (asyncLock.js:85-129).
InProcessMutex ==
    \A c, d \in Calls : SameScope(c, d) /\ Inside(c) /\ Inside(d) => c = d

\* Two calls that both got the lock file of a key never overlap, in whatever
\* processes they run: a file left by a crash or a failed release is taken
\* over only when its owner is gone (asyncLock.js:58-74, 101-121).
FileLockExclusive ==
    \A c, d \in held : KeyOf[c] = KeyOf[d] => c = d

\* A key has a Map entry exactly while some call on it is under way: nothing
\* leaks when the last one drains, and no waiter's entry is deleted by an
\* earlier call that ends (asyncLock.js:25-26, 124-127).
EntryWhileInUse ==
    \A p \in Procs, k \in Keys :
        locks[p][k] # NoCall
          <=> \E c \in Calls : ProcOf[c] = p /\ KeyOf[c] = k /\ Active(c)

\* Calls on a key go in the order they were made: nobody passes an earlier
\* call that is still under way (asyncLock.js:88-98).
ServedInOrder ==
    [][\A c, d \in Calls :
          /\ SameScope(c, d) /\ Active(c) /\ Active(d)
          /\ ticket[c] < ticket[d]
          => ~(pc[d] = "queued" /\ pc'[d] \in {"acquiring", "run"})]_vars

\* Call c can go on by itself: it waits for no other call.
CanGoOn(c) ==
    \/ pc[c] = "queued" /\ Resolved(c)
    \/ pc[c] \in {"acquiring", "releasing"}
    \/ pc[c] = "run" /\ \A d \in Calls : Parent[d] = c => ~Active(d)

\* Calls never all wait for each other, along the chains of a key or across
\* keys when a body takes a second lock: while one is under way, one can go on
\* (asyncLock.js:85-129; quote:<id> is taken before notifications).
NoDeadlock == (\E c \in Calls : Active(c)) => \E c \in Calls : CanGoOn(c)

\* Every call ends or dies with its process: lock files that cannot be had,
\* crashed owners and locks taken while holding another never block for ever
\* (asyncLock.js:98-128; the routes take quote:<id> before notifications).
EveryCallEnds ==
    \A c \in Calls : (pc[c] = "queued") ~> (pc[c] \in {"done", "crashed"})

-----------------------------------------------------------------------------
\* The refinement mapping to the promise made to callers.
AbsStage ==
    [c \in Calls |->
        CASE pc[c] = "idle"   -> "idle"
          [] pc[c] = "queued" -> "waiting"
          [] Inside(c)        -> "critical"
          [] OTHER            -> "ended"]

AbsProcOf(c) == ProcOf[c]
AbsKeyOf(c) == KeyOf[c]

Promise == INSTANCE Mutex WITH stage <- AbsStage, ProcOf <- AbsProcOf,
                               KeyOf <- AbsKeyOf

\* withLock keeps the promise of Mutex.
ImplementsMutex == Promise!Spec
=============================================================================
