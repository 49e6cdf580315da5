-------------------------- MODULE AsyncLock_proofs --------------------------
(***************************************************************************)
(* Safety of AsyncLock for every set of processes, keys and calls.         *)
(*                                                                         *)
(* Mutual exclusion is not inductive: that two calls are never inside at   *)
(* once follows from how the promises are chained.  LockInv says that the  *)
(* calls under way on a key of a process form a queue, in the order of     *)
(* their tickets, whose last member is the Map entry, and in which every   *)
(* call but the first waits for a call that is still under way.            *)
(***************************************************************************)
EXTENDS AsyncLock, WellFoundedInduction, TLAPS

Made(c) == pc[c] # "idle"

\* Tickets are given out once.
TicketInv ==
    /\ \A c \in Calls : Made(c) => ticket[c] >= 1 /\ ticket[c] <= made
    /\ \A c, d \in Calls : Made(c) /\ Made(d) /\ ticket[c] = ticket[d] => c = d

\* The Map entry of a key is the call made last of those under way.
TailInv ==
    /\ \A c \in Calls : Active(c) => locks[ProcOf[c]][KeyOf[c]] # NoCall
    /\ \A p \in Procs, k \in Keys : locks[p][k] # NoCall =>
         /\ ProcOf[locks[p][k]] = p
         /\ KeyOf[locks[p][k]] = k
         /\ Active(locks[p][k])
         /\ \A c \in Calls : ProcOf[c] = p /\ KeyOf[c] = k /\ Active(c)
                               => ticket[c] <= ticket[locks[p][k]]

\* A call waits for one that was made no earlier than any call before it.
ChainInv ==
    \A c, d \in Calls :
      SameScope(c, d) /\ Active(c) /\ Active(d) /\ ticket[c] < ticket[d] =>
        /\ prev[d] # NoCall
        /\ SameScope(prev[d], d)
        /\ Active(prev[d])
        /\ ticket[c] <= ticket[prev[d]]

\* Whoever is inside has seen its predecessor end.
InsideInv == \A c \in Calls : Inside(c) => Resolved(c)

\* The file of a key on disk is that of the call that holds it.
HeldInv ==
    /\ \A c \in held : fileLock[KeyOf[c]] = c /\ pc[c] \in {"run", "releasing"}
    /\ \A c \in Calls : pc[c] = "releasing" => c \in held

LockInv == TypeOK /\ TicketInv /\ TailInv /\ ChainInv /\ InsideInv /\ HeldInv

-----------------------------------------------------------------------------
\* The initial state satisfies the invariant: no call is under way.
LEMMA InitInv == ASSUME Init PROVE LockInv
  BY LockAssumption
  DEF Init, LockInv, TypeOK, PCs, TicketInv, TailInv, ChainInv, InsideInv, HeldInv,
      Made, Active, Inside

\* Dropping a Map entry leaves a Map from keys to calls.
LEMMA LocksWithoutType ==
  ASSUME TypeOK, NEW c \in Calls
  PROVE  LocksWithout(c) \in [Procs -> [Keys -> Calls \cup {NoCall}]]
<1> USE LockAssumption DEF TypeOK
<1>1. [locks EXCEPT ![ProcOf[c]][KeyOf[c]] = NoCall]
        \in [Procs -> [Keys -> Calls \cup {NoCall}]]
  OBVIOUS
<1> QED BY <1>1 DEF LocksWithout

\* Every step keeps the types.
LEMMA TypeStep == ASSUME TypeOK, [Next]_vars PROVE TypeOK'
<1> USE LockAssumption DEF TypeOK, PCs
<1>1. ASSUME NEW c \in Calls, Enter(c) PROVE TypeOK'
  BY <1>1 DEF Enter
<1>2. ASSUME NEW c \in Calls, Wake(c) PROVE TypeOK'
  BY <1>2 DEF Wake
<1>3. ASSUME NEW c \in Calls, AcquireFile(c) PROVE TypeOK'
  BY <1>3 DEF AcquireFile
<1>4. ASSUME NEW c \in Calls, Degrade(c) PROVE TypeOK'
  BY <1>4 DEF Degrade
<1>5. ASSUME NEW c \in Calls, FnEnds(c) PROVE TypeOK'
  BY <1>5, LocksWithoutType DEF FnEnds
<1>6. ASSUME NEW c \in Calls, ReleaseFile(c) PROVE TypeOK'
  BY <1>6, LocksWithoutType DEF ReleaseFile
<1>7. ASSUME NEW p \in Procs, Crash(p) PROVE TypeOK'
  BY <1>7 DEF Crash
<1>8. CASE UNCHANGED vars
  BY <1>8 DEF vars
<1> QED BY <1>1, <1>2, <1>3, <1>4, <1>5, <1>6, <1>7, <1>8 DEF Next

\* A call that joins becomes the last of its queue.
LEMMA EnterStep ==
  ASSUME LockInv, TypeOK', NEW c \in Calls, Enter(c)
  PROVE  LockInv'
<1> USE LockAssumption DEF LockInv, TypeOK, Active, Inside, SameScope, Made
<1> DEFINE t == locks[ProcOf[c]][KeyOf[c]]
<1>0. /\ pc[c] = "idle"
      /\ pc' = [pc EXCEPT ![c] = "queued"]
      /\ prev' = [prev EXCEPT ![c] = t]
      /\ locks' = [locks EXCEPT ![ProcOf[c]][KeyOf[c]] = c]
      /\ ticket' = [ticket EXCEPT ![c] = made + 1]
      /\ made' = made + 1
      /\ held' = held /\ fileLock' = fileLock
  BY DEF Enter
<1>1. TicketInv'
  BY <1>0 DEF TicketInv
<1>2. TailInv'
  BY <1>0 DEF TailInv, TicketInv, PCs
<1>3. ChainInv'
  <2> SUFFICES ASSUME NEW e \in Calls, NEW d \in Calls,
                      SameScope(e, d), Active(e)', Active(d)', ticket'[e] < ticket'[d]
               PROVE  /\ prev'[d] # NoCall
                      /\ SameScope(prev[d], d)'
                      /\ Active(prev[d])'
                      /\ ticket'[e] <= ticket'[prev'[d]]
    BY DEF ChainInv
  <2>1. CASE d = c
    <3>1. e # c /\ Active(e)
      BY <1>0, <2>1
    <3>2. t # NoCall /\ t # c /\ SameScope(t, c) /\ Active(t) /\ ticket[e] <= ticket[t]
      BY <1>0, <2>1, <3>1 DEF TailInv
    <3> QED BY <1>0, <2>1, <3>1, <3>2
  <2>2. CASE d # c
    <3>1. e # c
      BY <1>0, <2>2 DEF TicketInv
    <3>2. /\ prev[d] # NoCall /\ SameScope(prev[d], d) /\ Active(prev[d])
          /\ ticket[e] <= ticket[prev[d]]
      BY <1>0, <2>2, <3>1 DEF ChainInv
    <3>3. prev[d] # c
      BY <1>0, <3>2
    <3> QED BY <1>0, <2>2, <3>1, <3>2, <3>3
  <2> QED BY <2>1, <2>2
<1>4. InsideInv'
  BY <1>0 DEF InsideInv, Resolved
<1>5. HeldInv'
  BY <1>0 DEF HeldInv
<1> QED BY <1>1, <1>2, <1>3, <1>4, <1>5

\* Steps within the queue: the Map, the promises and the tickets stay, and a
\* call under way stays under way.
LEMMA InnerStep ==
  ASSUME LockInv, TypeOK', HeldInv',
         UNCHANGED <<locks, prev, ticket, made>>,
         NEW c \in Calls, NEW v \in {"acquiring", "run", "releasing"},
         Active(c), Resolved(c), pc' = [pc EXCEPT ![c] = v]
  PROVE  LockInv'
<1> USE DEF LockInv, TypeOK, Active, Inside, SameScope, Made
<1>1. TicketInv'
  BY DEF TicketInv
<1>2. \A d \in Calls : Active(d)' <=> Active(d)
  OBVIOUS
<1>3. TailInv'
  BY <1>2 DEF TailInv
<1>4. ChainInv'
  BY <1>2 DEF ChainInv
<1>5. InsideInv'
  BY DEF InsideInv, Resolved
<1> QED BY <1>1, <1>3, <1>4, <1>5

\* A call that ends was the first of its queue: whoever waited for it is next.
LEMMA FinishStep ==
  ASSUME LockInv, TypeOK', HeldInv',
         UNCHANGED <<prev, ticket, made>>,
         NEW c \in Calls, Inside(c),
         pc' = [pc EXCEPT ![c] = "done"], locks' = LocksWithout(c)
  PROVE  LockInv'
<1> USE LockAssumption DEF LockInv, TypeOK, Active, Inside, SameScope, Made
<1>1. ASSUME NEW e \in Calls, SameScope(e, c), Active(e), e # c
      PROVE  ticket[c] < ticket[e]
  <2>1. prev[c] # NoCall => pc[prev[c]] = "done"
    BY DEF InsideInv, Resolved
  <2>2. ~(ticket[e] < ticket[c])
    BY <1>1, <2>1 DEF ChainInv
  <2>3. ticket[e] # ticket[c]
    BY <1>1 DEF TicketInv
  <2>4. ticket[e] \in Nat /\ ticket[c] \in Nat
    BY <1>1
  <2> HIDE DEF LockInv, TypeOK, Active, Inside, SameScope, Made
  <2> QED BY <2>2, <2>3, <2>4
<1>2. \A d \in Calls : Active(d)' <=> Active(d) /\ d # c
  OBVIOUS
<1>3. TicketInv'
  BY DEF TicketInv
<1>4. ChainInv'
  <2> SUFFICES ASSUME NEW e \in Calls, NEW d \in Calls,
                      SameScope(e, d), Active(e)', Active(d)', ticket[e] < ticket[d]
               PROVE  /\ prev[d] # NoCall /\ SameScope(prev[d], d) /\ Active(prev[d])'
                      /\ ticket[e] <= ticket[prev[d]]
    BY DEF ChainInv
  <2>1. /\ prev[d] # NoCall /\ SameScope(prev[d], d) /\ Active(prev[d])
        /\ ticket[e] <= ticket[prev[d]]
    BY <1>2 DEF ChainInv
  <2>2. prev[d] # c
    <3> SUFFICES ASSUME prev[d] = c PROVE FALSE
      OBVIOUS
    <3>1. SameScope(e, c) => ticket[c] < ticket[e]
      BY <1>1, <1>2
    <3>2. SameScope(c, d)
      BY <2>1
    <3>3. e # c
      BY <1>2
    <3> QED BY <2>1, <3>1, <3>2, <3>3
  <2> QED BY <1>2, <2>1, <2>2
<1>5. TailInv'
  <2>1. CASE locks[ProcOf[c]][KeyOf[c]] = c
    <3>1. \A e \in Calls : SameScope(e, c) /\ Active(e) => e = c
      <4> SUFFICES ASSUME NEW e \in Calls, SameScope(e, c), Active(e), e # c
                   PROVE  FALSE
        OBVIOUS
      <4>1. ticket[c] < ticket[e]
        BY <1>1
      <4>2. ProcOf[c] \in Procs /\ KeyOf[c] \in Keys /\ c # NoCall
        OBVIOUS
      <4>3. ticket[e] <= ticket[c]
        BY <2>1, <4>2 DEF TailInv
      <4>4. ticket[e] \in Nat /\ ticket[c] \in Nat
        OBVIOUS
      <4> HIDE DEF LockInv
      <4> QED BY <4>1, <4>3, <4>4
    <3> QED BY <1>2, <2>1, <3>1 DEF TailInv, LocksWithout
  <2>2. CASE locks[ProcOf[c]][KeyOf[c]] # c
    <3>1. locks' = locks
      BY <2>2 DEF LocksWithout
    <3>2. \A p \in Procs, k \in Keys : locks[p][k] # c
      BY <2>2 DEF TailInv
    <3> QED BY <1>2, <3>1, <3>2 DEF TailInv
  <2> QED BY <2>1, <2>2
<1>6. InsideInv'
  BY DEF InsideInv, Resolved
<1> QED BY <1>3, <1>4, <1>5, <1>6

\* A process that dies takes whole queues with it.
LEMMA CrashStep ==
  ASSUME LockInv, TypeOK', NEW p \in Procs, Crash(p)
  PROVE  LockInv'
<1> USE LockAssumption DEF LockInv, TypeOK, Active, Inside, SameScope, Made
<1>0. /\ \A c \in Calls : ProcOf[c] # p => pc'[c] = pc[c]
      /\ \A c \in Calls : ProcOf[c] = p => ~Active(c)'
      /\ \A c \in Calls : pc[c] \in {"idle", "done"} <=> pc'[c] \in {"idle", "done"}
      /\ \A c \in Calls : pc[c] = "idle" <=> pc'[c] = "idle"
      /\ \A c \in Calls : pc[c] = "done" => pc'[c] = "done"
      /\ \A q \in Procs : q # p => locks'[q] = locks[q]
      /\ \A k \in Keys : locks'[p][k] = NoCall
      /\ prev' = prev /\ fileLock' = fileLock /\ ticket' = ticket /\ made' = made
      /\ held' = {c \in held : ProcOf[c] # p}
  BY DEF Crash
<1>1. TicketInv'
  BY <1>0 DEF TicketInv
<1>2. TailInv'
  <2>1. ASSUME NEW c \in Calls, Active(c)'
        PROVE  locks'[ProcOf[c]][KeyOf[c]] # NoCall
    BY <1>0, <2>1 DEF TailInv
  <2>2. ASSUME NEW q \in Procs, NEW k \in Keys, locks'[q][k] # NoCall
        PROVE  /\ q # p /\ locks'[q][k] = locks[q][k]
               /\ ProcOf[locks[q][k]] = q
               /\ KeyOf[locks[q][k]] = k
               /\ Active(locks[q][k])
               /\ \A c \in Calls : ProcOf[c] = q /\ KeyOf[c] = k /\ Active(c)
                                     => ticket[c] <= ticket[locks[q][k]]
    BY <1>0, <2>2 DEF TailInv
  <2> QED BY <1>0, <2>1, <2>2 DEF TailInv
<1>3. ChainInv'
  BY <1>0 DEF ChainInv
<1>4. InsideInv'
  BY <1>0 DEF InsideInv, Resolved
<1>5. HeldInv'
  BY <1>0 DEF HeldInv
<1> QED BY <1>1, <1>2, <1>3, <1>4, <1>5

\* The lock file changes hands only when its owner is gone.
LEMMA HeldStep == ASSUME LockInv, TypeOK', [Next]_vars PROVE HeldInv'
<1> USE LockAssumption DEF LockInv, TypeOK, HeldInv
<1>1. ASSUME NEW c \in Calls, Enter(c) PROVE HeldInv'
  BY <1>1 DEF Enter
<1>2. ASSUME NEW c \in Calls, Wake(c) PROVE HeldInv'
  BY <1>2 DEF Wake
<1>3. ASSUME NEW c \in Calls, AcquireFile(c) PROVE HeldInv'
  <2>1. \A d \in held : KeyOf[d] # KeyOf[c]
    BY <1>3 DEF AcquireFile, FileLockFree
  <2> QED BY <1>3, <2>1 DEF AcquireFile
<1>4. ASSUME NEW c \in Calls, Degrade(c) PROVE HeldInv'
  BY <1>4 DEF Degrade
<1>5. ASSUME NEW c \in Calls, FnEnds(c) PROVE HeldInv'
  BY <1>5 DEF FnEnds
<1>6. ASSUME NEW c \in Calls, ReleaseFile(c) PROVE HeldInv'
  <2>1. c \in held /\ \A d \in held : KeyOf[d] = KeyOf[c] => d = c
    BY <1>6 DEF ReleaseFile
  <2> QED BY <1>6, <2>1 DEF ReleaseFile
<1>7. ASSUME NEW p \in Procs, Crash(p) PROVE HeldInv'
  BY <1>7 DEF Crash, Active
<1>8. CASE UNCHANGED vars
  BY <1>8 DEF vars
<1> QED BY <1>1, <1>2, <1>3, <1>4, <1>5, <1>6, <1>7, <1>8 DEF Next

\* The invariant is inductive.
LEMMA NextInv == ASSUME LockInv, [Next]_vars PROVE LockInv'
<1>0. TypeOK' /\ HeldInv'
  BY TypeStep, HeldStep DEF LockInv
<1>1. ASSUME NEW c \in Calls, Enter(c) PROVE LockInv'
  BY <1>0, <1>1, EnterStep
<1>2. ASSUME NEW c \in Calls, Wake(c) PROVE LockInv'
  BY <1>0, <1>2, InnerStep DEF Wake, Active
<1>3. ASSUME NEW c \in Calls, AcquireFile(c) PROVE LockInv'
  BY <1>0, <1>3, InnerStep DEF AcquireFile, Active, Inside, LockInv, InsideInv
<1>4. ASSUME NEW c \in Calls, Degrade(c) PROVE LockInv'
  BY <1>0, <1>4, InnerStep DEF Degrade, Active, Inside, LockInv, InsideInv
<1>5. ASSUME NEW c \in Calls, FnEnds(c) PROVE LockInv'
  <2>1. CASE c \in held
    BY <1>0, <1>5, <2>1, InnerStep DEF FnEnds, Active, Inside, LockInv, InsideInv
  <2>2. CASE c \notin held
    BY <1>0, <1>5, <2>2, FinishStep DEF FnEnds, Inside
  <2> QED BY <2>1, <2>2
<1>6. ASSUME NEW c \in Calls, ReleaseFile(c) PROVE LockInv'
  BY <1>0, <1>6, FinishStep DEF ReleaseFile, Inside
<1>7. ASSUME NEW p \in Procs, Crash(p) PROVE LockInv'
  BY <1>0, <1>7, CrashStep
<1>8. CASE UNCHANGED vars
  BY <1>8 DEF vars, LockInv, TypeOK, TicketInv, TailInv, ChainInv, InsideInv,
              HeldInv, Made, Active, Inside, SameScope, Resolved
<1> QED BY <1>1, <1>2, <1>3, <1>4, <1>5, <1>6, <1>7, <1>8 DEF Next

\* The calls of a key always form a queue, and the variables have their types.
THEOREM Invariance == Spec => []LockInv
BY InitInv, NextInv, PTL DEF Spec

-----------------------------------------------------------------------------
\* At most one call per key and process is past `await previous`, because of
\* two such calls the later one would wait for a call under way.
LEMMA InvImpliesMutex == LockInv => InProcessMutex
<1> SUFFICES ASSUME LockInv, NEW c \in Calls, NEW d \in Calls,
                    SameScope(c, d), Inside(c), Inside(d), c # d
             PROVE  FALSE
  BY DEF InProcessMutex
<1>1. Active(c) /\ Active(d) /\ SameScope(d, c)
  BY DEF Active, Inside, SameScope
<1>2. ~(ticket[c] < ticket[d]) /\ ~(ticket[d] < ticket[c])
  BY <1>1 DEF LockInv, ChainInv, InsideInv, Resolved, Active
<1>3. ticket[c] # ticket[d]
  BY DEF LockInv, TicketInv, Made, Inside
<1>4. ticket[c] \in Nat /\ ticket[d] \in Nat
  BY DEF LockInv, TypeOK
<1> QED BY <1>2, <1>3, <1>4

\* The variables always have their types.
THEOREM TypeInvariance == Spec => []TypeOK
<1>1. LockInv => TypeOK
  BY DEF LockInv
<1> QED BY <1>1, Invariance, PTL

\* One fn per key and process is past `await previous` and not yet ended.
THEOREM MutualExclusion == Spec => []InProcessMutex
BY Invariance, InvImpliesMutex, PTL

\* Two calls of different processes never both hold the lock file of a key.
THEOREM FileExclusion == Spec => []FileLockExclusive
<1>1. LockInv => FileLockExclusive
  BY DEF LockInv, HeldInv, FileLockExclusive
<1> QED BY <1>1, Invariance, PTL

\* The Map holds an entry for a key exactly while it is in use.
THEOREM MapCleanup == Spec => []EntryWhileInUse
<1>1. LockInv => EntryWhileInUse
  BY LockAssumption DEF LockInv, TailInv, TypeOK, EntryWhileInUse
<1> QED BY <1>1, Invariance, PTL

\* Calls on a key are served in the order in which they were made.
THEOREM FirstComeFirstServed == Spec => ServedInOrder
<1> DEFINE Overtakes(c, d) ==
      /\ SameScope(c, d) /\ Active(c) /\ Active(d) /\ ticket[c] < ticket[d]
      /\ pc[d] = "queued" /\ pc'[d] \in {"acquiring", "run"}
<1>1. ASSUME LockInv, [Next]_vars, NEW c \in Calls, NEW d \in Calls
      PROVE  ~Overtakes(c, d)
  <2> SUFFICES ASSUME Overtakes(c, d) PROVE FALSE
    OBVIOUS
  <2>1. TypeOK
    BY <1>1 DEF LockInv
  <2>2. Wake(d)
    BY <1>1, <2>1 DEF Next, vars, TypeOK, Enter, Wake, AcquireFile, Degrade, FnEnds,
                      ReleaseFile, Crash
  <2>3. prev[d] # NoCall /\ Active(prev[d])
    BY <1>1 DEF LockInv, ChainInv
  <2> QED BY <2>2, <2>3 DEF Wake, Resolved, Active
<1>2. LockInv /\ [Next]_vars =>
        [\A c, d \in Calls :
          /\ SameScope(c, d) /\ Active(c) /\ Active(d)
          /\ ticket[c] < ticket[d]
          => ~(pc[d] = "queued" /\ pc'[d] \in {"acquiring", "run"})]_vars
  BY <1>1
<1> QED BY <1>2, Invariance, PTL DEF Spec, ServedInOrder

-----------------------------------------------------------------------------
\* withLock implements Mutex: queueing is the request, the end of `await
\* previous` the grant, the end of the finally block the release.
THEOREM Refinement == Spec => ImplementsMutex
<1> USE DEF AbsProcOf, AbsKeyOf
<1>1. Init => Promise!Init
  BY DEF Init, Promise!Init, AbsStage, Inside
<1>2. LockInv' => InProcessMutex'
  BY InvImpliesMutex, PTL
<1>3. ASSUME LockInv, LockInv', [Next]_vars PROVE [Promise!Next]_AbsStage
  <2> USE DEF AbsStage, Inside
  <2>0. TypeOK
    BY <1>3 DEF LockInv
  <2>1. ASSUME NEW c \in Calls, Enter(c) PROVE Promise!Request(c)
    BY <2>0, <2>1 DEF Enter, TypeOK, Promise!Request
  <2>2. ASSUME NEW c \in Calls, Wake(c) PROVE Promise!Grant(c)
    <3>1. Inside(c)'
      BY <2>0, <2>2 DEF Wake, TypeOK
    <3>2. \A d \in Calls : SameScope(c, d) /\ d # c => ~Inside(d)'
      BY <1>2, <1>3, <3>1 DEF InProcessMutex, SameScope
    <3> QED BY <2>0, <2>2, <3>1, <3>2
            DEF Wake, TypeOK, SameScope, Promise!Grant, Promise!SameScope
  <2>3. ASSUME NEW c \in Calls, AcquireFile(c) \/ Degrade(c)
        PROVE  UNCHANGED AbsStage
    BY <2>0, <2>3 DEF AcquireFile, Degrade, TypeOK
  <2>4. ASSUME NEW c \in Calls, FnEnds(c)
        PROVE  Promise!End(c) \/ UNCHANGED AbsStage
    BY <2>0, <2>4 DEF FnEnds, TypeOK, Promise!End
  <2>5. ASSUME NEW c \in Calls, ReleaseFile(c) PROVE Promise!End(c)
    BY <2>0, <2>5 DEF ReleaseFile, TypeOK, Promise!End
  <2>6. ASSUME NEW p \in Procs, Crash(p) PROVE Promise!Crash(p)
    BY <2>0, <2>6 DEF Crash, Active, TypeOK, PCs, Promise!Crash
  <2>7. CASE UNCHANGED vars
    BY <2>7 DEF vars
  <2> QED BY <1>3, <2>1, <2>2, <2>3, <2>4, <2>5, <2>6, <2>7 DEF Next, Promise!Next
<1> QED BY <1>1, <1>3, Invariance, PTL DEF Spec, ImplementsMutex, Promise!Spec

-----------------------------------------------------------------------------
\* Who waits, waits for an earlier call on the same key that is still under
\* way or has ended: one that died took its waiters with it.
Alive == {"queued", "acquiring", "run", "releasing", "done"}

WaitInv ==
    \A d \in Calls : pc[d] = "queued" /\ prev[d] # NoCall =>
      /\ SameScope(prev[d], d)
      /\ ticket[prev[d]] < ticket[d]
      /\ pc[prev[d]] \in Alive

LEMMA WaitStep == ASSUME LockInv, LockInv', WaitInv, [Next]_vars PROVE WaitInv'
<1> USE DEF Active, Alive, SameScope
<1>0. TypeOK /\ TypeOK'
  BY DEF LockInv
<1>1. ASSUME NEW c \in Calls, Enter(c) PROVE WaitInv'
  <2> DEFINE t == locks[ProcOf[c]][KeyOf[c]]
  <2>1. /\ pc[c] = "idle" /\ pc' = [pc EXCEPT ![c] = "queued"]
        /\ prev' = [prev EXCEPT ![c] = t] /\ ticket' = [ticket EXCEPT ![c] = made + 1]
        /\ made \in Nat
    BY <1>0, <1>1 DEF Enter, TypeOK
  <2>2. t # NoCall => /\ t \in Calls /\ SameScope(t, c) /\ Active(t) /\ t # c
                      /\ ticket[t] < made + 1
    <3>1. t \in Calls \cup {NoCall} /\ ProcOf[c] \in Procs /\ KeyOf[c] \in Keys
      BY <1>0, LockAssumption DEF TypeOK
    <3>2. ASSUME t # NoCall
          PROVE  ProcOf[t] = ProcOf[c] /\ KeyOf[t] = KeyOf[c] /\ Active(t)
      BY <3>1, <3>2 DEF LockInv, TailInv
    <3>3. ASSUME t # NoCall PROVE t # c /\ ticket[t] <= made /\ ticket[t] \in Nat
      BY <1>0, <2>1, <3>1, <3>2, <3>3 DEF LockInv, TicketInv, Made, TypeOK
    <3> HIDE DEF t
    <3> QED BY <2>1, <3>1, <3>2, <3>3
  <2>3. ASSUME NEW d \in Calls, pc'[d] = "queued", prev'[d] # NoCall
        PROVE  /\ SameScope(prev'[d], d) /\ ticket'[prev'[d]] < ticket'[d]
               /\ pc'[prev'[d]] \in Alive
    <3>1. CASE d = c
      BY <1>0, <2>1, <2>2, <2>3, <3>1 DEF TypeOK
    <3>2. CASE d # c
      <4>1. /\ prev'[d] = prev[d] /\ pc[d] = "queued" /\ prev[d] \in Calls
            /\ ticket'[d] = ticket[d]
        BY <1>0, <2>1, <2>3, <3>2 DEF TypeOK
      <4>2. /\ SameScope(prev[d], d) /\ ticket[prev[d]] < ticket[d]
            /\ pc[prev[d]] \in Alive
        BY <2>3, <4>1 DEF WaitInv
      <4>3. prev[d] # c
        BY <2>1, <4>2
      <4> QED BY <1>0, <2>1, <4>1, <4>2, <4>3 DEF TypeOK
    <3> QED BY <3>1, <3>2
  <2> QED BY <2>3 DEF WaitInv
<1>2. ASSUME NEW c \in Calls, Wake(c) \/ AcquireFile(c) \/ Degrade(c) \/ FnEnds(c) \/ ReleaseFile(c)
      PROVE  WaitInv'
  <2>1. /\ prev' = prev /\ ticket' = ticket
        /\ \E v \in {"acquiring", "run", "releasing", "done"} : pc' = [pc EXCEPT ![c] = v]
        /\ Active(c)
    BY <1>2 DEF Wake, AcquireFile, Degrade, FnEnds, ReleaseFile
  <2>2. \A d \in Calls : /\ pc'[d] = "queued" => pc[d] = "queued"
                         /\ pc[d] \in Alive => pc'[d] \in Alive
    BY <1>0, <2>1 DEF TypeOK
  <2> QED BY <1>0, <2>1, <2>2 DEF WaitInv, TypeOK
<1>3. ASSUME NEW p \in Procs, Crash(p) PROVE WaitInv'
  <2>1. /\ prev' = prev /\ ticket' = ticket
        /\ \A d \in Calls : pc'[d] = IF ProcOf[d] = p /\ Active(d) THEN "crashed" ELSE pc[d]
    BY <1>3 DEF Crash
  <2>2. ASSUME NEW d \in Calls, pc'[d] = "queued", prev'[d] # NoCall
        PROVE  /\ SameScope(prev'[d], d) /\ ticket'[prev'[d]] < ticket'[d]
               /\ pc'[prev'[d]] \in Alive
    <3>1. pc[d] = "queued" /\ ProcOf[d] # p /\ prev[d] \in Calls /\ prev'[d] = prev[d]
      BY <1>0, <2>1, <2>2 DEF TypeOK
    <3>2. /\ SameScope(prev[d], d) /\ ticket[prev[d]] < ticket[d]
          /\ pc[prev[d]] \in Alive
      BY <2>2, <3>1 DEF WaitInv
    <3> QED BY <2>1, <3>1, <3>2
  <2> QED BY <2>2 DEF WaitInv
<1>4. CASE UNCHANGED vars
  BY <1>4 DEF vars, WaitInv
<1> QED BY <1>1, <1>2, <1>3, <1>4 DEF Next

\* Among elements ranked by naturals one has the least rank.
LEMMA LeastRank ==
  ASSUME NEW S, S # {}, NEW rank \in [S -> Nat]
  PROVE  \E x \in S : \A y \in S : rank[x] <= rank[y]
<1> DEFINE R == {n \in Nat : \E x \in S : rank[x] = n}
<1>1. PICK n \in R : \A k \in R : ~(<<k, n>> \in OpToRel(<, Nat))
  <2>1. R \in SUBSET Nat /\ R # {}
    OBVIOUS
  <2> HIDE DEF R
  <2> QED BY <2>1, NatLessThanWellFounded, WFMin
<1>2. \A k \in R : <<k, n>> \in Nat \X Nat
  OBVIOUS
<1>3. \A k \in R : ~(k < n)
  <2> HIDE DEF R
  <2> QED BY <1>1, <1>2, Zenon DEF OpToRel
<1> QED BY <1>3

\* A body takes only locks of lesser depth: the code nests "notifications" in
\* "quote:<id>" and nothing in "notifications" (shared.js:441, 505-517).
NestsDownward(Depth) ==
    /\ Depth \in [Keys -> Nat]
    /\ \A c \in Calls : Parent[c] # NoCall => Depth[KeyOf[c]] < Depth[KeyOf[Parent[c]]]

\* Of the calls under way on the least key the earliest can go on.
LEMMA SomeoneCanGoOn ==
  ASSUME LockInv, WaitInv, NEW Depth, NestsDownward(Depth) PROVE NoDeadlock
<1> SUFFICES ASSUME \E c \in Calls : Active(c) PROVE \E c \in Calls : CanGoOn(c)
  BY DEF NoDeadlock
<1> DEFINE A == {c \in Calls : Active(c)}
<1>1. \A c \in A : c \in Calls /\ Depth[KeyOf[c]] \in Nat /\ ticket[c] \in Nat
  BY LockAssumption DEF NestsDownward, LockInv, TypeOK
<1>2. PICK b \in A : \A d \in A : Depth[KeyOf[b]] <= Depth[KeyOf[d]]
  <2> DEFINE rank == [d \in A |-> Depth[KeyOf[d]]]
  <2>1. A # {} /\ rank \in [A -> Nat]
    BY <1>1
  <2>2. PICK x \in A : \A y \in A : rank[x] <= rank[y]
    <3> HIDE DEF A, rank
    <3> QED BY <2>1, LeastRank
  <2> QED BY <2>2
<1> DEFINE B == {c \in A : Depth[KeyOf[c]] = Depth[KeyOf[b]]}
<1>3. PICK c \in B : \A d \in B : ticket[c] <= ticket[d]
  <2> DEFINE rank == [d \in B |-> ticket[d]]
  <2>1. B # {} /\ rank \in [B -> Nat]
    BY <1>1
  <2>2. PICK x \in B : \A y \in B : rank[x] <= rank[y]
    <3> HIDE DEF B, rank
    <3> QED BY <2>1, LeastRank
  <2> QED BY <2>2
<1>4. c \in Calls /\ Active(c) /\ Depth[KeyOf[c]] = Depth[KeyOf[b]]
  OBVIOUS
<1>5. CASE pc[c] = "queued"
  <2>1. ASSUME prev[c] # NoCall, pc[prev[c]] # "done" PROVE FALSE
    <3>1. prev[c] \in Calls /\ SameScope(prev[c], c) /\ ticket[prev[c]] < ticket[c] /\ Active(prev[c])
      BY <1>4, <1>5, <2>1 DEF WaitInv, Alive, Active, LockInv, TypeOK
    <3>2. prev[c] \in B
      BY <1>4, <3>1 DEF SameScope
    <3> QED BY <1>1, <1>3, <3>1, <3>2
  <2> QED BY <1>4, <1>5, <2>1 DEF CanGoOn, Resolved
<1>6. CASE pc[c] = "run"
  <2>1. ASSUME NEW d \in Calls, Parent[d] = c, Active(d) PROVE FALSE
    <3>1. Depth[KeyOf[d]] < Depth[KeyOf[c]]
      BY <1>4, <2>1, LockAssumption DEF NestsDownward
    <3>2. d \in A
      BY <2>1
    <3> QED BY <1>1, <1>2, <1>4, <3>1, <3>2
  <2> QED BY <1>4, <1>6, <2>1 DEF CanGoOn
<1> QED BY <1>4, <1>5, <1>6 DEF CanGoOn, Active

\* Locks taken inside locks never all wait for each other when they are taken
\* in one order, for any calls, crashes and lock files.
THEOREM DeadlockFreedom ==
  ASSUME NEW CONSTANT Depth, NestsDownward(Depth) PROVE Spec => []NoDeadlock
<1>1. Init => WaitInv
  BY DEF Init, WaitInv
<1>2. LockInv /\ WaitInv => NoDeadlock
  BY SomeoneCanGoOn
<1> QED BY <1>1, <1>2, WaitStep, Invariance, PTL DEF Spec
=============================================================================
