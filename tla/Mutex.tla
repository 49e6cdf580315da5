------------------------------- MODULE Mutex -------------------------------
(***************************************************************************)
(* What a caller of withLock(key, fn) is promised (the header of           *)
(* server/utils/asyncLock.js): one fn per key and process at a time.       *)
(*                                                                         *)
(* A scope is one key in one server process.  The promise says nothing of  *)
(* how waiters are kept: AsyncLock is the detailed specification and is    *)
(* shown to implement this one.                                            *)
(***************************************************************************)
CONSTANTS
    Calls,          \* the invocations of withLock
    Procs,          \* the server processes
    ProcOf(_),      \* the process that makes a call
    KeyOf(_)        \* the key a call locks

VARIABLE stage      \* stage[c]: how far call c has come

Stages == {"idle", "waiting", "critical", "ended"}

SameScope(c, d) == ProcOf(c) = ProcOf(d) /\ KeyOf(c) = KeyOf(d)

Init == stage = [c \in Calls |-> "idle"]

\* A caller asks for the lock.
Request(c) ==
    /\ stage[c] = "idle"
    /\ stage' = [stage EXCEPT ![c] = "waiting"]

\* The lock is given to a waiter while nobody of its scope is inside.
Grant(c) ==
    /\ stage[c] = "waiting"
    /\ \A d \in Calls : SameScope(c, d) => stage[d] # "critical"
    /\ stage' = [stage EXCEPT ![c] = "critical"]

\* fn has returned or thrown and the lock is free again.
End(c) ==
    /\ stage[c] = "critical"
    /\ stage' = [stage EXCEPT ![c] = "ended"]

\* The process dies with every call it had under way.
Crash(p) ==
    stage' = [c \in Calls |->
                IF ProcOf(c) = p /\ stage[c] # "idle" THEN "ended" ELSE stage[c]]

Next ==
    \/ \E c \in Calls : Request(c) \/ Grant(c) \/ End(c)
    \/ \E p \in Procs : Crash(p)

Spec == Init /\ [][Next]_stage
=============================================================================
