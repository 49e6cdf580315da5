---------------------------- MODULE MCAsyncLock ----------------------------
(* Two processes.  On the first an approval (quote:1) that awaits a         *)
(* notification append, and two more appends: three calls of one key are    *)
(* what it takes for a call that ends, one that waits and one that comes to *)
(* meet at the Map entry.  On the second process an approval of the same    *)
(* quote: the two contend for the lock file.                                *)
EXTENDS AsyncLock

CONSTANTS p1, p2, a1, n1, n2, n3, a2

MCProcs == {p1, p2}
MCKeys  == {"quote:1", "notifications"}
MCCalls == {a1, n1, n2, n3, a2}
MCProcOf == [c \in MCCalls |-> IF c = a2 THEN p2 ELSE p1]
MCKeyOf  == [c \in MCCalls |->
               IF c \in {a1, a2} THEN "quote:1" ELSE "notifications"]
MCParent == [c \in MCCalls |-> IF c = n1 THEN a1 ELSE NoCall]
=============================================================================
