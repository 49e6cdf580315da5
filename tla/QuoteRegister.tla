--------------------------- MODULE QuoteRegister ---------------------------
(***************************************************************************)
(* What the quote store promises: every request takes effect at one        *)
(* instant, on the list as it is at that instant.  "A mutex around         *)
(* read-modify-write makes the operation linearizable"                     *)
(* (server/utils/asyncLock.js:10-11).                                      *)
(***************************************************************************)
EXTENDS QuoteOps

CONSTANTS
    Instances,      \* the server processes
    Idle            \* no request under way

VARIABLES
    quotes,         \* the list
    pending,        \* pending[i]: the request instance i works on
    backup          \* the list in the newest backup

regVars == <<quotes, pending, backup>>

RegInit ==
    /\ quotes = EmptyList
    /\ pending = [i \in Instances |-> Idle]
    /\ backup = EmptyList

Call(i, r) ==
    /\ pending[i] = Idle
    /\ pending' = [pending EXCEPT ![i] = r]
    /\ UNCHANGED <<quotes, backup>>

\* The request takes effect.  What it reads is the list of this instant, or
\* the backup for the restore of one.
TakeEffect(i) ==
    /\ pending[i] # Idle
    /\ Saves(IF pending[i].kind = "replace" THEN backup ELSE quotes, pending[i], quotes')
    /\ pending' = [pending EXCEPT ![i] = Idle]
    /\ UNCHANGED backup

\* The request is refused, fails or is lost with its process.
Drop(i) ==
    /\ pending' = [pending EXCEPT ![i] = Idle]
    /\ UNCHANGED <<quotes, backup>>

Backup == backup' = quotes /\ UNCHANGED <<quotes, pending>>

RegNext ==
    \/ Backup
    \/ \E i \in Instances : \/ TakeEffect(i)
                            \/ Drop(i)
                            \/ \E r \in Requests : Call(i, r)

RegSpec == RegInit /\ [][RegNext]_regVars
=============================================================================
