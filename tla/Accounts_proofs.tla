--------------------------- MODULE Accounts_proofs ---------------------------
(***************************************************************************)
(* What ends a session ends it for good, and a user is at work on one      *)
(* machine: for every number of users, machines and requests, and whether  *)
(* or not sessions are restored and files refuse writes.                   *)
(***************************************************************************)
EXTENDS Accounts, TLAPS

\* Sets of sessions whose tokens have been given out, each once.
Issued(set, given) ==
    /\ \A s \in set : s.tok <= given
    /\ \A s, t \in set : s.tok = t.tok => s = t

Together(set) == \A s, t \in set : s.user = t.user => s.machine = t.machine

\* Sessions live and on disk, the tokens given, those ended, and those of
\* them whose end did not reach the disk.
SessionsGood(live, kept, given, ended, missed) ==
    /\ Issued(live, given)
    /\ Issued(kept, given)
    /\ \A tok \in ended : tok <= given
    /\ \A s \in live : s.tok \notin ended
    /\ \A s \in kept : s.tok \in ended => s.tok \in missed
    /\ Together(live)
    /\ Together(kept)

SessionsInv == SessionsGood(sessions, disk, tokens, dead, unsaved)

\* A reset is of a user its list has.
ResetsInv ==
    \A r \in Requests : At(r, "reset") => req[r].list[req[r].user] # Absent

AccountsInv == TypeOK /\ SessionsInv /\ ResetsInv

-----------------------------------------------------------------------------
\* The parts of a request, by its kind.
LEMMA AwaitingParts ==
  ASSUME TypeOK, NEW r \in Requests, NEW kind, At(r, kind)
  PROVE  /\ req[r] \in Awaiting
         /\ kind = "login" => /\ req[r].list \in Lists
                              /\ req[r].user \in Ids /\ req[r].machine \in Machines
         /\ kind = "create" => req[r].list \in Lists
         /\ kind = "reset" => req[r].list \in Lists /\ req[r].user \in Ids
         /\ kind \in {"change", "changed"} => req[r].user \in Ids /\ req[r].tok \in Tokens
  BY DEF TypeOK, At, Awaiting

\* End keeps the types of the sessions.
LEMMA EndType ==
  ASSUME TypeOK, NEW ended \in SUBSET sessions, End(ended)
  PROVE  /\ sessions' \in SUBSET Sessions /\ disk' \in SUBSET Sessions /\ timer' \in BOOLEAN
         /\ dead' \in SUBSET Tokens /\ unsaved' \in SUBSET Tokens /\ tokens' = tokens
<1>1. Toks(ended) \in SUBSET Tokens
  BY DEF TypeOK, Toks, Sessions
<1> QED BY <1>1 DEF TypeOK, End, Writes

LEMMA SavesListType ==
  ASSUME TypeOK, NEW list \in Lists, NEW u \in Ids, NEW rec \in Users \cup {Absent},
         SavesList(list, u, rec), changes < MaxChanges
  PROVE  users' \in Lists /\ acked' \in Lists /\ changes' \in Changes
  BY AccountsAssumption DEF TypeOK, SavesList, Lists, Changes

\* A step of a request that ends it.
LEMMA EndsType ==
  ASSUME TypeOK, NEW r \in Requests, Ends(r)
  PROVE  req' \in [Requests -> Awaiting \cup {Idle}]
  BY DEF TypeOK, Ends

LEMMA TypeStep == ASSUME TypeOK, ResetsInv, [Next]_vars PROVE TypeOK'
<1> USE AccountsAssumption, AccountsIdleAssumption
<1>1. CASE Flush
  BY <1>1 DEF Flush, Writes, TypeOK, userVars
<1>2. ASSUME NEW r \in Requests, NEW u \in Ids, NEW m \in Machines, Login(r, u, m)
      PROVE  TypeOK'
  <2>1. [kind |-> "login", list |-> users, user |-> u, machine |-> m] \in Awaiting
    BY DEF TypeOK, Awaiting
  <2> QED BY <1>2, <2>1 DEF Login, Awaits, TypeOK, userVars, sessionVars
<1>3. ASSUME NEW r \in Requests, NEW u \in Ids, Reset(r, u) PROVE TypeOK'
  <2>1. [kind |-> "reset", list |-> users, user |-> u] \in Awaiting
    BY DEF TypeOK, Awaiting
  <2> QED BY <1>3, <2>1 DEF Reset, Awaits, TypeOK, userVars, sessionVars
<1>4. ASSUME NEW r \in Requests, NEW s \in sessions, ChangePwd(r, s) PROVE TypeOK'
  <2>1. [kind |-> "change", user |-> s.user, tok |-> s.tok] \in Awaiting
    BY DEF TypeOK, Awaiting, Sessions
  <2> QED BY <1>4, <2>1 DEF ChangePwd, Awaits, TypeOK, userVars, sessionVars
<1>5. ASSUME NEW r \in Requests, Create(r) PROVE TypeOK'
  <2>1. [kind |-> "create", list |-> users] \in Awaiting
    BY DEF TypeOK, Awaiting
  <2> QED BY <1>5, <2>1 DEF Create, Awaits, TypeOK, userVars, sessionVars
<1>6. ASSUME NEW r \in Requests, LoggedIn(r) PROVE TypeOK'
  <2>1. At(r, "login") /\ req[r].list \in Lists
        /\ req[r].user \in Ids /\ req[r].machine \in Machines
    BY <1>6, AwaitingParts DEF LoggedIn
  <2>2. PICK ended \in SUBSET sessions : Open(req[r].user, req[r].machine, ended)
    BY <1>6 DEF LoggedIn, Of
  <2>3. tokens' \in Tokens /\ tokens' \in 0..MaxTokens
    BY <2>2 DEF Open, TypeOK, Tokens
  <2>4. [tok |-> tokens', user |-> req[r].user, machine |-> req[r].machine] \in Sessions
    BY <2>1, <2>3 DEF Sessions
  <2>5. Toks(ended) \in SUBSET Tokens
    BY DEF TypeOK, Toks, Sessions
  <2>6. /\ sessions' \in SUBSET Sessions /\ disk' \in SUBSET Sessions /\ timer' \in BOOLEAN
        /\ dead' \in SUBSET Tokens /\ unsaved' \in SUBSET Tokens
    BY <2>2, <2>4, <2>5 DEF Open, TypeOK
  <2>7. users' \in Lists
    BY <1>6, <2>1 DEF LoggedIn, TypeOK
  <2> QED BY <1>6, <2>3, <2>6, <2>7, EndsType DEF LoggedIn, TypeOK
<1>7. ASSUME NEW r \in Requests, Refused(r) PROVE TypeOK'
  BY <1>7, EndsType DEF Refused, TypeOK, userVars, sessionVars
<1>8. ASSUME NEW r \in Requests, Created(r) PROVE TypeOK'
  <2>1. req[r].list \in Lists
    BY <1>8, AwaitingParts DEF Created
  <2>2. [pwd |-> changes + 1, role |-> changes + 1] \in Users
    BY <1>8 DEF Created, TypeOK, Users, Changes
  <2> QED BY <1>8, <2>1, <2>2, SavesListType, EndsType DEF Created, TypeOK, sessionVars
<1>9. ASSUME NEW r \in Requests, WasReset(r) PROVE TypeOK'
  <2>1. At(r, "reset") /\ req[r].list \in Lists /\ req[r].user \in Ids
    BY <1>9, AwaitingParts DEF WasReset
  <2>2. changes' \in Changes /\ changes + 1 \in Changes
    BY <1>9 DEF WasReset, TypeOK, Changes
  <2>3. req[r].list[req[r].user] \in Users
    BY <2>1 DEF ResetsInv, Lists
  <2>4. [req[r].list[req[r].user] EXCEPT !.pwd = changes + 1] \in Users
    BY <2>2, <2>3 DEF Users
  <2>5. users' = [req[r].list EXCEPT ![req[r].user] =
                    [req[r].list[req[r].user] EXCEPT !.pwd = changes + 1]]
    BY <1>9 DEF WasReset
  <2>6. users' \in Lists
    BY <2>1, <2>4, <2>5 DEF Lists
  <2>7. acked[req[r].user] # Absent => [acked[req[r].user] EXCEPT !.pwd = changes + 1] \in Users
    BY <2>1, <2>2 DEF TypeOK, Lists, Users
  <2>8. acked' \in Lists
    BY <1>9, <2>1, <2>7 DEF WasReset, TypeOK, Lists
  <2>9. Of(req[r].user) \in SUBSET sessions /\ End(Of(req[r].user))
    BY <1>9 DEF WasReset, Of
  <2> QED BY <1>9, <2>2, <2>6, <2>8, <2>9, EndType, EndsType DEF WasReset, TypeOK
<1>10. ASSUME NEW r \in Requests, PwdChanged(r) PROVE TypeOK'
  <2>1. req[r].user \in Ids /\ req[r].tok \in Tokens /\ req[r] \in Awaiting /\ At(r, "change")
    BY <1>10, AwaitingParts DEF PwdChanged
  <2>2. [users[req[r].user] EXCEPT !.pwd = changes + 1] \in Users
    BY <1>10, <2>1 DEF PwdChanged, TypeOK, Lists, Users, Changes
  <2>3. users' \in Lists /\ acked' \in Lists /\ changes' \in Changes
    BY <1>10, <2>1, <2>2, SavesListType DEF PwdChanged, TypeOK
  <2>4. [req[r] EXCEPT !.kind = "changed"] \in Awaiting
    BY <2>1 DEF Awaiting, At
  <2>5. req' = [req EXCEPT ![r] = [req[r] EXCEPT !.kind = "changed"]]
    BY <1>10 DEF PwdChanged
  <2> QED BY <1>10, <2>3, <2>4, <2>5 DEF PwdChanged, TypeOK, sessionVars
<1>11. ASSUME NEW r \in Requests, OthersRevoked(r) PROVE TypeOK'
  <2>1. {s \in Of(req[r].user) : s.tok # req[r].tok} \in SUBSET sessions
    BY DEF Of
  <2> QED BY <1>11, <2>1, EndType, EndsType DEF OthersRevoked, TypeOK, userVars
<1>12. CASE Logout
  <2>1. PICK s \in sessions : End({s})
    BY <1>12 DEF Logout
  <2> QED BY <1>12, <2>1, EndType DEF Logout, TypeOK, userVars
<1>13. ASSUME NEW u \in Ids, SetRole(u) PROVE TypeOK'
  <2>1. [users[u] EXCEPT !.role = changes + 1] \in Users
    BY <1>13 DEF SetRole, TypeOK, Lists, Users, Changes
  <2>2. Of(u) \in SUBSET sessions
    BY DEF Of
  <2>3. users' \in Lists /\ acked' \in Lists /\ changes' \in Changes
    BY <1>13, <2>1, SavesListType DEF SetRole, TypeOK, userVars
  <2> QED BY <1>13, <2>2, <2>3, EndType DEF SetRole, TypeOK
<1>14. ASSUME NEW u \in Ids, Delete(u) PROVE TypeOK'
  <2>1. Of(u) \in SUBSET sessions
    BY DEF Of
  <2>2. users' \in Lists /\ acked' \in Lists /\ changes' \in Changes
    BY <1>14, SavesListType DEF Delete, TypeOK
  <2> QED BY <1>14, <2>1, <2>2, EndType DEF Delete, TypeOK
<1>15. CASE Restart
  BY <1>15 DEF Restart, TypeOK, userVars
<1>16. CASE UNCHANGED vars
  BY <1>16 DEF vars, userVars, sessionVars, TypeOK
<1> QED BY <1>1, <1>2, <1>3, <1>4, <1>5, <1>6, <1>7, <1>8, <1>9, <1>10, <1>11,
           <1>12, <1>13, <1>14, <1>15, <1>16 DEF Next

-----------------------------------------------------------------------------
\* Ending sessions and writing what is left, or not.
LEMMA EndedGood ==
  ASSUME NEW live, NEW kept, NEW given, NEW ended, NEW missed, NEW set,
         SessionsGood(live, kept, given, ended, missed), set \subseteq live
  PROVE  /\ SessionsGood(live \ set, live \ set, given, ended \cup Toks(set), {})
         /\ SessionsGood(live \ set, kept, given, ended \cup Toks(set), missed \cup Toks(set))
<1>1. \A tok \in Toks(set) : tok <= given
  BY DEF SessionsGood, Issued, Toks
<1>2. \A s \in live \ set : s.tok \notin Toks(set)
  BY DEF SessionsGood, Issued, Toks
<1> QED BY <1>1, <1>2 DEF SessionsGood, Issued, Together

\* End keeps the sessions good.
LEMMA EndGood ==
  ASSUME SessionsInv, NEW ended \in SUBSET sessions, End(ended)
  PROVE  SessionsInv'
<1>1. CASE ended = {}
  <2>1. Toks(ended) = {} /\ sessions' = sessions /\ dead' = dead
    BY <1>1 DEF End, Toks
  <2> QED BY <1>1, <2>1 DEF End, SessionsInv
<1>2. CASE ended # {}
  <2> DEFINE left == sessions \ ended
  <2>1. SessionsGood(sessions, disk, tokens, dead, unsaved)
    BY DEF SessionsInv
  <2>2. /\ SessionsGood(left, left, tokens, dead \cup Toks(ended), {})
        /\ SessionsGood(left, disk, tokens, dead \cup Toks(ended), unsaved \cup Toks(ended))
    BY <2>1, EndedGood
  <2>3. /\ sessions' = left /\ dead' = dead \cup Toks(ended) /\ tokens' = tokens
        /\ \/ disk' = left /\ unsaved' = {}
           \/ disk' = disk /\ unsaved' = unsaved \cup Toks(ended)
    BY <1>2 DEF End, Writes
  <2> HIDE DEF left
  <2> QED BY <2>2, <2>3 DEF SessionsInv
<1> QED BY <1>1, <1>2

\* A session with a new token joins: nobody else is at work for its user.
LEMMA OpenedGood ==
  ASSUME NEW live, NEW kept, NEW given \in Nat, NEW ended, NEW missed,
         NEW s, s.tok = given + 1,
         \A t \in live \cup kept : t.tok \in Nat,
         \A tok \in ended : tok \in Nat,
         SessionsGood(live, kept, given, ended, missed),
         \A t \in live : t.user = s.user => t.machine = s.machine
  PROVE  SessionsGood(live \cup {s}, kept, given + 1, ended, missed)
<1>1. Issued(live \cup {s}, given + 1)
  BY DEF SessionsGood, Issued
<1>2. Issued(kept, given + 1)
  BY DEF SessionsGood, Issued
<1>3. \A tok \in ended : tok <= given + 1 /\ tok # s.tok
  BY DEF SessionsGood
<1>4. Together(live \cup {s})
  BY DEF SessionsGood, Together
<1> QED BY <1>1, <1>2, <1>3, <1>4 DEF SessionsGood

\* Opening a session after ending those it takes over from.
LEMMA OpenGood ==
  ASSUME TypeOK, SessionsInv, NEW u \in Ids, NEW m \in Machines,
         NEW ended, ended = (IF Conflict(u, m) THEN Of(u) ELSE {}),
         Open(u, m, ended)
  PROVE  SessionsInv'
<1> DEFINE s == [tok |-> tokens + 1, user |-> u, machine |-> m]
<1>1. /\ tokens \in Nat /\ ended \in SUBSET sessions
      /\ \A t \in sessions \cup disk : t.tok \in Nat
      /\ \A tok \in dead \cup Toks(ended) : tok \in Nat
  BY AccountsAssumption DEF TypeOK, Of, Toks, Sessions, Tokens
<1>2. \A t \in sessions \ ended : t.user = s.user => t.machine = s.machine
  BY DEF Conflict, Of
<1>3. /\ tokens' = tokens + 1 /\ sessions' = (sessions \ ended) \cup {s}
      /\ dead' = dead \cup Toks(ended)
  BY DEF Open
<1>4. \/ disk' = sessions \ ended /\ unsaved' = {}
      \/ disk' = disk /\ unsaved' = unsaved \cup Toks(ended)
  BY DEF Open, Toks
<1>5. SessionsGood(sessions \ ended, disk', tokens, dead', unsaved')
  <2> DEFINE left == sessions \ ended
  <2>1. /\ SessionsGood(sessions, disk, tokens, dead, unsaved) /\ ended \subseteq sessions
    BY <1>1 DEF SessionsInv
  <2>2. /\ SessionsGood(left, left, tokens, dead \cup Toks(ended), {})
        /\ SessionsGood(left, disk, tokens, dead \cup Toks(ended), unsaved \cup Toks(ended))
    BY <2>1, EndedGood
  <2>3. \/ disk' = left /\ unsaved' = {}
        \/ disk' = disk /\ unsaved' = unsaved \cup Toks(ended)
    BY <1>4
  <2>4. SessionsGood(left, disk', tokens, dead', unsaved')
    <3> HIDE DEF left
    <3> QED BY <1>3, <2>2, <2>3
  <2> QED BY <2>4
<1>6. /\ s.tok = tokens + 1
      /\ \A t \in (sessions \ ended) \cup disk' : t.tok \in Nat
  BY <1>1, <1>4
<1> HIDE DEF s
<1>7. SessionsGood((sessions \ ended) \cup {s}, disk', tokens + 1, dead', unsaved')
  BY <1>1, <1>2, <1>3, <1>5, <1>6, OpenedGood
<1> QED BY <1>3, <1>7 DEF SessionsInv

LEMMA SessionsStep ==
  ASSUME TypeOK, SessionsInv, [Next]_vars PROVE SessionsInv'
<1>1. CASE Flush
  BY <1>1 DEF Flush, Writes, userVars, SessionsInv, SessionsGood
<1>2. ASSUME UNCHANGED sessionVars PROVE SessionsInv'
  BY <1>2 DEF sessionVars, SessionsInv
<1>3. ASSUME NEW r \in Requests, LoggedIn(r) PROVE SessionsInv'
  <2>1. req[r].user \in Ids /\ req[r].machine \in Machines
    BY <1>3, AwaitingParts DEF LoggedIn
  <2> DEFINE ended == IF Conflict(req[r].user, req[r].machine) THEN Of(req[r].user) ELSE {}
  <2>2. Open(req[r].user, req[r].machine, ended)
    BY <1>3 DEF LoggedIn
  <2> QED BY <2>1, <2>2, OpenGood
<1>4. ASSUME NEW r \in Requests, WasReset(r) \/ OthersRevoked(r) PROVE SessionsInv'
  <2>1. \E ended \in SUBSET sessions : End(ended)
    BY <1>4 DEF WasReset, OthersRevoked, Of
  <2> QED BY <2>1, EndGood
<1>5. ASSUME NEW u \in Ids, SetRole(u) \/ Delete(u) PROVE SessionsInv'
  <2>1. \E ended \in SUBSET sessions : End(ended)
    BY <1>5 DEF SetRole, Delete, Of
  <2> QED BY <2>1, EndGood
<1>6. CASE Logout
  <2>1. \E ended \in SUBSET sessions : End(ended)
    BY <1>6 DEF Logout
  <2> QED BY <2>1, EndGood
<1>7. CASE Restart
  <2>1. \A s \in sessions' : s \in disk
    BY <1>7 DEF Restart
  <2>2. /\ tokens' = tokens /\ dead' = dead \ unsaved /\ unsaved' = {}
        /\ sessions' \subseteq disk /\ disk' \subseteq disk
    BY <1>7 DEF Restart
  <2> QED BY <2>2 DEF SessionsInv, SessionsGood, Issued, Together
<1>8. CASE UNCHANGED vars
  BY <1>2, <1>8 DEF vars
<1> QED BY <1>1, <1>2, <1>3, <1>4, <1>5, <1>6, <1>7, <1>8
        DEF Next, Login, Reset, ChangePwd, Create, Refused, Created, PwdChanged

-----------------------------------------------------------------------------
\* A request starts by awaiting, and its user, list and kind stay.
LEMMA ResetsStep ==
  ASSUME TypeOK, ResetsInv, [Next]_vars PROVE ResetsInv'
<1>1. ASSUME NEW r \in Requests, NEW u \in Ids, NEW m \in Machines, Login(r, u, m)
      PROVE  ResetsInv'
  BY <1>1 DEF Login, Awaits, TypeOK, ResetsInv, At
<1>2. ASSUME NEW r \in Requests, NEW u \in Ids, Reset(r, u) PROVE ResetsInv'
  BY <1>2 DEF Reset, Awaits, TypeOK, ResetsInv, At
<1>3. ASSUME NEW r \in Requests, NEW s \in sessions, ChangePwd(r, s) PROVE ResetsInv'
  BY <1>3 DEF ChangePwd, Awaits, TypeOK, ResetsInv, At
<1>4. ASSUME NEW r \in Requests, Create(r) PROVE ResetsInv'
  BY <1>4 DEF Create, Awaits, TypeOK, ResetsInv, At
<1>5. ASSUME NEW r \in Requests, Ends(r) PROVE ResetsInv'
  BY <1>5 DEF Ends, TypeOK, ResetsInv, At
<1>6. ASSUME NEW r \in Requests, PwdChanged(r) PROVE ResetsInv'
  <2>1. req[r].kind = "change" /\ req[r] \in Awaiting
    BY <1>6, AwaitingParts DEF PwdChanged, At
  <2>2. req' = [req EXCEPT ![r] = [req[r] EXCEPT !.kind = "changed"]]
    BY <1>6 DEF PwdChanged
  <2>3. req'[r].kind = "changed" /\ \A q \in Requests \ {r} : req'[q] = req[q]
    BY <2>1, <2>2 DEF TypeOK, Awaiting
  <2> QED BY <2>3 DEF ResetsInv, At
<1>7. CASE Restart
  BY <1>7 DEF Restart, ResetsInv, At
<1>8. ASSUME UNCHANGED req PROVE ResetsInv'
  BY <1>8 DEF ResetsInv, At
<1> QED BY <1>1, <1>2, <1>3, <1>4, <1>5, <1>6, <1>7, <1>8
        DEF Next, vars, Flush, LoggedIn, Refused, Created, WasReset, OthersRevoked,
            Logout, SetRole, Delete

LEMMA AccountsInvariance == Spec => []AccountsInv
<1>1. ASSUME Init PROVE AccountsInv
  <2>1. TypeOK
    <3>1. 0 \in Changes /\ 0 \in 0..MaxTokens /\ [pwd |-> 0, role |-> 0] \in Users
      BY AccountsAssumption DEF Changes, Users
    <3>2. users \in Lists /\ acked \in Lists
      BY <1>1, <3>1 DEF Init, Lists
    <3> QED BY <1>1, <3>1, <3>2 DEF Init, TypeOK
  <2>2. SessionsInv
    BY <1>1 DEF Init, SessionsInv, SessionsGood, Issued, Together
  <2>3. ResetsInv
    BY <1>1 DEF Init, ResetsInv, At
  <2> QED BY <1>1, <2>1, <2>2, <2>3 DEF AccountsInv
<1>2. AccountsInv /\ [Next]_vars => AccountsInv'
  BY TypeStep, SessionsStep, ResetsStep DEF AccountsInv
<1> QED BY <1>1, <1>2, PTL DEF Spec

\* The variables always have their types.
THEOREM TypeInvariance == Spec => []TypeOK
<1>1. AccountsInv => TypeOK
  BY DEF AccountsInv
<1> QED BY <1>1, AccountsInvariance, PTL

\* A session that was ended is not valid again, crash or not, unless the
\* write of its end was refused.
THEOREM RevokedStaysOutInvariance == Spec => []RevokedStaysOut
<1>1. AccountsInv => RevokedStaysOut
  BY DEF AccountsInv, SessionsInv, SessionsGood, RevokedStaysOut, Toks
<1> QED BY <1>1, AccountsInvariance, PTL

\* A user is at work on one machine only.
THEOREM OneMachineInvariance == Spec => []OneMachine
<1>1. AccountsInv => OneMachine
  BY DEF AccountsInv, SessionsInv, SessionsGood, Together, OneMachine
<1> QED BY <1>1, AccountsInvariance, PTL
=============================================================================
