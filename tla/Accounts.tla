------------------------------ MODULE Accounts -------------------------------
(***************************************************************************)
(* Accounts and sessions of one server process: users.json, the sessions   *)
(* in memory and their copy in sessions.json, and the routes that change   *)
(* them (server/services/authService.js, the auth routes of                *)
(* server/routes/costApi.js).                                              *)
(*                                                                         *)
(* Login, creating a user and resetting a password read the whole list,    *)
(* await a password hash, and write the list they read.  Changing one's    *)
(* own password goes through updateUsers, which reads the list again under *)
(* withLock('users').  The other routes do not await.  A change of the     *)
(* sessions is written at once when it ends one and within 2 s when it     *)
(* opens one; with OPS_PERSIST_SESSIONS=1 they are read back at boot.      *)
(*                                                                         *)
(* Accounts here have no second factor, and their password is hashed with  *)
(* bcrypt already.  Passwords and roles are numbered by the change that    *)
(* set them; a session is its user, its machine and the number of its      *)
(* token.                                                                  *)
(***************************************************************************)
EXTENDS Integers, FiniteSets

CONSTANTS
    MaxUsers,       \* bound on the ids of users
    Machines,
    Requests,       \* requests that may await at once
    Idle,
    Absent,         \* no user with that id
    Restores,       \* OPS_PERSIST_SESSIONS=1
    MayFail,        \* users.json and sessions.json may refuse a write
    MaxTokens,      \* bound on the sessions opened
    MaxChanges      \* bound on the passwords and roles set

ASSUME AccountsAssumption ==
    /\ MaxUsers \in Nat \ {0}
    /\ Restores \in BOOLEAN
    /\ MayFail \in BOOLEAN
    /\ MaxTokens \in Nat
    /\ MaxChanges \in Nat

VARIABLES
    users,          \* users.json: users[u], Absent or a record
    sessions,       \* _sessions
    disk,           \* sessions.json
    timer,          \* a write of it is due
    req,            \* req[r]: a request between two of its steps
    tokens,         \* tokens given out so far
    changes,        \* passwords and roles set so far
    acked,          \* the list as the answers to its changes have it (history)
    dead,           \* tokens that were ended (history)
    unsaved         \* those of them whose end was not written (history)

userVars == <<users, changes, acked>>
sessionVars == <<sessions, disk, timer, tokens, dead, unsaved>>
vars == <<userVars, sessionVars, req>>

Ids == 1..MaxUsers
Changes == 0..MaxChanges
Tokens == 1..MaxTokens
Users == [pwd : Changes, role : Changes]
Lists == [Ids -> Users \cup {Absent}]
Sessions == [tok : Tokens, user : Ids, machine : Machines]

Awaiting ==
    [kind : {"login"}, list : Lists, user : Ids, machine : Machines]
    \cup [kind : {"create"}, list : Lists]
    \cup [kind : {"reset"}, list : Lists, user : Ids]
    \cup [kind : {"change", "changed"}, user : Ids, tok : Tokens]

ASSUME AccountsIdleAssumption == Idle \notin Awaiting /\ Absent \notin Users

TypeOK ==
    /\ users \in Lists
    /\ sessions \in SUBSET Sessions
    /\ disk \in SUBSET Sessions
    /\ timer \in BOOLEAN
    /\ req \in [Requests -> Awaiting \cup {Idle}]
    /\ tokens \in 0..MaxTokens
    /\ changes \in Changes
    /\ acked \in Lists
    /\ dead \in SUBSET Tokens
    /\ unsaved \in SUBSET Tokens

-----------------------------------------------------------------------------
Of(u) == {s \in sessions : s.user = u}
Toks(set) == {s.tok : s \in set}
At(r, kind) == req[r] # Idle /\ req[r].kind = kind
Ends(r) == req' = [req EXCEPT ![r] = Idle]
Awaits(r, what) == req[r] = Idle /\ req' = [req EXCEPT ![r] = what]

Init ==
    /\ users = [u \in Ids |-> IF u = 1 THEN [pwd |-> 0, role |-> 0] ELSE Absent]
    /\ sessions = {}
    /\ disk = {}
    /\ timer = FALSE
    /\ req = [r \in Requests |-> Idle]
    /\ tokens = 0
    /\ changes = 0
    /\ acked = users
    /\ dead = {}
    /\ unsaved = {}

\* What is kept of the sessions is written; the write may be refused, which
\* is only logged.
Writes(kept, ended) ==
    /\ timer' = FALSE
    /\ \/ disk' = kept /\ unsaved' = {}
       \/ MayFail /\ unsaved' = unsaved \cup ended /\ UNCHANGED disk

\* Ending a session leaves the write to the timer.
EndFault(ended) ==
    /\ sessions' = sessions \ ended
    /\ dead' = dead \cup Toks(ended)
    /\ timer' = TRUE
    /\ UNCHANGED <<disk, unsaved, tokens>>

\* deleteSession, revokeSessionsForUser: persistSessionsNow.
End(ended) ==
    /\ sessions' = sessions \ ended
    /\ dead' = dead \cup Toks(ended)
    /\ IF ended = {} THEN UNCHANGED <<timer, disk, unsaved>>
       ELSE Writes(sessions \ ended, Toks(ended))
    /\ UNCHANGED tokens

\* The debounced write of the sessions.
Flush ==
    /\ timer
    /\ Writes(sessions, {})
    /\ UNCHANGED <<userVars, sessions, tokens, dead, req>>

\* A list is written as it was read, with a change of one user.
SavesList(list, u, rec) ==
    /\ users' = [list EXCEPT ![u] = rec]
    /\ acked' = [acked EXCEPT ![u] = rec]
    /\ changes' = changes + 1

\* POST /auth/login, up to the password check.
Login(r, u, m) ==
    /\ users[u] # Absent
    /\ Awaits(r, [kind |-> "login", list |-> users, user |-> u, machine |-> m])
    /\ UNCHANGED <<userVars, sessionVars>>

Conflict(u, m) == \E s \in Of(u) : s.machine # m

\* A login lets the sessions on other machines be.
OpenFault(u, m, ended) ==
    /\ tokens < MaxTokens
    /\ tokens' = tokens + 1
    /\ sessions' = sessions \cup {[tok |-> tokens', user |-> u, machine |-> m]}
    /\ timer' = TRUE
    /\ UNCHANGED <<disk, unsaved, dead>>

\* createSession, after the sessions it takes over from have been revoked.
Open(u, m, ended) ==
    /\ tokens < MaxTokens
    /\ tokens' = tokens + 1
    /\ sessions' = (sessions \ ended) \cup {[tok |-> tokens', user |-> u, machine |-> m]}
    /\ dead' = dead \cup Toks(ended)
    /\ timer' = TRUE
    /\ IF ended = {} THEN UNCHANGED <<disk, unsaved>>
       ELSE \/ disk' = sessions \ ended /\ unsaved' = {}
            \/ MayFail /\ unsaved' = unsaved \cup Toks(ended) /\ UNCHANGED disk

\* The password was right: a session on another machine is taken over, as it
\* is idle or the user asked to, or else the login is refused; the session is
\* opened, and the list read before the password check is written with the
\* login's time.
LoggedIn(r) ==
    /\ At(r, "login")
    /\ LET q == req[r]
           ended == IF Conflict(q.user, q.machine) THEN Of(q.user) ELSE {}
       IN /\ Open(q.user, q.machine, ended)
          /\ \/ users' = q.list
             \/ MayFail /\ UNCHANGED users
    /\ Ends(r)
    /\ UNCHANGED <<changes, acked>>

\* A request ends without effect: wrong password, 409 session_conflict, a
\* list that could not be written.
Refused(r) ==
    /\ req[r] # Idle
    /\ req[r].kind # "changed"
    /\ Ends(r)
    /\ UNCHANGED <<userVars, sessionVars>>

\* POST /auth/logout.
Logout ==
    /\ \E s \in sessions : End({s})
    /\ UNCHANGED <<userVars, req>>

\* POST /auth/users.
Create(r) ==
    /\ Awaits(r, [kind |-> "create", list |-> users])
    /\ UNCHANGED <<userVars, sessionVars>>

\* max + 1 over the list.
IsNewId(u, list) ==
    /\ \A v \in Ids : list[v] # Absent => v < u
    /\ u > 1 => list[u - 1] # Absent

Created(r) ==
    /\ At(r, "create")
    /\ changes < MaxChanges
    /\ \E u \in Ids :
         /\ IsNewId(u, req[r].list)
         /\ SavesList(req[r].list, u, [pwd |-> changes + 1, role |-> changes + 1])
    /\ Ends(r)
    /\ UNCHANGED sessionVars

\* POST /auth/users/:id/reset-pwd, temp-pwd.
Reset(r, u) ==
    /\ users[u] # Absent
    /\ Awaits(r, [kind |-> "reset", list |-> users, user |-> u])
    /\ UNCHANGED <<userVars, sessionVars>>

\* The user's record is replaced by its new password.
WasResetFault(r) ==
    /\ At(r, "reset")
    /\ changes < MaxChanges
    /\ users' = [req[r].list EXCEPT ![req[r].user] = [pwd |-> changes + 1]]
    /\ changes' = changes + 1
    /\ End(Of(req[r].user))
    /\ Ends(r)
    /\ UNCHANGED acked

WasReset(r) ==
    /\ At(r, "reset")
    /\ changes < MaxChanges
    /\ LET q == req[r]
       IN /\ users' = [q.list EXCEPT ![q.user].pwd = changes + 1]
          /\ acked' = [acked EXCEPT ![q.user] =
                         IF @ = Absent THEN Absent ELSE [@ EXCEPT !.pwd = changes + 1]]
          /\ End(Of(q.user))
    /\ changes' = changes + 1
    /\ Ends(r)

\* POST /auth/change-pwd, up to the new hash.
ChangePwd(r, s) ==
    /\ users[s.user] # Absent
    /\ Awaits(r, [kind |-> "change", user |-> s.user, tok |-> s.tok])
    /\ UNCHANGED <<userVars, sessionVars>>

\* updateUsers: the list is read under the lock that its write is under.
PwdChanged(r) ==
    /\ At(r, "change")
    /\ changes < MaxChanges
    /\ users[req[r].user] # Absent
    /\ SavesList(users, req[r].user, [users[req[r].user] EXCEPT !.pwd = changes + 1])
    /\ req' = [req EXCEPT ![r].kind = "changed"]
    /\ UNCHANGED sessionVars

\* The user's other sessions are revoked once the lock is given back.
OthersRevoked(r) ==
    /\ At(r, "changed")
    /\ End({s \in Of(req[r].user) : s.tok # req[r].tok})
    /\ Ends(r)
    /\ UNCHANGED userVars

\* PUT /auth/users/:id: a new role ends the user's sessions, then the list
\* is written or refused.
SetRole(u) ==
    /\ users[u] # Absent
    /\ changes < MaxChanges
    /\ End(Of(u))
    /\ \/ SavesList(users, u, [users[u] EXCEPT !.role = changes + 1])
       \/ MayFail /\ UNCHANGED userVars
    /\ UNCHANGED req

\* DELETE /auth/users/:id, never one's own account.
Delete(u) ==
    /\ users[u] # Absent
    /\ \E v \in Ids \ {u} : users[v] # Absent
    /\ changes < MaxChanges
    /\ SavesList(users, u, Absent)
    /\ End(Of(u))
    /\ UNCHANGED req

\* The process dies and starts again: init restores the sessions or wipes
\* their file.
Restart ==
    /\ sessions' = (IF Restores THEN disk ELSE {})
    /\ disk' = (IF Restores THEN disk ELSE {})
    /\ timer' = FALSE
    /\ req' = [r \in Requests |-> Idle]
    /\ dead' = dead \ unsaved
    /\ unsaved' = {}
    /\ UNCHANGED <<userVars, tokens>>

Next ==
    \/ Flush
    \/ \E r \in Requests :
         \/ \E u \in Ids : \/ \E m \in Machines : Login(r, u, m)
                           \/ Reset(r, u)
         \/ \E s \in sessions : ChangePwd(r, s)
         \/ Create(r)
         \/ LoggedIn(r) \/ Refused(r) \/ Created(r) \/ WasReset(r)
         \/ PwdChanged(r) \/ OthersRevoked(r)
    \/ Logout
    \/ \E u \in Ids : SetRole(u) \/ Delete(u)
    \/ Restart

Spec == Init /\ [][Next]_vars

-----------------------------------------------------------------------------
\* A session that was ended, by a logout, a takeover, a new password or role,
\* is not valid again, not even after a crash within the 2 s of a late write,
\* unless the write of its end was refused (authService.js:225-228, 844-849,
\* 899-901).
RevokedStaysOut == dead \cap Toks(sessions) = {}

\* A user is at work on one machine only: however logins overlap, the check
\* for another session and the opening of one's own are one step, and what is
\* restored after a crash was once so (authService.js:904-912).
OneMachine == \A s, t \in sessions : s.user = t.user => s.machine = t.machine

\* What the answers to changes of users.json have told is what it holds, since
\* every path that changes it goes through updateUsers, "like every other
\* user-mutating path in the file" (costApi.js:3948-3951, authService.js:618-632).
\* The code breaks it: a login writes the list it read before its password
\* check (costApi.js:865-982), and so do the other routes that await.
AcknowledgedStands == users = acked
=============================================================================
