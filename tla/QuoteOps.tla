------------------------------ MODULE QuoteOps ------------------------------
(***************************************************************************)
(* What each write request makes of the quote list: the pure part of the   *)
(* quote routes (server/routes/costApi.js, server/routes/shared.js) and of *)
(* upsertQuote (server/repositories/quotesStore.js).                       *)
(*                                                                         *)
(* A quote keeps of its data what requests can tell apart: `_version`, the *)
(* content a client edits, the approval status inside state.approval, and  *)
(* whether deleted_at is set.  The list is a function from ids; Absent     *)
(* stands for an id no row has.                                            *)
(***************************************************************************)
EXTENDS Naturals

CONSTANTS
    MaxId,          \* bound on the ids that are given out
    MaxVersion,     \* bound on _version
    Contents,       \* what a client can put in a quote
    NoContent,      \* a row nobody ever sent a state for
    Statuses,       \* the approval statuses in use
    NoVersion,      \* a request without _version
    Absent

ASSUME BoundAssumption == MaxId \in Nat /\ MaxVersion \in Nat \ {0}

ASSUME QuoteAssumption ==
    /\ "draft" \in Statuses
    /\ NoContent \notin Contents
    /\ NoVersion \notin Nat

Ids == 1..MaxId

Quote == [version : Nat, content : Contents \cup {NoContent},
          status : Statuses, trashed : BOOLEAN]

ASSUME AbsentAssumption == Absent \notin Quote

Lists == [Ids -> Quote \cup {Absent}]

EmptyList == [id \in Ids |-> Absent]

-----------------------------------------------------------------------------
(* Definitions named ...Fault are what a plausible mistake in the code would *)
(* make of the definition they precede; no specification uses them.          *)
(*                                                                           *)
(* Requests.  "post", "patch", "trash" and "restore" are the routes that go  *)
(* through upsertQuote; "transition" is the approval route; "purge" the      *)
(* permanent delete; "replace" the restore of a backup.                      *)
LockedKinds == {"post", "patch", "trash", "restore"}
Kinds == LockedKinds \cup {"transition", "purge", "replace"}

\* Each kind fills the fields it sends; the others have a fixed value.
Requests ==
    {r \in [kind : Kinds, id : 0..MaxId, content : Contents \cup {NoContent},
            status : Statuses, expect : (0..MaxVersion) \cup {NoVersion}] :
        /\ r.id = 0 <=> r.kind \in {"post", "replace"}
        /\ r.content # NoContent <=> r.kind \in {"post", "patch"}
        /\ r.status # "draft" => r.kind \in {"post", "patch", "transition"}
        /\ r.expect # NoVersion => r.kind = "patch"}

\* max(id) + 1 over the list (quotesStore.js:268-271).
IsNextId(list, n) ==
    /\ \A m \in Ids : list[m] # Absent => m < n
    /\ n > 1 => list[n - 1] # Absent

\* The version is not the one the caller expected; a caller that sends no
\* `_version` opts out of the check.
Conflict(list, r) == r.expect # NoVersion /\ r.expect # list[r.id].version

\* Saving without bumping `_version`.
RevisedFault(q, r) ==
    CASE r.kind = "patch" -> [q EXCEPT !.content = r.content, !.status = r.status]
      [] OTHER            -> [q EXCEPT !.trashed = (r.kind = "trash")]

\* {...existing, ...incoming, _version: serverVersion + 1}: a patch carries
\* the client's whole state, trash and restore only the deletion marks.
Revised(q, r) ==
    CASE r.kind = "patch" -> [q EXCEPT !.version = q.version + 1,
                                       !.content = r.content, !.status = r.status]
      [] OTHER            -> [q EXCEPT !.version = q.version + 1,
                                       !.trashed = (r.kind = "trash")]

\* The new row without its `_version`.
CreatedFault(r) ==
    [content |-> r.content, status |-> r.status, trashed |-> (r.kind = "trash")]

\* {...incoming, id, _version: 1}: the row an id gets that had none.
Created(r) ==
    CASE r.kind \in {"post", "patch"} ->
            [version |-> 1, content |-> r.content, status |-> r.status, trashed |-> FALSE]
      [] OTHER ->
            [version |-> 1, content |-> NoContent, status |-> "draft",
             trashed |-> (r.kind = "trash")]

\* The synchronous body of upsertQuote; new is the list it saves.
Upserts(list, r, new) ==
    \/ /\ r.kind = "post"
       /\ \E n \in Ids : IsNextId(list, n) /\ new = [list EXCEPT ![n] = Created(r)]
    \/ /\ r.kind \in {"patch", "trash", "restore"}
       /\ list[r.id] = Absent
       /\ new = [list EXCEPT ![r.id] = Created(r)]
    \/ /\ r.kind \in {"patch", "trash", "restore"}
       /\ list[r.id] # Absent
       /\ ~Conflict(list, r)
       /\ new = [list EXCEPT ![r.id] = Revised(list[r.id], r)]

\* POST /approvals/:id/transition: sets state.approval, keeps _version; a
\* missing quote is a 404 and an unchanged status a 400.
Transitions(list, r, new) ==
    /\ r.kind = "transition"
    /\ list[r.id] # Absent
    /\ list[r.id].status # r.status
    /\ new = [list EXCEPT ![r.id].status = r.status]

\* DELETE /quotes/:id?purge=1.
Purges(list, r, new) ==
    /\ r.kind = "purge"
    /\ list[r.id] # Absent
    /\ new = [list EXCEPT ![r.id] = Absent]

\* restoreFromSnapshot: the list read from the backup is written as it is.
Replaces(list, r, new) == r.kind = "replace" /\ new = list

\* Request r, read against list, saves the list new.
Saves(list, r, new) ==
    \/ Upserts(list, r, new)
    \/ Transitions(list, r, new)
    \/ Purges(list, r, new)
    \/ Replaces(list, r, new)

\* The bounds leave room to answer r: an id for a new quote, a next version.
WithinBounds(list, r) ==
    /\ r.kind = "post" => \E n \in Ids : IsNextId(list, n)
    /\ r.kind \in {"patch", "trash", "restore"} /\ list[r.id] # Absent
         => list[r.id].version < MaxVersion

\* Request r is answered 404, 400 or 409 and saves nothing.
Refused(list, r) ==
    \/ r.kind = "patch" /\ list[r.id] # Absent /\ Conflict(list, r)
    \/ r.kind = "transition" /\ (list[r.id] # Absent => list[r.id].status = r.status)
    \/ r.kind = "purge" /\ list[r.id] = Absent
=============================================================================
