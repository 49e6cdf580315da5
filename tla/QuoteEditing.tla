---------------------------- MODULE QuoteEditing ----------------------------
(***************************************************************************)
(* Editing quotes: the calculator screens of the clients                   *)
(* (client/src/modules/cost/tabs/StandardCalc, ComplexCalc and             *)
(* context/calcReducer.js), the save requests they send                    *)
(* (client/src/services/api.js) and the server that answers them.          *)
(*                                                                         *)
(* A client has one CalcContext: one activeQuoteId, activeQuoteVersion and *)
(* isDirty, shared by the standard and the complex calculator, each of     *)
(* which holds a state of its own.  A save is a request under way until    *)
(* its answer is processed or the connection breaks; a request whose       *)
(* connection broke may still reach the server later.                      *)
(*                                                                         *)
(* The server is the list of QuoteOps with every request in one step,      *)
(* which is what QuoteStore is shown to implement in one process that      *)
(* reads from the file (theorem Linearizable).                             *)
(***************************************************************************)
EXTENDS QuoteOps

CONSTANTS
    Clients,
    Calcs,          \* the calculators in use, "std" and "cplx"
    CalcOf,         \* [Contents -> Calcs]: the type of a content
    Starting,       \* [Calcs -> Contents]: what an empty calculator shows
    Patient,        \* users leave the calculators alone while a save is under way
    None,           \* no save under way
    Gone            \* what a state shows was purged

ASSUME EditingAssumption ==
    /\ CalcOf \in [Contents -> Calcs]
    /\ Starting \in [Calcs -> Contents]
    /\ Patient \in BOOLEAN
    /\ Gone \notin Nat

VARIABLES
    quotes,         \* the list of the server
    screen,         \* screen[c]: activeQuoteId (0 for null), version and isDirty
    slice,          \* slice[c][k]: what calculator k of client c shows
    call,           \* call[c][k]: the save of calculator k under way, or None
    adrift,         \* requests whose client has given up on them
    resets          \* resets[c][k]: rate look-ups of New under way

vars == <<quotes, screen, slice, call, adrift, resets>>

(* History: `origin` is the quote a state was loaded from or saved as (0 for *)
(* a new one) and `seen` the content of that quote its user was last shown;  *)
(* `left` says that the calculator shows something else since the request.   *)
Screens == [active : 0..MaxId, version : 0..MaxVersion, dirty : BOOLEAN]
LiveQuote == [version : 0..MaxVersion, content : Contents,
              status : Statuses, trashed : BOOLEAN]
Slices == [content : Contents, status : Statuses,
           origin : (0..MaxId) \cup {Gone}, seen : Contents]
Messages == [req : Requests, origin : (0..MaxId) \cup {Gone}, seen : Contents]
Saving == [stage : {"sent", "saved", "refused", "conflict"}, msg : Messages,
           id : 0..MaxId, quote : LiveQuote \cup {Absent}, forced : BOOLEAN, left : BOOLEAN]

TypeOK ==
    /\ quotes \in [Ids -> LiveQuote \cup {Absent}]
    /\ screen \in [Clients -> Screens]
    /\ slice \in [Clients -> [Calcs -> Slices]]
    /\ call \in [Clients -> [Calcs -> Saving \cup {None}]]
    /\ adrift \subseteq Messages
    /\ resets \in [Clients -> [Calcs -> Nat]]

-----------------------------------------------------------------------------
\* An empty calculator without an approval status.
EmptyFault(k) == [content |-> Starting[k], origin |-> 0, seen |-> Starting[k]]

Empty(k) == [content |-> Starting[k], status |-> "draft", origin |-> 0, seen |-> Starting[k]]

Init ==
    /\ quotes = EmptyList
    /\ screen = [c \in Clients |-> [active |-> 0, version |-> 0, dirty |-> FALSE]]
    /\ slice = [c \in Clients |-> [k \in Calcs |-> Empty(k)]]
    /\ call = [c \in Clients |-> [k \in Calcs |-> None]]
    /\ adrift = {}
    /\ resets = [c \in Clients |-> [k \in Calcs |-> 0]]

\* The user can work in the calculators: no conflict dialog is open (it stays
\* open during a forced save) and, if the user is patient, no answer is awaited.
AtWork(c) == \A k \in Calcs : call[c][k] # None =>
                ~Patient /\ call[c][k].stage # "conflict" /\ ~call[c][k].forced

\* A calculator that now shows something else than what is being saved.
Leave(c, k) == IF call[c][k] = None THEN call[c][k] ELSE [call[c][k] EXCEPT !.left = TRUE]

\* LOAD_QUOTE of the quote id, with action 'load' or 'copy'; only the state
\* of its own calculator is replaced.  A copy keeps its source's approval.
Shown(q, id) == [content |-> q.content, status |-> q.status, origin |-> id, seen |-> q.content]

Open(c, id, copy) ==
    /\ AtWork(c)
    /\ quotes[id] # Absent
    /\ ~quotes[id].trashed
    /\ LET k == CalcOf[quotes[id].content] IN
         /\ slice' = [slice EXCEPT ![c][k] = Shown(quotes[id], IF copy THEN 0 ELSE id)]
         /\ call' = [call EXCEPT ![c][k] = Leave(c, k)]
    /\ screen' = [screen EXCEPT ![c] =
                    IF copy THEN [active |-> 0, version |-> 0, dirty |-> FALSE]
                    ELSE [active |-> id, version |-> quotes[id].version, dirty |-> FALSE]]
    /\ UNCHANGED <<quotes, adrift, resets>>

\* handleReset: the rate of the latest quote is looked up first.
New(c, k) ==
    /\ AtWork(c)
    /\ resets' = [resets EXCEPT ![c][k] = @ + 1]
    /\ UNCHANGED <<quotes, screen, slice, call, adrift>>

\* RESET_STD, RESET_CPLX: the look-up ends, whatever is under way by then.
Reset(c, k) ==
    /\ resets[c][k] > 0
    /\ resets' = [resets EXCEPT ![c][k] = @ - 1]
    /\ slice' = [slice EXCEPT ![c][k] = Empty(k)]
    /\ screen' = [screen EXCEPT ![c] = [active |-> 0, version |-> 0, dirty |-> FALSE]]
    /\ call' = [call EXCEPT ![c][k] = Leave(c, k)]
    /\ UNCHANGED <<quotes, adrift>>

\* Any edit of the calculator's state sets isDirty.
Edit(c, k, x) ==
    /\ AtWork(c)
    /\ CalcOf[x] = k
    /\ slice[c][k].content # x
    /\ slice' = [slice EXCEPT ![c][k].content = x]
    /\ screen' = [screen EXCEPT ![c].dirty = TRUE]
    /\ UNCHANGED <<quotes, call, adrift, resets>>

-----------------------------------------------------------------------------
\* Send request r with the state calculator k of client c shows.
Send(c, k, r, seen, forced) ==
    /\ call' = [call EXCEPT ![c][k] =
                  [stage |-> "sent",
                   msg |-> [req |-> r, origin |-> slice[c][k].origin, seen |-> seen],
                   id |-> 0, quote |-> Absent, forced |-> forced, left |-> FALSE]]
    /\ UNCHANGED <<quotes, screen, slice, adrift, resets>>

\* persistAsNew: straight away for a quote without id, else by choice.
SaveAsNew(c, k) ==
    /\ AtWork(c)
    /\ screen[c].dirty
    /\ call[c][k] = None
    /\ Send(c, k, [kind |-> "post", id |-> 0, content |-> slice[c][k].content,
                   status |-> slice[c][k].status, expect |-> NoVersion],
            slice[c][k].seen, FALSE)

Patch(c, k, expect) ==
    [kind |-> "patch", id |-> screen[c].active, content |-> slice[c][k].content,
     status |-> slice[c][k].status, expect |-> expect]

\* The version the client knows is not sent along.
UpdateFault(c, k) ==
    /\ AtWork(c)
    /\ screen[c].dirty
    /\ call[c][k] = None
    /\ screen[c].active # 0
    /\ Send(c, k, Patch(c, k, NoVersion), slice[c][k].seen, FALSE)

\* persistUpdate: the whole state, with the version it was loaded at.
Update(c, k) ==
    /\ AtWork(c)
    /\ screen[c].dirty
    /\ call[c][k] = None
    /\ screen[c].active # 0
    /\ Send(c, k, Patch(c, k, screen[c].version), slice[c][k].seen, FALSE)

\* The server answers a save: the quote as saved, or 409 with the current one.
Handle(c, k) ==
    /\ call[c][k] # None
    /\ call[c][k].stage = "sent"
    /\ LET r == call[c][k].msg.req IN
         \/ /\ WithinBounds(quotes, r)
            /\ Upserts(quotes, r, quotes')
            /\ \E id \in Ids :
                 /\ quotes'[id] # quotes[id]
                 /\ call' = [call EXCEPT ![c][k] =
                                [@ EXCEPT !.stage = "saved", !.id = id,
                                          !.quote = quotes'[id], !.msg.origin = id]]
         \/ /\ Refused(quotes, r)
            /\ call' = [call EXCEPT ![c][k] =
                           [@ EXCEPT !.stage = "refused", !.id = r.id,
                                     !.quote = quotes[r.id], !.msg.origin = r.id]]
            /\ UNCHANGED quotes
    /\ UNCHANGED <<screen, slice, adrift, resets>>

\* The answer of a successful save: markClean, MARK_SAVED and
\* SET_ACTIVE_QUOTE_ID with the id the request was sent for.
Saved(c, k) ==
    /\ call[c][k] # None
    /\ call[c][k].stage = "saved"
    /\ screen' = [screen EXCEPT ![c] = [active |-> call[c][k].id,
                                        version |-> call[c][k].quote.version,
                                        dirty |-> FALSE]]
    /\ slice' = IF call[c][k].left THEN slice
                ELSE [slice EXCEPT ![c][k].origin = call[c][k].msg.origin,
                                   ![c][k].seen = call[c][k].quote.content]
    /\ call' = [call EXCEPT ![c][k] = None]
    /\ UNCHANGED <<quotes, adrift, resets>>

\* The answer 409: the conflict dialog opens, but for a forced save the
\* failure is only reported.
Conflicted(c, k) ==
    /\ call[c][k] # None
    /\ call[c][k].stage = "refused"
    /\ call' = [call EXCEPT ![c][k] = IF @.forced THEN None ELSE [@ EXCEPT !.stage = "conflict"]]
    /\ UNCHANGED <<quotes, screen, slice, adrift, resets>>

\* markClean after a save that failed.
BreaksFault(c, k) ==
    /\ call[c][k] # None
    /\ call[c][k].stage \in {"sent", "saved", "refused"}
    /\ call' = [call EXCEPT ![c][k] = None]
    /\ adrift' = IF call[c][k].stage = "sent" THEN adrift \cup {call[c][k].msg} ELSE adrift
    /\ screen' = [screen EXCEPT ![c].dirty = FALSE]
    /\ UNCHANGED <<quotes, slice, resets>>

\* The connection breaks: the client reports a failure and is as before; the
\* request, if not yet answered, may still be handled.
Breaks(c, k) ==
    /\ call[c][k] # None
    /\ call[c][k].stage \in {"sent", "saved", "refused"}
    /\ call' = [call EXCEPT ![c][k] = None]
    /\ adrift' = IF call[c][k].stage = "sent" THEN adrift \cup {call[c][k].msg} ELSE adrift
    /\ UNCHANGED <<quotes, screen, slice, resets>>

HandleLate(m) ==
    /\ \/ WithinBounds(quotes, m.req) /\ Upserts(quotes, m.req, quotes')
       \/ Refused(quotes, m.req) /\ UNCHANGED quotes
    /\ adrift' = adrift \ {m}
    /\ UNCHANGED <<screen, slice, call, resets>>

InConflict(c, k) == call[c][k] # None /\ call[c][k].stage = "conflict"

\* handleConflictReload: the server's quote replaces the edits.
Reload(c, k) ==
    /\ InConflict(c, k)
    /\ slice' = [slice EXCEPT ![c][k] = Shown(call[c][k].quote, call[c][k].msg.origin)]
    /\ screen' = [screen EXCEPT ![c] = [active |-> call[c][k].id,
                                        version |-> call[c][k].quote.version,
                                        dirty |-> FALSE]]
    /\ call' = [call EXCEPT ![c][k] = None]
    /\ UNCHANGED <<quotes, adrift, resets>>

\* handleConflictOverwrite: the edits, with the version the dialog showed.
\* Without an active quote the server answers 400.
Overwrite(c, k) ==
    /\ InConflict(c, k)
    /\ screen[c].active # 0
    /\ Send(c, k, Patch(c, k, call[c][k].quote.version), call[c][k].quote.content, TRUE)

\* handleConflictCancel, and a forced save answered 400: the dialog closes.
CancelConflict(c, k) ==
    /\ InConflict(c, k)
    /\ call' = [call EXCEPT ![c][k] = None]
    /\ UNCHANGED <<quotes, screen, slice, adrift, resets>>

-----------------------------------------------------------------------------
\* A request about the quote id that is not a save.
About(kind, id, s) ==
    [kind |-> kind, id |-> id, content |-> NoContent, status |-> s, expect |-> NoVersion]

\* An approval, from the history or the inbox.
Approve(id, s) ==
    /\ Transitions(quotes, About("transition", id, s), quotes')
    /\ UNCHANGED <<screen, slice, call, adrift, resets>>

\* A quote is moved to the trash or taken out of it.
Mark(id) ==
    /\ quotes[id] # Absent
    /\ \E kind \in {"trash", "restore"} :
         /\ WithinBounds(quotes, About(kind, id, "draft"))
         /\ Upserts(quotes, About(kind, id, "draft"), quotes')
    /\ UNCHANGED <<screen, slice, call, adrift, resets>>

\* A quote is purged.  What was shown of it is gone, even if its id is given
\* to another quote (history).
Purge(id) ==
    /\ Purges(quotes, About("purge", id, "draft"), quotes')
    /\ slice' = [c \in Clients |-> [k \in Calcs |->
                    IF slice[c][k].origin = id THEN [slice[c][k] EXCEPT !.origin = Gone]
                    ELSE slice[c][k]]]
    /\ call' = [c \in Clients |-> [k \in Calcs |->
                    IF call[c][k] # None /\ call[c][k].msg.origin = id
                    THEN [call[c][k] EXCEPT !.msg.origin = Gone] ELSE call[c][k]]]
    /\ adrift' = {IF m.origin = id THEN [m EXCEPT !.origin = Gone] ELSE m : m \in adrift}
    /\ UNCHANGED <<screen, resets>>

User(c) ==
    \/ \E id \in Ids, copy \in BOOLEAN : Open(c, id, copy)
    \/ \E k \in Calcs : \/ New(c, k) \/ SaveAsNew(c, k) \/ Update(c, k)
                        \/ Reload(c, k) \/ Overwrite(c, k) \/ CancelConflict(c, k)
                        \/ \E x \in Contents : Edit(c, k, x)

Network(c) == \E k \in Calcs : \/ Handle(c, k) \/ Saved(c, k) \/ Conflicted(c, k)
                              \/ Breaks(c, k) \/ Reset(c, k)

Others ==
    \/ \E m \in adrift : HandleLate(m)
    \/ \E id \in Ids : Mark(id) \/ Purge(id) \/ \E s \in Statuses : Approve(id, s)

Next == Others \/ \E c \in Clients : User(c) \/ Network(c)

Spec == Init /\ [][Next]_vars

-----------------------------------------------------------------------------
\* In this step the server accepts a save that is under way, or an update
\* that comes late.
AcceptsSave(c, k) ==
    /\ call[c][k] # None /\ call[c][k].stage = "sent"
    /\ call'[c][k] # None /\ call'[c][k].stage = "saved"

AcceptsLate(m) ==
    /\ adrift' = adrift \ {m}
    /\ m.req.kind = "patch" /\ quotes'[m.req.id] \notin {quotes[m.req.id], Absent}

\* If m is an update of the quote its user worked on, that quote holds the
\* content the user was shown.
ReplacesWhatWasSeen(m) ==
    m.req.kind = "patch" /\ m.origin = m.req.id => quotes[m.req.id].content = m.seen

\* No save silently overwrites another user's work: what an accepted update
\* replaces is the content its user was shown, at load time or in the
\* conflict dialog (quotesStore.js:199-204).
NoSilentOverwrite ==
    [][/\ \A c \in Clients, k \in Calcs :
            AcceptsSave(c, k) => ReplacesWhatWasSeen(call[c][k].msg)
       /\ \A m \in adrift : AcceptsLate(m) => ReplacesWhatWasSeen(m)]_vars

\* An update goes to the quote the calculator shows, and what New has emptied
\* is saved as a new one: "A loaded quote gets the Update / Save-as-new choice;
\* a new one saves straight away" (StandardCalc.jsx:499-500).
UpdatesOwnQuote ==
    \A c \in Clients, k \in Calcs :
        call[c][k] # None /\ call[c][k].msg.req.kind = "patch"
          => call[c][k].msg.origin \in {call[c][k].msg.req.id, Gone}

\* What is not saved is marked so: a screen without the Unsaved badge shows
\* the content of its quote as it was loaded or last saved
\* (calcReducer.js MARK_CLEAN, StandardCalc.jsx:686).
UnsavedIsMarked ==
    \A c \in Clients :
        ~screen[c].dirty /\ (\A k \in Calcs : call[c][k] = None)
          => \A k \in Calcs : slice[c][k].content = slice[c][k].seen

\* The status of a quote that is there changes by a transition only
\* (approvalWorkflow.js:2, "server-side authority").
ApprovalKept ==
    [][\A id \in Ids :
         quotes[id] # Absent /\ quotes'[id] # Absent /\ quotes'[id].status # quotes[id].status
           => UNCHANGED <<call, adrift>>]_vars
=============================================================================
