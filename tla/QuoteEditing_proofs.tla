------------------------ MODULE QuoteEditing_proofs ------------------------
(***************************************************************************)
(* No silent overwrite, for every set of clients, contents and statuses    *)
(* and every bound.                                                        *)
(*                                                                         *)
(* The hypothesis names what the code does not give by itself: the users   *)
(* leave a calculator alone while its save is under way, and one of the    *)
(* two calculators is in use.  The README says what is lost without it.    *)
(* The types need neither.                                                 *)
(***************************************************************************)
EXTENDS QuoteEditing, QuoteOps_proofs

Careful == Patient /\ \A j, k \in Calcs : j = k

LiveLists == [Ids -> LiveQuote \cup {Absent}]

LookUps == [Clients -> [Calcs -> Nat]]

\* The version v of the quote id was u: it still is, or a later one is stored.
Known(list, id, v, u) ==
    /\ list[id] # Absent
    /\ v <= list[id].version
    /\ v = list[id].version => list[id].content = u

\* An update of the quote its user worked on carries the version the user
\* was shown.
MessageInv(list, m) ==
    /\ m.req.kind \in {"post", "patch"}
    /\ m.req.kind = "patch" =>
         /\ m.req.expect # NoVersion
         /\ m.origin = m.req.id => Known(list, m.req.id, m.req.expect, m.seen)

\* A calculator that shows sl on the screen w; after a New it may show no
\* quote although one is active.
SliceInv(list, w, sl) ==
    /\ sl.origin = w.active /\ w.active # 0 => Known(list, w.active, w.version, sl.seen)
    /\ ~w.dirty => sl.content = sl.seen

\* An answer on its way holds the quote as the server knew it.
AnswerInv(list, s) ==
    /\ s.id \in Ids
    /\ s.quote # Absent
    /\ s.msg.origin = s.id => Known(list, s.id, s.quote.version, s.quote.content)

\* A save under way is about what the calculator still shows, or New has
\* emptied the calculator since.
SaveInv(list, s, w, sl) ==
    /\ s.msg.req.kind \in {"post", "patch"}
    /\ s.stage = "sent" => MessageInv(list, s.msg)
    /\ s.stage # "sent" => AnswerInv(list, s)
    /\ s.left => w.active = 0 /\ ~w.dirty /\ sl.origin = 0
    /\ ~s.left =>
         /\ w.dirty
         /\ s.msg.req.content = sl.content
         /\ s.msg.req.kind = "patch" => s.msg.req.id = w.active
         /\ s.stage = "saved" => s.quote.content = sl.content
         /\ s.stage \in {"refused", "conflict"} =>
              s.id = w.active /\ (sl.origin = s.id => s.msg.origin = s.id)

CalcInv(c, k) ==
    /\ SliceInv(quotes, screen[c], slice[c][k])
    /\ call[c][k] # None => SaveInv(quotes, call[c][k], screen[c], slice[c][k])

LateInv == \A m \in adrift : MessageInv(quotes, m)

EditInv ==
    /\ TypeOK
    /\ \A c \in Clients, k \in Calcs : CalcInv(c, k)
    /\ LateInv

-----------------------------------------------------------------------------
\* No quote is lost, no version goes back, and a change of content is a
\* change of version.
Grows(list, new) ==
    \A id \in Ids : list[id] # Absent =>
        /\ new[id] # Absent
        /\ list[id].version <= new[id].version
        /\ list[id].version = new[id].version => new[id].content = list[id].content

LEMMA KnownKept ==
  ASSUME NEW list \in LiveLists, NEW new \in LiveLists, Grows(list, new),
         NEW id \in Ids, NEW v \in 0..MaxVersion, NEW u, Known(list, id, v, u)
  PROVE  Known(new, id, v, u)
<1>1. list[id] \in LiveQuote /\ new[id] \in LiveQuote
  BY DEF LiveLists, Grows, Known
<1>2. list[id].version \in 0..MaxVersion /\ new[id].version \in 0..MaxVersion
  BY <1>1 DEF LiveQuote
<1>3. list[id].version <= new[id].version
  BY DEF Grows, Known
<1> QED BY <1>1, <1>2, <1>3, BoundAssumption DEF Grows, Known

LEMMA MessageKept ==
  ASSUME NEW list \in LiveLists, NEW new \in LiveLists, Grows(list, new),
         NEW m \in Messages, MessageInv(list, m)
  PROVE  MessageInv(new, m)
<1>1. m.req \in Requests
  BY DEF Messages
<1>2. m.req.kind = "patch" => m.req.id \in Ids
  BY <1>1 DEF Requests, Ids
<1>3. m.req.expect # NoVersion => m.req.expect \in 0..MaxVersion
  BY <1>1 DEF Requests
<1> QED BY <1>2, <1>3, KnownKept DEF MessageInv

LEMMA SliceKept ==
  ASSUME NEW list \in LiveLists, NEW new \in LiveLists, Grows(list, new),
         NEW w \in Screens, NEW sl, SliceInv(list, w, sl)
  PROVE  SliceInv(new, w, sl)
<1>1. w.version \in 0..MaxVersion /\ (w.active # 0 => w.active \in Ids)
  BY DEF Screens, Ids
<1> QED BY <1>1, KnownKept DEF SliceInv

LEMMA SaveKept ==
  ASSUME NEW list \in LiveLists, NEW new \in LiveLists, Grows(list, new),
         NEW s \in Saving, NEW w, NEW sl, SaveInv(list, s, w, sl)
  PROVE  SaveInv(new, s, w, sl)
<1>1. s.msg \in Messages /\ s.quote \in LiveQuote \cup {Absent}
  BY DEF Saving
<1>2. s.stage = "sent" => MessageInv(new, s.msg)
  BY <1>1, MessageKept DEF SaveInv
<1>3. s.quote # Absent => s.quote.version \in 0..MaxVersion
  BY <1>1 DEF LiveQuote
<1>4. s.stage # "sent" => AnswerInv(new, s)
  BY <1>3, KnownKept DEF SaveInv, AnswerInv
<1> QED BY <1>2, <1>4 DEF SaveInv

-----------------------------------------------------------------------------
(* A purge: what showed the quote shows none that is there.                  *)
OfMessage(m, id) == IF m.origin = id THEN [m EXCEPT !.origin = Gone] ELSE m

OfSave(s, id) == IF s.msg.origin = id THEN [s EXCEPT !.msg.origin = Gone] ELSE s

OfSlice(sl, id) == IF sl.origin = id THEN [sl EXCEPT !.origin = Gone] ELSE sl

LEMMA PurgedTypes ==
  ASSUME NEW id \in Ids
  PROVE  /\ \A m \in Messages : OfMessage(m, id) \in Messages
         /\ \A s \in Saving : OfSave(s, id) \in Saving
         /\ \A sl \in Slices : OfSlice(sl, id) \in Slices
<1>1. \A m \in Messages : [m EXCEPT !.origin = Gone] \in Messages
  BY DEF Messages
<1>2. \A s \in Saving : [s EXCEPT !.msg = [s.msg EXCEPT !.origin = Gone]] \in Saving
  BY <1>1 DEF Saving
<1> QED BY <1>1, <1>2 DEF OfMessage, OfSave, OfSlice, Slices

LEMMA KnownPurged ==
  ASSUME NEW list \in LiveLists, NEW id \in Ids, NEW j \in Ids, j # id,
         NEW v, NEW u, Known(list, j, v, u)
  PROVE  Known([list EXCEPT ![id] = Absent], j, v, u)
<1>1. [list EXCEPT ![id] = Absent][j] = list[j]
  BY DEF LiveLists
<1> QED BY <1>1 DEF Known

LEMMA MessagePurged ==
  ASSUME NEW list \in LiveLists, NEW id \in Ids,
         NEW m \in Messages, MessageInv(list, m)
  PROVE  MessageInv([list EXCEPT ![id] = Absent], OfMessage(m, id))
<1>1. m.req.kind = "patch" => m.req.id \in Ids
  BY DEF Messages, Requests, Ids
<1>2. Gone # id /\ (m.req.kind = "patch" => Gone # m.req.id)
  BY <1>1, EditingAssumption DEF Ids
<1>3. CASE m.origin = id
  <2>1. OfMessage(m, id).req = m.req /\ OfMessage(m, id).origin = Gone
    BY <1>3 DEF OfMessage, Messages
  <2> QED BY <1>2, <2>1 DEF MessageInv
<1>4. CASE m.origin # id
  <2>1. OfMessage(m, id) = m
    BY <1>4 DEF OfMessage
  <2> QED BY <1>1, <1>4, <2>1, KnownPurged DEF MessageInv
<1> QED BY <1>3, <1>4

LEMMA SlicePurged ==
  ASSUME NEW list \in LiveLists, NEW id \in Ids,
         NEW w \in Screens, NEW sl \in Slices, SliceInv(list, w, sl)
  PROVE  SliceInv([list EXCEPT ![id] = Absent], w, OfSlice(sl, id))
<1>1. w.active # 0 => w.active \in Ids
  BY DEF Screens, Ids
<1>2. Gone # w.active
  BY EditingAssumption DEF Screens
<1>3. CASE sl.origin = id
  <2>1. /\ OfSlice(sl, id).origin = Gone
        /\ OfSlice(sl, id).content = sl.content
        /\ OfSlice(sl, id).seen = sl.seen
    BY <1>3 DEF OfSlice, Slices
  <2> QED BY <1>2, <2>1 DEF SliceInv
<1>4. CASE sl.origin # id
  <2>1. OfSlice(sl, id) = sl
    BY <1>4 DEF OfSlice
  <2> QED BY <1>1, <1>4, <2>1, KnownPurged DEF SliceInv
<1> QED BY <1>3, <1>4

LEMMA SavePurged ==
  ASSUME NEW list \in LiveLists, NEW id \in Ids, NEW s \in Saving,
         NEW w \in Screens, NEW sl \in Slices, SaveInv(list, s, w, sl)
  PROVE  SaveInv([list EXCEPT ![id] = Absent], OfSave(s, id), w, OfSlice(sl, id))
<1> DEFINE t == OfSave(s, id)
           y == OfSlice(sl, id)
           new == [list EXCEPT ![id] = Absent]
<1>1. s.msg \in Messages /\ s.quote \in LiveQuote \cup {Absent}
  BY DEF Saving
<1>2. /\ t.stage = s.stage /\ t.left = s.left /\ t.id = s.id /\ t.quote = s.quote
      /\ t.msg = OfMessage(s.msg, id)
  BY <1>1 DEF OfSave, OfMessage, Saving
<1>3. t.msg.req = s.msg.req /\ t.msg.origin = IF s.msg.origin = id THEN Gone ELSE s.msg.origin
  BY <1>1, <1>2 DEF OfMessage, Messages
<1>4. y.content = sl.content /\ y.origin = IF sl.origin = id THEN Gone ELSE sl.origin
  BY DEF OfSlice, Slices
<1>5. Gone # id /\ id # 0
  BY EditingAssumption, BoundAssumption DEF Ids
<1>6. t.stage = "sent" => MessageInv(new, t.msg)
  BY <1>1, <1>2, MessagePurged DEF SaveInv
<1>7. s.id \in Ids => Gone # s.id
  BY EditingAssumption DEF Ids
<1>8. t.stage # "sent" => AnswerInv(new, t)
  BY <1>2, <1>3, <1>7, KnownPurged DEF SaveInv, AnswerInv
<1> HIDE DEF t, y, new
<1>9. SaveInv(new, t, w, y)
  BY <1>2, <1>3, <1>4, <1>5, <1>6, <1>7, <1>8 DEF SaveInv, AnswerInv
<1> QED BY <1>9 DEF t, y, new

-----------------------------------------------------------------------------
\* Setting one row to a live quote that is no older.
LEMMA RowSet ==
  ASSUME NEW list \in LiveLists, NEW id \in Ids, NEW q \in LiveQuote,
         list[id] # Absent => /\ list[id].version <= q.version
                              /\ list[id].version = q.version => q.content = list[id].content
  PROVE  /\ [list EXCEPT ![id] = q] \in LiveLists
         /\ Grows(list, [list EXCEPT ![id] = q])
         /\ [list EXCEPT ![id] = q][id] # Absent
<1>1. [list EXCEPT ![id] = q] \in LiveLists
  BY DEF LiveLists
<1>2. q # Absent
  <2>1. q \in Quote
    BY DEF LiveQuote, Quote
  <2> QED BY <2>1, AbsentAssumption
<1>3. ASSUME NEW j \in Ids, list[j] # Absent PROVE list[j].version <= list[j].version
  BY <1>3 DEF LiveLists, LiveQuote
<1>4. Grows(list, [list EXCEPT ![id] = q])
  BY <1>2, <1>3 DEF Grows, LiveLists
<1> QED BY <1>1, <1>2, <1>4 DEF LiveLists

\* The rows a save makes are live quotes with the content it carries.
LEMMA SaveRow ==
  ASSUME NEW r \in Requests, r.kind \in {"post", "patch"}
  PROVE  Created(r) \in LiveQuote /\ Created(r).content = r.content
<1>1. r.content \in Contents /\ r.status \in Statuses
  BY DEF Requests
<1>2. Created(r) = [version |-> 1, content |-> r.content, status |-> r.status, trashed |-> FALSE]
  BY DEF Created
<1>3. 1 \in 0..MaxVersion
  BY BoundAssumption
<1> QED BY <1>1, <1>2, <1>3 DEF LiveQuote

LEMMA ReviseRow ==
  ASSUME NEW r \in Requests, NEW q \in LiveQuote, q.version < MaxVersion
  PROVE  /\ Revised(q, r) \in LiveQuote
         /\ Revised(q, r).version = q.version + 1
         /\ r.kind = "patch" => Revised(q, r).content = r.content
<1>1. q.version + 1 \in 0..MaxVersion
  BY BoundAssumption DEF LiveQuote
<1>2. CASE r.kind = "patch"
  <2>1. r.content \in Contents /\ r.status \in Statuses
    BY <1>2 DEF Requests
  <2>2. Revised(q, r) = [q EXCEPT !.version = q.version + 1,
                                  !.content = r.content, !.status = r.status]
    BY <1>2 DEF Revised
  <2> QED BY <1>1, <2>1, <2>2 DEF LiveQuote
<1>3. CASE r.kind # "patch"
  <2>1. Revised(q, r) = [q EXCEPT !.version = q.version + 1,
                                  !.trashed = (r.kind = "trash")]
    BY <1>3 DEF Revised
  <2> QED BY <1>1, <1>3, <2>1 DEF LiveQuote
<1> QED BY <1>2, <1>3

\* What a request that goes through upsertQuote makes of the list.
LEMMA UpsertsGrow ==
  ASSUME NEW list \in LiveLists, NEW r \in Requests, NEW new,
         Upserts(list, r, new), WithinBounds(list, r),
         r.kind \in {"post", "patch"} \/ list[r.id] # Absent
  PROVE  /\ new \in LiveLists /\ Grows(list, new)
         /\ \A id \in Ids : new[id] # list[id] =>
              /\ new[id] # Absent
              /\ r.kind = "patch" => id = r.id
              /\ r.kind \in {"post", "patch"} => new[id].content = r.content
<1>1. ASSUME NEW n \in Ids, list[n] = Absent, r.kind \in {"post", "patch"},
             r.kind = "patch" => n = r.id, new = [list EXCEPT ![n] = Created(r)]
      PROVE  /\ new \in LiveLists /\ Grows(list, new)
             /\ \A id \in Ids : new[id] # list[id] =>
                  /\ new[id] # Absent
                  /\ r.kind = "patch" => id = r.id
                  /\ new[id].content = r.content
  <2>1. Created(r) \in LiveQuote /\ Created(r).content = r.content
    BY <1>1, SaveRow
  <2>2. new \in LiveLists /\ Grows(list, new) /\ new[n] # Absent
    BY <1>1, <2>1, RowSet
  <2>3. \A id \in Ids : new[id] = IF id = n THEN Created(r) ELSE list[id]
    BY <1>1 DEF LiveLists
  <2> QED BY <1>1, <2>1, <2>2, <2>3
<1>2. CASE r.kind = "post"
  <2>1. PICK n \in Ids : IsNextId(list, n) /\ new = [list EXCEPT ![n] = Created(r)]
    BY <1>2 DEF Upserts
  <2>2. list[n] = Absent
    BY <2>1, BoundAssumption DEF IsNextId, Ids
  <2> QED BY <1>1, <1>2, <2>1, <2>2
<1>3. CASE r.kind \in {"patch", "trash", "restore"}
  <2>1. r.id \in Ids
    BY <1>3 DEF Requests, Ids
  <2>2. CASE list[r.id] = Absent /\ new = [list EXCEPT ![r.id] = Created(r)]
    BY <1>1, <1>3, <2>1, <2>2
  <2>3. CASE list[r.id] # Absent /\ new = [list EXCEPT ![r.id] = Revised(list[r.id], r)]
    <3> DEFINE q == Revised(list[r.id], r)
    <3>1. list[r.id] \in LiveQuote /\ list[r.id].version < MaxVersion
      BY <1>3, <2>1, <2>3 DEF LiveLists, WithinBounds
    <3>2. /\ q \in LiveQuote /\ q.version = list[r.id].version + 1
          /\ r.kind = "patch" => q.content = r.content
      BY <3>1, ReviseRow
    <3>3. \A id \in Ids : new[id] = IF id = r.id THEN q ELSE list[id]
      BY <2>1, <2>3 DEF LiveLists
    <3>4. list[r.id].version \in Nat
      BY <3>1, BoundAssumption DEF LiveQuote
    <3> HIDE DEF q
    <3>5. new = [list EXCEPT ![r.id] = q]
      BY <2>3 DEF q
    <3>6. list[r.id].version <= q.version /\ list[r.id].version # q.version
      BY <3>2, <3>4
    <3>7. new \in LiveLists /\ Grows(list, new) /\ new[r.id] # Absent
      BY <2>1, <3>2, <3>5, <3>6, RowSet
    <3> QED BY <1>3, <3>2, <3>3, <3>7
  <2> QED BY <1>3, <2>2, <2>3 DEF Upserts
<1> QED BY <1>2, <1>3 DEF Upserts

\* An approval changes no content and no version.
LEMMA TransitionsGrow ==
  ASSUME NEW list \in LiveLists, NEW r \in Requests, NEW new, Transitions(list, r, new)
  PROVE  new \in LiveLists /\ Grows(list, new)
<1> DEFINE q == [list[r.id] EXCEPT !.status = r.status]
<1>1. r.id \in Ids /\ list[r.id] \in LiveQuote
  BY DEF Transitions, Requests, Ids, LiveLists
<1>2. q \in LiveQuote /\ q.version = list[r.id].version /\ q.content = list[r.id].content
  BY <1>1 DEF LiveQuote, Requests
<1>3. list[r.id].version <= list[r.id].version
  BY <1>1 DEF LiveQuote
<1>4. new = [list EXCEPT ![r.id] = q]
  BY DEF Transitions
<1> HIDE DEF q
<1> QED BY <1>1, <1>2, <1>3, <1>4, RowSet

\* An accepted update of the quote its user worked on replaces what the user
\* was shown.
LEMMA SeenReplaced ==
  ASSUME NEW list, NEW new, NEW m \in Messages, MessageInv(list, m),
         Upserts(list, m.req, new)
  PROVE  m.req.kind = "patch" /\ m.origin = m.req.id => list[m.req.id].content = m.seen
<1> SUFFICES ASSUME m.req.kind = "patch", m.origin = m.req.id
             PROVE  list[m.req.id].content = m.seen
  OBVIOUS
<1>1. Known(list, m.req.id, m.req.expect, m.seen) /\ m.req.expect # NoVersion
  BY DEF MessageInv
<1>2. ~Conflict(list, m.req)
  BY <1>1 DEF Upserts, Known
<1> QED BY <1>1, <1>2 DEF Conflict, Known

-----------------------------------------------------------------------------
LEMMA Stays == ASSUME TypeOK PROVE quotes \in LiveLists /\ Grows(quotes, quotes)
<1>1. quotes \in LiveLists
  BY DEF TypeOK, LiveLists
<1>2. ASSUME NEW id \in Ids, quotes[id] # Absent PROVE quotes[id].version <= quotes[id].version
  BY <1>1, <1>2 DEF LiveLists, LiveQuote
<1> QED BY <1>1, <1>2 DEF Grows

\* A client that does nothing keeps its invariant while the list grows.
LEMMA CalcKept ==
  ASSUME EditInv, quotes' \in LiveLists, Grows(quotes, quotes'),
         NEW c \in Clients, NEW k \in Calcs,
         screen'[c] = screen[c], slice'[c] = slice[c], call'[c] = call[c]
  PROVE  CalcInv(c, k)'
<1>1. quotes \in LiveLists
  BY Stays DEF EditInv
<1>2. /\ screen[c] \in Screens /\ slice[c][k] \in Slices
      /\ call[c][k] # None => call[c][k] \in Saving
  BY DEF EditInv, TypeOK
<1>3. SliceInv(quotes', screen[c], slice[c][k])
  BY <1>1, <1>2, SliceKept DEF EditInv, CalcInv
<1>4. call[c][k] # None => SaveInv(quotes', call[c][k], screen[c], slice[c][k])
  BY <1>1, <1>2, SaveKept DEF EditInv, CalcInv
<1> QED BY <1>3, <1>4 DEF CalcInv

LEMMA LateKept ==
  ASSUME EditInv, quotes' \in LiveLists, Grows(quotes, quotes'), adrift' \subseteq adrift
  PROVE  LateInv'
<1>1. quotes \in LiveLists /\ adrift \subseteq Messages
  BY Stays DEF EditInv, TypeOK
<1> QED BY <1>1, MessageKept DEF EditInv, LateInv

\* A step of others, on the list only.
LEMMA ListStep ==
  ASSUME EditInv, quotes' \in LiveLists, Grows(quotes, quotes'),
         UNCHANGED <<screen, slice, call>>, adrift' \subseteq adrift, resets' \in LookUps
  PROVE  EditInv'
<1>1. TypeOK'
  BY DEF EditInv, TypeOK, LiveLists, LookUps
<1>2. \A c \in Clients, k \in Calcs : CalcInv(c, k)'
  BY CalcKept
<1> QED BY <1>1, <1>2, LateKept DEF EditInv

\* A step of the client c, all of whose work is in calculator k.
LEMMA ClientStep ==
  ASSUME Careful, EditInv, NEW c \in Clients, NEW k \in Calcs,
         NEW w \in Screens, NEW sl \in Slices, NEW s \in Saving \cup {None},
         screen' = [screen EXCEPT ![c] = w], slice' = [slice EXCEPT ![c][k] = sl],
         call' = [call EXCEPT ![c][k] = s],
         quotes' \in LiveLists, Grows(quotes, quotes'), adrift' \subseteq Messages,
         resets' \in LookUps, LateInv', SliceInv(quotes', w, sl), s # None => SaveInv(quotes', s, w, sl)
  PROVE  EditInv'
<1>1. TypeOK'
  BY DEF EditInv, TypeOK, LiveLists, LookUps
<1>2. screen'[c] = w /\ slice'[c][k] = sl /\ call'[c][k] = s
  BY DEF EditInv, TypeOK
<1>3. CalcInv(c, k)'
  BY <1>2 DEF CalcInv
<1>4. ASSUME NEW d \in Clients, NEW j \in Calcs PROVE CalcInv(d, j)'
  <2>1. CASE d = c
    BY <1>3, <2>1 DEF Careful
  <2>2. CASE d # c
    <3>1. screen'[d] = screen[d] /\ slice'[d] = slice[d] /\ call'[d] = call[d]
      BY <2>2 DEF EditInv, TypeOK
    <3> QED BY <3>1, CalcKept
  <2> QED BY <2>1, <2>2
<1> QED BY <1>1, <1>4 DEF EditInv

\* The same for a step that the server has no part in.
LEMMA LocalStep ==
  ASSUME Careful, EditInv, NEW c \in Clients, NEW k \in Calcs,
         NEW w \in Screens, NEW sl \in Slices, NEW s \in Saving \cup {None},
         screen' = [screen EXCEPT ![c] = w], slice' = [slice EXCEPT ![c][k] = sl],
         call' = [call EXCEPT ![c][k] = s], UNCHANGED <<quotes, adrift, resets>>,
         SliceInv(quotes, w, sl), s # None => SaveInv(quotes, s, w, sl)
  PROVE  EditInv'
<1>1. quotes' = quotes /\ adrift' = adrift /\ resets' = resets
  OBVIOUS
<1>2. quotes' \in LiveLists /\ Grows(quotes, quotes')
  BY <1>1, Stays DEF EditInv
<1>3. LateInv' /\ adrift' \subseteq Messages /\ resets' \in LookUps
  BY <1>1 DEF EditInv, LateInv, TypeOK, LookUps
<1>4. SliceInv(quotes', w, sl) /\ (s # None => SaveInv(quotes', s, w, sl))
  BY <1>1
<1> QED BY <1>2, <1>3, <1>4, ClientStep

\* What the variables hold of one calculator.
LEMMA CalcTypes ==
  ASSUME TypeOK, NEW c \in Clients, NEW k \in Calcs
  PROVE  /\ screen[c] \in Screens /\ slice[c][k] \in Slices
         /\ call[c][k] \in Saving \cup {None}
         /\ screen = [screen EXCEPT ![c] = screen[c]]
         /\ slice = [slice EXCEPT ![c][k] = slice[c][k]]
         /\ call = [call EXCEPT ![c][k] = call[c][k]]
  BY DEF TypeOK

\* What a calculator shows and saves has its types and its invariant.
LEMMA CalcFacts ==
  ASSUME EditInv, NEW c \in Clients, NEW k \in Calcs
  PROVE  /\ screen[c] \in Screens /\ slice[c][k] \in Slices
         /\ call[c][k] \in Saving \cup {None}
         /\ screen = [screen EXCEPT ![c] = screen[c]]
         /\ slice = [slice EXCEPT ![c][k] = slice[c][k]]
         /\ call = [call EXCEPT ![c][k] = call[c][k]]
         /\ SliceInv(quotes, screen[c], slice[c][k])
         /\ call[c][k] # None => SaveInv(quotes, call[c][k], screen[c], slice[c][k])
BY DEF EditInv, TypeOK, CalcInv

\* A careful user at work awaits no answer.
LEMMA Idles ==
  ASSUME Careful, NEW c, AtWork(c), NEW k \in Calcs PROVE call[c][k] = None
BY DEF Careful, AtWork

LEMMA OpenStep ==
  ASSUME Careful, EditInv, NEW c \in Clients, NEW id \in Ids, NEW copy \in BOOLEAN,
         Open(c, id, copy)
  PROVE  EditInv'
<1> DEFINE k == CalcOf[quotes[id].content]
           q == quotes[id]
           w == IF copy THEN [active |-> 0, version |-> 0, dirty |-> FALSE]
                ELSE [active |-> id, version |-> q.version, dirty |-> FALSE]
           sl == Shown(q, IF copy THEN 0 ELSE id)
<1>1. q \in LiveQuote /\ q # Absent
  BY DEF Open, EditInv, TypeOK
<1>2. k \in Calcs
  BY <1>1, EditingAssumption DEF LiveQuote
<1>3. /\ screen' = [screen EXCEPT ![c] = w] /\ slice' = [slice EXCEPT ![c][k] = sl]
      /\ call' = [call EXCEPT ![c][k] = Leave(c, k)] /\ UNCHANGED <<quotes, adrift, resets>>
  BY DEF Open
<1>4. call[c][k] = None /\ Leave(c, k) = None
  BY <1>2, Idles DEF Open, Leave
<1>5. w \in Screens /\ sl \in Slices
  BY <1>1, BoundAssumption DEF Screens, Slices, Shown, LiveQuote, Ids
<1>6. Known(quotes, id, q.version, q.content)
  BY <1>1 DEF Known, LiveQuote
<1>7. SliceInv(quotes, w, sl)
  BY <1>6 DEF SliceInv, Shown
<1> HIDE DEF w, sl, k
<1> QED BY <1>2, <1>3, <1>4, <1>5, <1>7, LocalStep

LEMMA NewStep ==
  ASSUME EditInv, NEW c \in Clients, NEW k \in Calcs, New(c, k)
  PROVE  EditInv'
<1>1. resets' \in LookUps
  BY DEF New, EditInv, TypeOK, LookUps
<1>2. quotes' = quotes /\ UNCHANGED <<screen, slice, call>> /\ adrift' = adrift
  BY DEF New
<1>3. quotes' \in LiveLists /\ Grows(quotes, quotes')
  BY <1>2, Stays DEF EditInv
<1> QED BY <1>1, <1>2, <1>3, ListStep

\* A calculator that is emptied, at work or beside its own save.
LEMMA Emptied ==
  ASSUME TypeOK, NEW c \in Clients, NEW k \in Calcs, Reset(c, k)
  PROVE  /\ screen' = [screen EXCEPT ![c] = [active |-> 0, version |-> 0, dirty |-> FALSE]]
         /\ slice' = [slice EXCEPT ![c][k] = Empty(k)]
         /\ call' = [call EXCEPT ![c][k] = Leave(c, k)]
         /\ [active |-> 0, version |-> 0, dirty |-> FALSE] \in Screens
         /\ Empty(k) \in Slices /\ resets' \in LookUps
         /\ quotes' = quotes /\ adrift' = adrift
<1>1. [active |-> 0, version |-> 0, dirty |-> FALSE] \in Screens /\ Empty(k) \in Slices
  BY EditingAssumption, QuoteAssumption, BoundAssumption DEF Screens, Slices, Empty
<1>2. resets' = [resets EXCEPT ![c][k] = @ - 1] /\ resets[c][k] > 0
  BY DEF Reset
<1>3. resets[c][k] - 1 \in Nat
  BY <1>2 DEF TypeOK
<1>4. resets' \in LookUps
  BY <1>2, <1>3 DEF TypeOK, LookUps
<1> QED BY <1>1, <1>4 DEF Reset

LEMMA ResetStep ==
  ASSUME Careful, EditInv, NEW c \in Clients, NEW k \in Calcs, Reset(c, k)
  PROVE  EditInv'
<1> DEFINE w == [active |-> 0, version |-> 0, dirty |-> FALSE]
           s == call[c][k]
           t == Leave(c, k)
           sl == Empty(k)
<1>1. /\ screen' = [screen EXCEPT ![c] = w] /\ slice' = [slice EXCEPT ![c][k] = sl]
      /\ call' = [call EXCEPT ![c][k] = t] /\ w \in Screens /\ sl \in Slices
      /\ resets' \in LookUps /\ quotes' = quotes /\ adrift' = adrift
  BY Emptied DEF EditInv
<1>2. quotes' \in LiveLists /\ Grows(quotes, quotes')
  BY <1>1, Stays DEF EditInv
<1>3. LateInv' /\ adrift' \subseteq Messages
  BY <1>1 DEF EditInv, LateInv, TypeOK
<1>4. w.active = 0 /\ ~w.dirty /\ sl.origin = 0 /\ sl.content = sl.seen
  BY DEF Empty
<1> HIDE DEF w, sl
<1>5. SliceInv(quotes', w, sl)
  BY <1>4 DEF SliceInv
<1>6. CASE s = None
  <2>1. t = None
    BY <1>6 DEF Leave
  <2> QED BY <1>1, <1>2, <1>3, <1>5, <2>1, ClientStep
<1>7. CASE s # None
  <2>1. s \in Saving /\ SaveInv(quotes, s, screen[c], slice[c][k])
    BY <1>7, CalcFacts
  <2>2. t = [s EXCEPT !.left = TRUE]
    BY <1>7 DEF Leave
  <2> HIDE DEF s, t
  <2>3. /\ t \in Saving /\ t.left /\ t.stage = s.stage /\ t.msg = s.msg
        /\ t.id = s.id /\ t.quote = s.quote
    BY <2>1, <2>2 DEF Saving
  <2>4. SaveInv(quotes', t, w, sl)
    BY <1>1, <1>4, <2>1, <2>3 DEF SaveInv, AnswerInv
  <2> QED BY <1>1, <1>2, <1>3, <1>5, <2>3, <2>4, ClientStep
<1> QED BY <1>6, <1>7

LEMMA EditStep ==
  ASSUME Careful, EditInv, NEW c \in Clients, NEW k \in Calcs, NEW x \in Contents,
         Edit(c, k, x)
  PROVE  EditInv'
<1> DEFINE w == [screen[c] EXCEPT !.dirty = TRUE]
           sl == [slice[c][k] EXCEPT !.content = x]
<1>1. call[c][k] = None
  BY Idles DEF Edit
<1>2. screen[c] \in Screens /\ slice[c][k] \in Slices
  BY CalcFacts
<1>3. w \in Screens /\ sl \in Slices
  BY <1>2 DEF Screens, Slices
<1>4. /\ w.active = screen[c].active /\ w.version = screen[c].version /\ w.dirty
      /\ sl.origin = slice[c][k].origin /\ sl.seen = slice[c][k].seen
  BY <1>2 DEF Screens, Slices
<1>5. /\ screen' = [screen EXCEPT ![c] = w] /\ slice' = [slice EXCEPT ![c][k] = sl]
      /\ call' = [call EXCEPT ![c][k] = None] /\ UNCHANGED <<quotes, adrift, resets>>
  BY <1>1, CalcFacts DEF Edit
<1> HIDE DEF w, sl
<1>6. SliceInv(quotes, w, sl)
  BY <1>4, CalcFacts DEF SliceInv
<1> QED BY <1>3, <1>5, <1>6, LocalStep

LEMMA SendStep ==
  ASSUME Careful, EditInv, NEW c \in Clients, NEW k \in Calcs,
         NEW r \in Requests, NEW seen \in Contents, NEW forced \in BOOLEAN,
         Send(c, k, r, seen, forced), screen[c].dirty,
         r.content = slice[c][k].content, r.kind \in {"post", "patch"},
         r.kind = "patch" =>
            /\ r.id = screen[c].active /\ r.expect # NoVersion
            /\ slice[c][k].origin = screen[c].active => Known(quotes, r.id, r.expect, seen)
  PROVE  EditInv'
<1> DEFINE m == [req |-> r, origin |-> slice[c][k].origin, seen |-> seen]
           s == [stage |-> "sent", msg |-> m, id |-> 0, quote |-> Absent,
                 forced |-> forced, left |-> FALSE]
<1>1. slice[c][k] \in Slices /\ SliceInv(quotes, screen[c], slice[c][k])
  BY CalcFacts
<1>2. m \in Messages
  BY <1>1 DEF Messages, Slices
<1>3. s \in Saving
  BY <1>2, BoundAssumption DEF Saving
<1>4. MessageInv(quotes, m)
  BY <1>1 DEF MessageInv, SliceInv
<1>5. SaveInv(quotes, s, screen[c], slice[c][k])
  BY <1>1, <1>4 DEF SaveInv, SliceInv
<1>6. call' = [call EXCEPT ![c][k] = s] /\ UNCHANGED <<quotes, screen, slice, adrift, resets>>
  BY DEF Send
<1> HIDE DEF s
<1> QED BY <1>1, <1>3, <1>5, <1>6, CalcFacts, LocalStep

LEMMA SaveAsNewStep ==
  ASSUME Careful, EditInv, NEW c \in Clients, NEW k \in Calcs, SaveAsNew(c, k)
  PROVE  EditInv'
<1> DEFINE r == [kind |-> "post", id |-> 0, content |-> slice[c][k].content,
                 status |-> slice[c][k].status, expect |-> NoVersion]
<1>1. slice[c][k].content \in Contents /\ slice[c][k].status \in Statuses
      /\ slice[c][k].seen \in Contents
  BY CalcFacts DEF Slices
<1>2. r \in Requests
  BY <1>1, QuoteAssumption, BoundAssumption DEF Requests, Kinds, LockedKinds
<1>3. Send(c, k, r, slice[c][k].seen, FALSE) /\ screen[c].dirty
  BY DEF SaveAsNew
<1>4. r.kind = "post" /\ r.content = slice[c][k].content
  OBVIOUS
<1> HIDE DEF r
<1> QED BY <1>1, <1>2, <1>3, <1>4, SendStep

\* The request of an update.
LEMMA PatchFacts ==
  ASSUME TypeOK, NEW c \in Clients, NEW k \in Calcs, screen[c].active # 0,
         NEW v \in 0..MaxVersion
  PROVE  /\ Patch(c, k, v) \in Requests
         /\ Patch(c, k, v).kind = "patch" /\ Patch(c, k, v).id = screen[c].active
         /\ Patch(c, k, v).content = slice[c][k].content
         /\ Patch(c, k, v).expect = v /\ v # NoVersion
<1>1. slice[c][k].content \in Contents /\ slice[c][k].status \in Statuses
      /\ screen[c].active \in 0..MaxId
  BY CalcTypes DEF Slices, Screens
<1>2. v # NoVersion
  BY QuoteAssumption
<1> QED BY <1>1, <1>2, QuoteAssumption DEF Patch, Requests, Kinds, LockedKinds

LEMMA UpdateStep ==
  ASSUME Careful, EditInv, NEW c \in Clients, NEW k \in Calcs, Update(c, k)
  PROVE  EditInv'
<1> DEFINE v == screen[c].version
           r == Patch(c, k, v)
<1>1. v \in 0..MaxVersion /\ slice[c][k].seen \in Contents
  BY CalcFacts DEF Screens, Slices
<1>2. /\ Send(c, k, r, slice[c][k].seen, FALSE) /\ screen[c].dirty
      /\ screen[c].active # 0
  BY DEF Update
<1>3. /\ r \in Requests /\ r.kind = "patch" /\ r.id = screen[c].active
      /\ r.content = slice[c][k].content /\ r.expect = v /\ v # NoVersion
  BY <1>1, <1>2, PatchFacts DEF EditInv
<1>4. slice[c][k].origin = screen[c].active =>
        Known(quotes, screen[c].active, v, slice[c][k].seen)
  BY <1>2, CalcFacts DEF SliceInv
<1> HIDE DEF r, v
<1> QED BY <1>1, <1>2, <1>3, <1>4, SendStep

LEMMA OverwriteStep ==
  ASSUME Careful, EditInv, NEW c \in Clients, NEW k \in Calcs, Overwrite(c, k)
  PROVE  EditInv'
<1> DEFINE s == call[c][k]
           v == s.quote.version
           r == Patch(c, k, v)
<1>1. s # None /\ s.stage = "conflict" /\ s \in Saving
      /\ SaveInv(quotes, s, screen[c], slice[c][k])
  BY CalcFacts DEF Overwrite, InConflict
<1>2. /\ AnswerInv(quotes, s) /\ screen[c].dirty /\ s.id = screen[c].active
      /\ slice[c][k].origin = s.id => s.msg.origin = s.id
  BY <1>1 DEF SaveInv, Overwrite
<1>3. s.quote \in LiveQuote
  BY <1>1, <1>2 DEF AnswerInv, Saving
<1>4. v \in 0..MaxVersion /\ s.quote.content \in Contents
  BY <1>3 DEF LiveQuote
<1>5. screen[c].active # 0
  BY DEF Overwrite
<1>6. /\ r \in Requests /\ r.kind = "patch" /\ r.id = screen[c].active
      /\ r.content = slice[c][k].content /\ r.expect = v /\ v # NoVersion
  BY <1>4, <1>5, PatchFacts DEF EditInv
<1>7. slice[c][k].origin = screen[c].active =>
        Known(quotes, screen[c].active, v, s.quote.content)
  BY <1>2 DEF AnswerInv
<1>8. Send(c, k, r, s.quote.content, TRUE)
  BY DEF Overwrite
<1> HIDE DEF r, v, s
<1> QED BY <1>2, <1>4, <1>6, <1>7, <1>8, SendStep

\* The answer of a save that has come in, and the quote it holds.
LEMMA AnswerFacts ==
  ASSUME EditInv, NEW c \in Clients, NEW k \in Calcs,
         call[c][k] # None, call[c][k].stage # "sent"
  PROVE  /\ call[c][k] \in Saving /\ AnswerInv(quotes, call[c][k])
         /\ SaveInv(quotes, call[c][k], screen[c], slice[c][k])
         /\ call[c][k].quote \in LiveQuote
         /\ call[c][k].msg.origin \in (0..MaxId) \cup {Gone}
         /\ \A d \in BOOLEAN : [active |-> call[c][k].id, version |-> call[c][k].quote.version,
                                dirty |-> d] \in Screens
<1> DEFINE s == call[c][k]
<1>1. s \in Saving /\ SaveInv(quotes, s, screen[c], slice[c][k])
  BY CalcFacts
<1>2. AnswerInv(quotes, s)
  BY <1>1 DEF SaveInv
<1>3. s.quote \in LiveQuote /\ s.id \in 0..MaxId /\ s.msg \in Messages
  BY <1>1, <1>2 DEF AnswerInv, Saving
<1>4. s.quote.version \in 0..MaxVersion
  BY <1>3 DEF LiveQuote
<1>5. s.msg.origin \in (0..MaxId) \cup {Gone}
  BY <1>3 DEF Messages
<1> QED BY <1>1, <1>2, <1>3, <1>4, <1>5 DEF Screens

LEMMA SavedStep ==
  ASSUME Careful, EditInv, NEW c \in Clients, NEW k \in Calcs, Saved(c, k)
  PROVE  EditInv'
<1> DEFINE s == call[c][k]
           w == [active |-> s.id, version |-> s.quote.version, dirty |-> FALSE]
           old == slice[c][k]
           new == [old EXCEPT !.origin = s.msg.origin, !.seen = s.quote.content]
<1>1. s # None /\ s.stage = "saved"
  BY DEF Saved
<1>2. /\ AnswerInv(quotes, s) /\ w \in Screens
      /\ SaveInv(quotes, s, screen[c], old)
      /\ s.quote \in LiveQuote /\ s.msg.origin \in (0..MaxId) \cup {Gone}
  BY <1>1, AnswerFacts
<1>3. old \in Slices /\ SliceInv(quotes, screen[c], old) /\ s.quote.content \in Contents
  BY <1>2, CalcFacts DEF LiveQuote
<1>4. /\ screen' = [screen EXCEPT ![c] = w] /\ call' = [call EXCEPT ![c][k] = None]
      /\ UNCHANGED <<quotes, adrift, resets>>
  BY DEF Saved
<1>5. CASE s.left
  <2>1. slice' = [slice EXCEPT ![c][k] = old]
    BY <1>5, CalcFacts DEF Saved
  <2>2. w.active = s.id /\ s.id # 0
    BY <1>2 DEF AnswerInv, Ids
  <2>3. old.origin = 0 /\ old.content = old.seen
    BY <1>2, <1>3, <1>5 DEF SaveInv, SliceInv
  <2> HIDE DEF s, w, old
  <2>4. SliceInv(quotes, w, old)
    BY <2>2, <2>3 DEF SliceInv
  <2> QED BY <1>2, <1>3, <1>4, <2>1, <2>4, LocalStep
<1>6. CASE ~s.left
  <2>1. slice' = [slice EXCEPT ![c][k] = new]
    <3>1. slice' = [slice EXCEPT ![c][k].origin = s.msg.origin, ![c][k].seen = s.quote.content]
      BY <1>6 DEF Saved
    <3>2. slice \in [Clients -> [Calcs -> Slices]]
      BY DEF EditInv, TypeOK
    <3> QED BY <3>1, <3>2
  <2>2. new \in Slices /\ new.origin = s.msg.origin /\ new.seen = s.quote.content
        /\ new.content = old.content
    BY <1>2, <1>3 DEF Slices
  <2>3. w.active = s.id /\ w.version = s.quote.version
    OBVIOUS
  <2> HIDE DEF s, w, old, new
  <2>4. SliceInv(quotes, w, new)
    BY <1>1, <1>2, <1>6, <2>2, <2>3 DEF SliceInv, AnswerInv, SaveInv, s
  <2> QED BY <1>2, <1>4, <2>1, <2>2, <2>4, LocalStep
<1> QED BY <1>5, <1>6

LEMMA ConflictedStep ==
  ASSUME Careful, EditInv, NEW c \in Clients, NEW k \in Calcs, Conflicted(c, k)
  PROVE  EditInv'
<1> DEFINE s == call[c][k]
           t == [s EXCEPT !.stage = "conflict"]
           u == IF s.forced THEN None ELSE t
<1>1. s # None /\ s.stage = "refused"
  BY DEF Conflicted
<1>2. s \in Saving /\ AnswerInv(quotes, s) /\ SaveInv(quotes, s, screen[c], slice[c][k])
  BY <1>1, AnswerFacts
<1>3. /\ t \in Saving /\ t.stage = "conflict" /\ t.msg = s.msg /\ t.id = s.id
      /\ t.quote = s.quote /\ t.left = s.left
  BY <1>2 DEF Saving
<1> HIDE DEF t
<1>4. SaveInv(quotes, t, screen[c], slice[c][k])
  BY <1>1, <1>2, <1>3 DEF SaveInv, AnswerInv
<1>5. call' = [call EXCEPT ![c][k] = u] /\ UNCHANGED <<quotes, screen, slice, adrift, resets>>
  <2>1. call \in [Clients -> [Calcs -> Saving \cup {None}]]
    BY DEF EditInv, TypeOK
  <2> QED BY <2>1 DEF Conflicted, t
<1>6. u \in Saving \cup {None} /\ (u # None => SaveInv(quotes, u, screen[c], slice[c][k]))
  BY <1>3, <1>4
<1> HIDE DEF s, u
<1>7. /\ screen' = [screen EXCEPT ![c] = screen[c]]
      /\ slice' = [slice EXCEPT ![c][k] = slice[c][k]]
      /\ screen[c] \in Screens /\ slice[c][k] \in Slices
      /\ SliceInv(quotes, screen[c], slice[c][k])
  BY <1>5, CalcFacts
<1> QED BY <1>5, <1>6, <1>7, LocalStep

LEMMA CancelStep ==
  ASSUME Careful, EditInv, NEW c \in Clients, NEW k \in Calcs, CancelConflict(c, k)
  PROVE  EditInv'
<1>1. call' = [call EXCEPT ![c][k] = None] /\ UNCHANGED <<quotes, screen, slice, adrift, resets>>
  BY DEF CancelConflict
<1> QED BY <1>1, CalcFacts, LocalStep

LEMMA ReloadStep ==
  ASSUME Careful, EditInv, NEW c \in Clients, NEW k \in Calcs, Reload(c, k)
  PROVE  EditInv'
<1> DEFINE s == call[c][k]
           w == [active |-> s.id, version |-> s.quote.version, dirty |-> FALSE]
           sl == Shown(s.quote, s.msg.origin)
<1>1. s # None /\ s.stage = "conflict"
  BY DEF Reload, InConflict
<1>2. /\ AnswerInv(quotes, s) /\ w \in Screens
      /\ s.quote \in LiveQuote /\ s.msg.origin \in (0..MaxId) \cup {Gone}
  BY <1>1, AnswerFacts
<1>3. sl \in Slices
  BY <1>2 DEF Shown, Slices, LiveQuote
<1>4. SliceInv(quotes, w, sl)
  BY <1>2 DEF SliceInv, AnswerInv, Shown
<1>5. /\ screen' = [screen EXCEPT ![c] = w] /\ slice' = [slice EXCEPT ![c][k] = sl]
      /\ call' = [call EXCEPT ![c][k] = None] /\ UNCHANGED <<quotes, adrift, resets>>
  BY DEF Reload
<1> HIDE DEF w, sl
<1> QED BY <1>2, <1>3, <1>4, <1>5, LocalStep

LEMMA BreaksStep ==
  ASSUME Careful, EditInv, NEW c \in Clients, NEW k \in Calcs, Breaks(c, k)
  PROVE  EditInv'
<1> DEFINE s == call[c][k]
<1>1. s \in Saving /\ SaveInv(quotes, s, screen[c], slice[c][k])
  BY CalcFacts DEF Breaks
<1>2. s.msg \in Messages
  BY <1>1 DEF Saving
<1>3. s.stage = "sent" => MessageInv(quotes, s.msg)
  BY <1>1 DEF SaveInv
<1>4. /\ call' = [call EXCEPT ![c][k] = None] /\ UNCHANGED <<quotes, screen, slice, resets>>
      /\ adrift' = IF s.stage = "sent" THEN adrift \cup {s.msg} ELSE adrift
  BY DEF Breaks
<1> HIDE DEF s
<1>5. quotes' = quotes
  BY <1>4
<1>6. quotes' \in LiveLists /\ Grows(quotes, quotes')
  BY <1>5, Stays DEF EditInv
<1>7. /\ adrift' \subseteq Messages /\ \A m \in adrift' : MessageInv(quotes, m)
      /\ resets' \in LookUps
  BY <1>2, <1>3, <1>4 DEF EditInv, TypeOK, LateInv, LookUps
<1>8. LateInv'
  BY <1>5, <1>7 DEF LateInv
<1>9. SliceInv(quotes', screen[c], slice[c][k])
  BY <1>5, CalcFacts
<1>10. screen' = [screen EXCEPT ![c] = screen[c]] /\ slice' = [slice EXCEPT ![c][k] = slice[c][k]]
  BY <1>4, CalcFacts
<1> QED BY <1>4, <1>6, <1>7, <1>8, <1>9, <1>10, CalcFacts, ClientStep

\* The server answers: with the quote as saved, or with the current one.
AcceptAs(c, k, id) ==
    /\ call[c][k] # None /\ call[c][k].stage = "sent"
    /\ WithinBounds(quotes, call[c][k].msg.req)
    /\ Upserts(quotes, call[c][k].msg.req, quotes')
    /\ quotes'[id] # quotes[id]
    /\ call' = [call EXCEPT ![c][k] =
                   [@ EXCEPT !.stage = "saved", !.id = id,
                             !.quote = quotes'[id], !.msg.origin = id]]
    /\ UNCHANGED <<screen, slice, adrift, resets>>

Refuse(c, k) ==
    /\ call[c][k] # None /\ call[c][k].stage = "sent"
    /\ Refused(quotes, call[c][k].msg.req)
    /\ call' = [call EXCEPT ![c][k] =
                   [@ EXCEPT !.stage = "refused", !.id = call[c][k].msg.req.id,
                             !.quote = quotes[call[c][k].msg.req.id],
                             !.msg.origin = call[c][k].msg.req.id]]
    /\ UNCHANGED <<quotes, screen, slice, adrift, resets>>

\* A save whose answer has come in: with the quote as saved, or with the current one.
WithAnswer(s, stage, id, q) ==
    [s EXCEPT !.stage = stage, !.id = id, !.quote = q, !.msg.origin = id]

LEMMA SavingAnswered ==
  ASSUME NEW s \in Saving, NEW id \in Ids, NEW q \in LiveQuote, NEW stage \in {"saved", "refused"}
  PROVE  LET t == WithAnswer(s, stage, id, q)
         IN  /\ t \in Saving /\ t.stage = stage /\ t.id = id /\ t.quote = q
             /\ t.left = s.left /\ t.msg.req = s.msg.req /\ t.msg.origin = id
<1> DEFINE m == [s.msg EXCEPT !.origin = id]
           t == WithAnswer(s, stage, id, q)
<1>1. m \in Messages /\ id \in 0..MaxId /\ m.req = s.msg.req /\ m.origin = id
  BY BoundAssumption DEF Saving, Messages, Ids
<1>2. t = [s EXCEPT !.stage = stage, !.id = id, !.quote = q, !.msg = m]
  BY DEF WithAnswer, Saving
<1> HIDE DEF m, t
<1>3. t \in Saving /\ t.stage = stage /\ t.id = id /\ t.quote = q
      /\ t.left = s.left /\ t.msg = m
  BY <1>1, <1>2 DEF Saving
<1> QED BY <1>1, <1>3 DEF t

LEMMA AcceptStep ==
  ASSUME Careful, EditInv, NEW c \in Clients, NEW k \in Calcs,
         NEW id \in Ids, AcceptAs(c, k, id)
  PROVE  EditInv'
<1> DEFINE s == call[c][k]
           r == s.msg.req
           t == [s EXCEPT !.stage = "saved", !.id = id, !.quote = quotes'[id],
                          !.msg.origin = id]
<1>1. s \in Saving /\ s.stage = "sent" /\ SaveInv(quotes, s, screen[c], slice[c][k])
  BY CalcFacts DEF AcceptAs
<1>2. r \in Requests /\ r.kind \in {"post", "patch"}
  BY <1>1 DEF SaveInv, Saving, Messages
<1>3. quotes \in LiveLists
  BY Stays DEF EditInv
<1>4. /\ quotes' \in LiveLists /\ Grows(quotes, quotes') /\ quotes'[id] # Absent
      /\ r.kind = "patch" => id = r.id
      /\ quotes'[id].content = r.content
  <2> HIDE DEF s, r
  <2>1. Upserts(quotes, r, quotes') /\ WithinBounds(quotes, r)
    BY DEF AcceptAs, r, s
  <2>2. quotes'[id] # quotes[id]
    BY DEF AcceptAs
  <2> QED BY <1>2, <1>3, <2>1, <2>2, UpsertsGrow
<1>5. quotes'[id] \in LiveQuote
  BY <1>4 DEF LiveLists
<1>7. /\ t.msg.req = r /\ t.msg.origin = id
      /\ t.stage = "saved" /\ t.id = id /\ t.quote = quotes'[id] /\ t.left = s.left
  <2>1. t = WithAnswer(s, "saved", id, quotes'[id])
    BY DEF WithAnswer
  <2> HIDE DEF s, t
  <2> QED BY <1>1, <1>5, <2>1, SavingAnswered
<1>8. t \in Saving
  <2>1. t = WithAnswer(s, "saved", id, quotes'[id])
    BY DEF WithAnswer
  <2> HIDE DEF s, t
  <2> QED BY <1>1, <1>5, <2>1, SavingAnswered
<1>9. call' = [call EXCEPT ![c][k] = t] /\ UNCHANGED <<screen, slice, adrift, resets>>
  BY DEF AcceptAs
<1>10. Known(quotes', id, t.quote.version, t.quote.content)
  BY <1>4, <1>5, <1>7 DEF Known, LiveQuote
<1>11. AnswerInv(quotes', t)
  BY <1>4, <1>7, <1>10 DEF AnswerInv
<1>12. SaveInv(quotes', t, screen[c], slice[c][k])
  BY <1>1, <1>2, <1>4, <1>7, <1>11 DEF SaveInv
<1>13. SliceInv(quotes', screen[c], slice[c][k])
  BY <1>3, <1>4, CalcFacts, SliceKept
<1>14. LateInv' /\ adrift' \subseteq Messages /\ resets' \in LookUps
  BY <1>4, <1>9, LateKept DEF EditInv, TypeOK, LookUps
<1>15. /\ screen' = [screen EXCEPT ![c] = screen[c]]
       /\ slice' = [slice EXCEPT ![c][k] = slice[c][k]]
       /\ screen[c] \in Screens /\ slice[c][k] \in Slices
  BY <1>9, CalcFacts
<1> HIDE DEF s, t
<1> QED BY <1>4, <1>8, <1>9, <1>12, <1>13, <1>14, <1>15, ClientStep

LEMMA RefuseStep ==
  ASSUME Careful, EditInv, NEW c \in Clients, NEW k \in Calcs, Refuse(c, k)
  PROVE  EditInv'
<1> DEFINE s == call[c][k]
           r == s.msg.req
           t == [s EXCEPT !.stage = "refused", !.id = r.id, !.quote = quotes[r.id],
                          !.msg.origin = r.id]
<1>1. s \in Saving /\ SaveInv(quotes, s, screen[c], slice[c][k])
  BY CalcFacts DEF Refuse
<1>2. s.msg \in Messages /\ r \in Requests
  BY <1>1 DEF Saving, Messages
<1>3. r.kind = "patch" /\ quotes[r.id] # Absent
  BY <1>1 DEF Refuse, Refused, SaveInv
<1>4. r.id \in Ids
  BY <1>2, <1>3 DEF Requests, Ids
<1>5. quotes[r.id] \in LiveQuote
  BY <1>3, <1>4 DEF EditInv, TypeOK
<1>6. /\ t \in Saving /\ t.stage = "refused" /\ t.id = r.id /\ t.quote = quotes[r.id]
      /\ t.msg.req = r /\ t.msg.origin = r.id /\ t.left = s.left
  <2> DEFINE n == r.id
             q == quotes[n]
  <2>1. t = WithAnswer(s, "refused", n, q)
    BY DEF WithAnswer
  <2>2. s \in Saving /\ n \in Ids /\ q \in LiveQuote
    BY <1>1, <1>4, <1>5
  <2> HIDE DEF s, t, n, q
  <2>3. /\ t \in Saving /\ t.stage = "refused" /\ t.id = n /\ t.quote = q
        /\ t.left = s.left /\ t.msg.req = s.msg.req /\ t.msg.origin = n
    BY <2>1, <2>2, SavingAnswered
  <2>4. n = r.id /\ q = quotes[r.id]
    BY DEF n, q
  <2> QED BY <2>3, <2>4
<1>7. call' = [call EXCEPT ![c][k] = t] /\ UNCHANGED <<quotes, screen, slice, adrift, resets>>
  BY DEF Refuse
<1>8. Known(quotes, r.id, t.quote.version, t.quote.content)
  BY <1>3, <1>5, <1>6 DEF Known, LiveQuote
<1>9. ~s.left => r.id = screen[c].active
  BY <1>1, <1>3 DEF SaveInv
<1>10. AnswerInv(quotes, t)
  BY <1>3, <1>4, <1>6, <1>8 DEF AnswerInv
<1>11. SaveInv(quotes, t, screen[c], slice[c][k])
  BY <1>1, <1>3, <1>6, <1>9, <1>10 DEF SaveInv
<1>12. /\ screen' = [screen EXCEPT ![c] = screen[c]]
       /\ slice' = [slice EXCEPT ![c][k] = slice[c][k]]
       /\ screen[c] \in Screens /\ slice[c][k] \in Slices
       /\ SliceInv(quotes, screen[c], slice[c][k])
  BY <1>7, CalcFacts
<1> HIDE DEF s, t
<1> QED BY <1>6, <1>7, <1>11, <1>12, LocalStep

LEMMA HandleStep ==
  ASSUME Careful, EditInv, NEW c \in Clients, NEW k \in Calcs, Handle(c, k)
  PROVE  EditInv'
BY AcceptStep, RefuseStep DEF Handle, AcceptAs, Refuse

-----------------------------------------------------------------------------
LEMMA HandleLateStep ==
  ASSUME EditInv, NEW m \in adrift, HandleLate(m)
  PROVE  EditInv'
<1>1. m \in Messages /\ m.req \in Requests /\ m.req.kind \in {"post", "patch"}
  BY DEF EditInv, TypeOK, LateInv, MessageInv, Messages
<1>2. quotes \in LiveLists /\ Grows(quotes, quotes)
  BY Stays DEF EditInv
<1>5. resets' \in LookUps
  BY DEF HandleLate, EditInv, TypeOK, LookUps
<1>3. CASE UNCHANGED quotes
  <2>1. quotes' \in LiveLists /\ Grows(quotes, quotes')
    BY <1>2, <1>3
  <2> QED BY <1>5, <2>1, ListStep DEF HandleLate
<1>4. CASE WithinBounds(quotes, m.req) /\ Upserts(quotes, m.req, quotes')
  <2>1. quotes' \in LiveLists /\ Grows(quotes, quotes')
    BY <1>1, <1>2, <1>4, UpsertsGrow
  <2> QED BY <1>5, <2>1, ListStep DEF HandleLate
<1> QED BY <1>3, <1>4 DEF HandleLate

\* Requests that are not saves.
LEMMA AboutFacts ==
  ASSUME NEW kind \in {"trash", "restore", "transition", "purge"}, NEW id \in Ids,
         NEW st \in Statuses, st = "draft" \/ kind = "transition"
  PROVE  /\ About(kind, id, st) \in Requests
         /\ About(kind, id, st).kind = kind /\ About(kind, id, st).id = id
<1>1. id \in 0..MaxId /\ id # 0
  BY BoundAssumption DEF Ids
<1> QED BY <1>1 DEF About, Requests, Kinds, LockedKinds

LEMMA ApproveStep ==
  ASSUME EditInv, NEW id \in Ids, NEW st \in Statuses, Approve(id, st)
  PROVE  EditInv'
<1>1. About("transition", id, st) \in Requests
  BY AboutFacts
<1>2. quotes' \in LiveLists /\ Grows(quotes, quotes')
  BY <1>1, Stays, TransitionsGrow DEF Approve, EditInv
<1>3. resets' \in LookUps
  BY DEF Approve, EditInv, TypeOK, LookUps
<1> QED BY <1>2, <1>3, ListStep DEF Approve

LEMMA MarkStep ==
  ASSUME EditInv, NEW id \in Ids, Mark(id)
  PROVE  EditInv'
<1>1. PICK kind \in {"trash", "restore"} :
        /\ WithinBounds(quotes, About(kind, id, "draft"))
        /\ Upserts(quotes, About(kind, id, "draft"), quotes')
  BY DEF Mark
<1> DEFINE r == About(kind, id, "draft")
<1>2. r \in Requests /\ quotes[r.id] # Absent
  BY AboutFacts, QuoteAssumption DEF Mark
<1> HIDE DEF r
<1>3. WithinBounds(quotes, r) /\ Upserts(quotes, r, quotes')
  BY <1>1 DEF r
<1>4. quotes' \in LiveLists /\ Grows(quotes, quotes')
  BY <1>2, <1>3, Stays, UpsertsGrow DEF EditInv
<1>5. resets' \in LookUps
  BY DEF Mark, EditInv, TypeOK, LookUps
<1> QED BY <1>4, <1>5, ListStep DEF Mark

LEMMA PurgeStep ==
  ASSUME EditInv, NEW id \in Ids, Purge(id)
  PROVE  EditInv'
<1> DEFINE new == [quotes EXCEPT ![id] = Absent]
<1>1. quotes \in LiveLists
  BY Stays DEF EditInv
<1>2. quotes' = new
  <2>1. About("purge", id, "draft").id = id
    BY DEF About
  <2> QED BY <2>1 DEF Purge, Purges
<1>3. /\ \A c \in Clients, k \in Calcs : slice'[c][k] = OfSlice(slice[c][k], id)
      /\ slice' = [c \in Clients |-> [k \in Calcs |-> slice'[c][k]]]
      /\ \A c \in Clients, k \in Calcs :
           call'[c][k] = IF call[c][k] = None THEN None ELSE OfSave(call[c][k], id)
      /\ call' = [c \in Clients |-> [k \in Calcs |-> call'[c][k]]]
      /\ adrift' = {OfMessage(m, id) : m \in adrift} /\ screen' = screen
      /\ resets' = resets
  BY DEF Purge, OfSlice, OfSave, OfMessage
<1>4. new \in LiveLists
  BY <1>1 DEF LiveLists
<1>5. \A c \in Clients, k \in Calcs :
        slice'[c][k] \in Slices /\ call'[c][k] \in Saving \cup {None}
  BY <1>3, CalcFacts, PurgedTypes
<1>6. adrift' \subseteq Messages
  BY <1>3, PurgedTypes DEF EditInv, TypeOK
<1>7. TypeOK'
  <2>1. slice' \in [Clients -> [Calcs -> Slices]]
    BY <1>3, <1>5
  <2>2. call' \in [Clients -> [Calcs -> Saving \cup {None}]]
    BY <1>3, <1>5
  <2> QED BY <1>2, <1>3, <1>4, <1>6, <2>1, <2>2 DEF EditInv, TypeOK, LiveLists
<1> HIDE DEF new
<1>8. ASSUME NEW c \in Clients, NEW k \in Calcs PROVE CalcInv(c, k)'
  <2>1. SliceInv(new, screen[c], OfSlice(slice[c][k], id))
    BY <1>1, CalcFacts, SlicePurged DEF new
  <2>2. call[c][k] # None =>
          SaveInv(new, OfSave(call[c][k], id), screen[c], OfSlice(slice[c][k], id))
    BY <1>1, CalcFacts, SavePurged DEF new
  <2> QED BY <1>2, <1>3, <2>1, <2>2 DEF CalcInv
<1>9. LateInv'
  <2>1. ASSUME NEW m \in adrift PROVE MessageInv(new, OfMessage(m, id))
    BY <1>1, MessagePurged DEF EditInv, TypeOK, LateInv, new
  <2> QED BY <1>2, <1>3, <2>1 DEF LateInv
<1> QED BY <1>7, <1>8, <1>9 DEF EditInv

LEMMA EditInvStep == ASSUME Careful, EditInv, [Next]_vars PROVE EditInv'
<1>1. CASE UNCHANGED vars
  <2>1. quotes' = quotes /\ UNCHANGED <<screen, slice, call>> /\ adrift' = adrift
    BY <1>1 DEF vars
  <2>2. quotes' \in LiveLists /\ Grows(quotes, quotes') /\ resets' \in LookUps
    BY <1>1, <2>1, Stays DEF EditInv, vars, TypeOK, LookUps
  <2> QED BY <2>1, <2>2, ListStep
<1>2. CASE Others
  BY <1>2, HandleLateStep, MarkStep, PurgeStep, ApproveStep DEF Others
<1>3. ASSUME NEW c \in Clients, User(c) PROVE EditInv'
  BY <1>3, OpenStep, NewStep, EditStep, SaveAsNewStep, UpdateStep, ReloadStep,
     OverwriteStep, CancelStep DEF User
<1>4. ASSUME NEW c \in Clients, Network(c) PROVE EditInv'
  BY <1>4, HandleStep, SavedStep, ConflictedStep, BreaksStep, ResetStep DEF Network
<1> QED BY <1>1, <1>2, <1>3, <1>4 DEF Next

\* The invariant of careful editing.
THEOREM EditInvariance == ASSUME Careful PROVE Spec => []EditInv
<1>1. Init => EditInv
  <2> SUFFICES ASSUME Init PROVE EditInv
    OBVIOUS
  <2>1. TypeOK
    BY EditingAssumption, QuoteAssumption, BoundAssumption
       DEF Init, TypeOK, EmptyList, Empty, Screens, Slices
  <2>2. ASSUME NEW c \in Clients, NEW k \in Calcs PROVE CalcInv(c, k)
    BY DEF Init, CalcInv, SliceInv, Empty
  <2>3. LateInv
    BY DEF Init, LateInv
  <2> QED BY <2>1, <2>2, <2>3 DEF EditInv
<1> QED BY <1>1, EditInvStep, PTL DEF Spec

\* What is not saved is marked as unsaved.
THEOREM UnsavedShows == ASSUME Careful PROVE Spec => []UnsavedIsMarked
<1>1. ASSUME EditInv PROVE UnsavedIsMarked
  BY <1>1 DEF EditInv, CalcInv, SliceInv, UnsavedIsMarked
<1> QED BY <1>1, EditInvariance, PTL

-----------------------------------------------------------------------------
\* Only the server's answer makes a save an accepted one.
LEMMA AcceptsByUpsert ==
  ASSUME Careful, EditInv, [Next]_vars, NEW c \in Clients, NEW k \in Calcs, AcceptsSave(c, k)
  PROVE  Upserts(quotes, call[c][k].msg.req, quotes')
<1>1. call[c][k] # None /\ call[c][k].stage = "sent" /\ call[c][k] \in Saving
      /\ call'[c][k] # None /\ call'[c][k].stage = "saved"
  BY CalcFacts DEF AcceptsSave
<1>2. ~AtWork(c)
  BY <1>1, Idles
<1>3. call' # call
  BY <1>1
<1>4. ~UNCHANGED vars
  BY <1>3 DEF vars
<1>5. ~Others
  <2>1. ASSUME NEW id \in Ids, Purge(id) PROVE FALSE
    <3>1. call'[c][k] = IF call[c][k].msg.origin = id
                        THEN [call[c][k] EXCEPT !.msg.origin = Gone] ELSE call[c][k]
      BY <1>1, <2>1 DEF Purge
    <3>2. call'[c][k].stage = "sent"
      BY <1>1, <3>1 DEF Saving
    <3> QED BY <1>1, <3>2
  <2> QED BY <1>3, <2>1 DEF Others, HandleLate, Mark, Approve
<1>6. ASSUME NEW d \in Clients, User(d) \/ Network(d) PROVE d = c
  <2> SUFFICES ASSUME d # c PROVE FALSE
    OBVIOUS
  <2>1. call \in [Clients -> [Calcs -> Saving \cup {None}]]
    BY DEF EditInv, TypeOK
  <2>2. ASSUME NEW j, NEW s, call' = [call EXCEPT ![d][j] = s] PROVE FALSE
    BY <1>1, <2>1, <2>2
  <2>3. ASSUME User(d) PROVE FALSE
    BY <1>3, <2>2, <2>3 DEF User, Open, New, Edit, SaveAsNew, Update, Reload, Overwrite,
                            CancelConflict, Send
  <2>4. ASSUME Network(d) PROVE FALSE
    BY <2>2, <2>4 DEF Network, Handle, Saved, Conflicted, Breaks, Reset
  <2> QED BY <1>6, <2>3, <2>4
<1>7. ~User(c)
  <2>1. \A j \in Calcs : ~InConflict(c, j)
    BY <1>1 DEF InConflict, Careful
  <2> QED BY <1>2, <2>1 DEF User, Open, New, Edit, SaveAsNew, Update, Reload, Overwrite,
                            CancelConflict
<1>8. PICK j \in Calcs :
        Handle(c, j) \/ Saved(c, j) \/ Conflicted(c, j) \/ Breaks(c, j) \/ Reset(c, j)
  BY <1>4, <1>5, <1>6, <1>7 DEF Next, Network
<1>9. j = k
  BY DEF Careful
<1>10. Handle(c, k)
  <2>1. ASSUME Reset(c, k) PROVE FALSE
    <3> DEFINE s == call[c][k]
    <3>1. call'[c][k] = [s EXCEPT !.left = TRUE]
      BY <1>1, <2>1 DEF Reset, Leave, EditInv, TypeOK
    <3> HIDE DEF s
    <3>2. call'[c][k].stage = s.stage
      BY <1>1, <3>1 DEF Saving, s
    <3> QED BY <1>1, <3>2 DEF s
  <2> QED BY <1>1, <1>8, <1>9, <2>1, CalcFacts DEF Saved, Conflicted, Breaks, EditInv, TypeOK
<1>11. ~Refuse(c, k)
  <2> SUFFICES ASSUME Refuse(c, k) PROVE FALSE
    OBVIOUS
  <2> DEFINE s == call[c][k]
             n == s.msg.req.id
             q == quotes[n]
  <2>1. call'[c][k] = [s EXCEPT !.stage = "refused", !.id = n, !.quote = q, !.msg.origin = n]
    BY DEF Refuse, EditInv, TypeOK
  <2> HIDE DEF n, q
  <2>2. call'[c][k].stage = "refused"
    BY <1>1, <2>1 DEF Saving
  <2> QED BY <1>1, <2>2
<1> QED BY <1>10, <1>11 DEF Handle, Refuse

LEMMA LateByUpsert ==
  ASSUME EditInv, [Next]_vars, NEW m \in adrift, AcceptsLate(m)
  PROVE  Upserts(quotes, m.req, quotes')
<1>1. m.req.kind = "patch" /\ m \in Messages /\ m \notin adrift'
      /\ quotes'[m.req.id] \notin {quotes[m.req.id], Absent}
  BY DEF AcceptsLate, EditInv, TypeOK
<1>2. m.req.id \in Ids
  BY <1>1 DEF Messages, Requests, Ids
<1>3. adrift' # adrift /\ ~(adrift \subseteq adrift') /\ quotes' # quotes
  BY <1>1
<1>4. PICK n \in adrift : HandleLate(n)
  <2>1. ASSUME NEW id \in Ids, Purge(id) PROVE FALSE
    <3>1. quotes' = [quotes EXCEPT ![id] = Absent]
      <4>1. About("purge", id, "draft").id = id
        BY DEF About
      <4> QED BY <2>1, <4>1 DEF Purge, Purges
    <3> QED BY <1>1, <1>2, <3>1 DEF EditInv, TypeOK
  <2>2. ~UNCHANGED vars
    BY <1>3 DEF vars
  <2>3. ASSUME NEW d \in Clients, User(d) \/ Network(d) PROVE FALSE
    BY <1>3, <2>3 DEF User, Network, Open, New, Edit, SaveAsNew, Update, Reload, Overwrite,
                      CancelConflict, Send, Handle, Saved, Conflicted, Breaks, Reset
  <2> QED BY <1>3, <2>1, <2>2, <2>3 DEF Next, Others, Mark, Approve
<1>5. adrift \ {n} = adrift \ {m}
  BY <1>4 DEF HandleLate, AcceptsLate
<1>6. n = m
  BY <1>5
<1> QED BY <1>3, <1>4, <1>6 DEF HandleLate

\* No save silently overwrites another user's work: every update the server
\* accepts, in time or late, replaces what its user was shown.
THEOREM NoLostWork == ASSUME Careful PROVE Spec => NoSilentOverwrite
<1>1. ASSUME EditInv, [Next]_vars, NEW c \in Clients, NEW k \in Calcs, AcceptsSave(c, k)
      PROVE  ReplacesWhatWasSeen(call[c][k].msg)
  <2>1. call[c][k].msg \in Messages /\ MessageInv(quotes, call[c][k].msg)
    BY <1>1, CalcFacts DEF AcceptsSave, SaveInv, Saving
  <2> QED BY <1>1, <2>1, AcceptsByUpsert, SeenReplaced DEF ReplacesWhatWasSeen
<1>2. ASSUME EditInv, [Next]_vars, NEW m \in adrift, AcceptsLate(m)
      PROVE  ReplacesWhatWasSeen(m)
  <2>1. m \in Messages /\ MessageInv(quotes, m)
    BY <1>2 DEF EditInv, TypeOK, LateInv
  <2> QED BY <1>2, <2>1, LateByUpsert, SeenReplaced DEF ReplacesWhatWasSeen
<1>3. ASSUME EditInv, [Next]_vars
      PROVE  /\ \A c \in Clients, k \in Calcs :
                  AcceptsSave(c, k) => ReplacesWhatWasSeen(call[c][k].msg)
             /\ \A m \in adrift : AcceptsLate(m) => ReplacesWhatWasSeen(m)
  BY <1>1, <1>2, <1>3
<1> QED BY <1>3, EditInvariance, PTL DEF Spec, NoSilentOverwrite
-----------------------------------------------------------------------------
(* The types, for every use of the calculators.                              *)
Answered(s) ==
    /\ s.msg.req.kind \in {"post", "patch"}
    /\ s.stage # "sent" => s.id \in Ids /\ s.quote \in LiveQuote

SteadyInv ==
    /\ TypeOK
    /\ \A c \in Clients, k \in Calcs : call[c][k] # None => Answered(call[c][k])
    /\ \A m \in adrift : m.req.kind \in {"post", "patch"}

\* A step of the client c in calculator k.
LEMMA SteadyClient ==
  ASSUME SteadyInv, NEW c \in Clients, NEW k \in Calcs,
         NEW w \in Screens, NEW sl \in Slices, NEW s \in Saving \cup {None},
         screen' = [screen EXCEPT ![c] = w], slice' = [slice EXCEPT ![c][k] = sl],
         call' = [call EXCEPT ![c][k] = s], quotes' \in LiveLists,
         \A m \in adrift' : m \in Messages /\ m.req.kind \in {"post", "patch"},
         resets' \in LookUps, s # None => Answered(s)
  PROVE  SteadyInv'
<1>1. TypeOK'
  BY DEF SteadyInv, TypeOK, LiveLists, LookUps
<1>2. /\ call'[c][k] = s
      /\ \A j \in Calcs \ {k} : call'[c][j] = call[c][j]
      /\ \A d \in Clients \ {c} : call'[d] = call[d]
  BY DEF SteadyInv, TypeOK
<1> QED BY <1>1, <1>2 DEF SteadyInv

\* The same for a step that the server has no part in.
LEMMA SteadyLocal ==
  ASSUME SteadyInv, NEW c \in Clients, NEW k \in Calcs,
         NEW w \in Screens, NEW sl \in Slices, NEW s \in Saving \cup {None},
         screen' = [screen EXCEPT ![c] = w], slice' = [slice EXCEPT ![c][k] = sl],
         call' = [call EXCEPT ![c][k] = s], UNCHANGED <<quotes, adrift>>,
         resets' \in LookUps, s # None => Answered(s)
  PROVE  SteadyInv'
<1>1. quotes' \in LiveLists
  BY DEF SteadyInv, TypeOK, LiveLists
<1>2. \A m \in adrift' : m \in Messages /\ m.req.kind \in {"post", "patch"}
  BY DEF SteadyInv, TypeOK
<1> QED BY <1>1, <1>2, SteadyClient

\* A step with the answer or the dialog of the call in calculator k.
LEMMA SteadyCall ==
  ASSUME SteadyInv, NEW c \in Clients, NEW k \in Calcs, call[c][k] # None
  PROVE  /\ call[c][k] \in Saving /\ Answered(call[c][k])
         /\ call[c][k].msg \in Messages /\ call[c][k].msg.req \in Requests
         /\ call[c][k].stage # "sent" =>
              /\ call[c][k].quote.version \in 0..MaxVersion
              /\ call[c][k].quote.content \in Contents
              /\ \A o \in (0..MaxId) \cup {Gone} : Shown(call[c][k].quote, o) \in Slices
              /\ [active |-> call[c][k].id, version |-> call[c][k].quote.version,
                  dirty |-> FALSE] \in Screens
<1> DEFINE s == call[c][k]
<1>1. s \in Saving /\ Answered(s)
  BY DEF SteadyInv, TypeOK
<1>2. s.msg \in Messages /\ s.msg.req \in Requests /\ s.id \in 0..MaxId
  BY <1>1 DEF Saving, Messages
<1>3. s.stage # "sent" => s.quote \in LiveQuote
  BY <1>1 DEF Answered
<1>4. ASSUME s.stage # "sent"
      PROVE  /\ s.quote.version \in 0..MaxVersion /\ s.quote.content \in Contents
             /\ s.quote.status \in Statuses
  BY <1>3, <1>4 DEF LiveQuote
<1> HIDE DEF s
<1> QED BY <1>1, <1>2, <1>4 DEF s, Screens, Slices, Shown

\* A calculator shows something else; what it is saving goes on.
LEMMA SteadyLeave ==
  ASSUME SteadyInv, NEW c \in Clients, NEW k \in Calcs
  PROVE  /\ Leave(c, k) \in Saving \cup {None}
         /\ Leave(c, k) # None => Answered(Leave(c, k))
<1>1. CASE call[c][k] = None
  BY <1>1 DEF Leave
<1>2. CASE call[c][k] # None
  <2> DEFINE s == call[c][k]
             t == [s EXCEPT !.left = TRUE]
  <2>1. s \in Saving /\ Answered(s)
    BY <1>2, SteadyCall
  <2>2. Leave(c, k) = t
    BY <1>2 DEF Leave
  <2> HIDE DEF s
  <2>3. /\ t \in Saving /\ t.msg = s.msg /\ t.stage = s.stage /\ t.id = s.id
        /\ t.quote = s.quote
    BY <2>1 DEF Saving
  <2> HIDE DEF t
  <2> QED BY <2>1, <2>2, <2>3 DEF Answered
<1> QED BY <1>1, <1>2

\* A request is sent from a calculator.
LEMMA SteadySend ==
  ASSUME SteadyInv, NEW c \in Clients, NEW k \in Calcs,
         NEW r \in Requests, NEW seen \in Contents, NEW forced \in BOOLEAN,
         Send(c, k, r, seen, forced), r.kind \in {"post", "patch"}
  PROVE  SteadyInv'
<1> DEFINE m == [req |-> r, origin |-> slice[c][k].origin, seen |-> seen]
           s == [stage |-> "sent", msg |-> m, id |-> 0, quote |-> Absent,
                 forced |-> forced, left |-> FALSE]
<1>1. m \in Messages
  BY CalcTypes DEF Messages, Slices, SteadyInv
<1>2. s \in Saving
  BY <1>1, BoundAssumption DEF Saving
<1>3. Answered(s)
  BY DEF Answered
<1>4. call' = [call EXCEPT ![c][k] = s]
  BY DEF Send
<1> HIDE DEF s
<1>5. /\ screen' = [screen EXCEPT ![c] = screen[c]]
      /\ slice' = [slice EXCEPT ![c][k] = slice[c][k]]
      /\ UNCHANGED <<quotes, adrift>> /\ resets' \in LookUps
      /\ screen[c] \in Screens /\ slice[c][k] \in Slices
  BY CalcTypes DEF SteadyInv, Send, TypeOK, LookUps
<1> QED BY <1>2, <1>3, <1>4, <1>5, SteadyLocal

LEMMA SteadyUser ==
  ASSUME SteadyInv, NEW c \in Clients, User(c) PROVE SteadyInv'
<1>1. quotes \in LiveLists /\ TypeOK /\ (resets' = resets => resets' \in LookUps)
  BY Stays DEF SteadyInv, TypeOK, LookUps
\* The user opens, empties or edits a calculator.
<1>2. ASSUME NEW id \in Ids, NEW copy \in BOOLEAN, Open(c, id, copy) PROVE SteadyInv'
  <2> DEFINE k == CalcOf[quotes[id].content]
             q == quotes[id]
             w == IF copy THEN [active |-> 0, version |-> 0, dirty |-> FALSE]
                  ELSE [active |-> id, version |-> q.version, dirty |-> FALSE]
             sl == Shown(q, IF copy THEN 0 ELSE id)
  <2>1. q \in LiveQuote
    BY <1>1, <1>2 DEF Open, LiveLists
  <2>2. k \in Calcs
    BY <2>1, EditingAssumption DEF LiveQuote
  <2>3. w \in Screens /\ sl \in Slices
    BY <2>1, BoundAssumption DEF Screens, Slices, Shown, LiveQuote, Ids
  <2>4. /\ screen' = [screen EXCEPT ![c] = w] /\ slice' = [slice EXCEPT ![c][k] = sl]
        /\ call' = [call EXCEPT ![c][k] = Leave(c, k)] /\ UNCHANGED <<quotes, adrift, resets>>
    BY <1>2 DEF Open
  <2> HIDE DEF w, sl, k
  <2> QED BY <1>1, <2>2, <2>3, <2>4, SteadyLeave, SteadyLocal
<1>3. ASSUME NEW k \in Calcs, New(c, k) PROVE SteadyInv'
  <2>1. resets' \in LookUps
    BY <1>3 DEF New, SteadyInv, TypeOK, LookUps
  <2> QED BY <1>3, <2>1 DEF New, SteadyInv, TypeOK, LookUps
<1>4. ASSUME NEW k \in Calcs, NEW x \in Contents, Edit(c, k, x) PROVE SteadyInv'
  <2> DEFINE w == [screen[c] EXCEPT !.dirty = TRUE]
             sl == [slice[c][k] EXCEPT !.content = x]
  <2>1. w \in Screens /\ sl \in Slices
    <3>1. screen[c] \in Screens /\ slice[c][k] \in Slices
      BY <1>1, CalcTypes
    <3> QED BY <3>1 DEF Screens, Slices
  <2>2. /\ screen' = [screen EXCEPT ![c] = w] /\ slice' = [slice EXCEPT ![c][k] = sl]
        /\ call' = [call EXCEPT ![c][k] = call[c][k]] /\ UNCHANGED <<quotes, adrift, resets>>
    BY <1>1, <1>4, CalcTypes DEF Edit, TypeOK
  <2>3. call[c][k] \in Saving \cup {None} /\ (call[c][k] # None => Answered(call[c][k]))
    BY <1>1, CalcTypes, SteadyCall
  <2> HIDE DEF w, sl
  <2> QED BY <1>1, <2>1, <2>2, <2>3, SteadyLocal
<1>5. ASSUME NEW k \in Calcs, SaveAsNew(c, k) PROVE SteadyInv'
  <2> DEFINE r == [kind |-> "post", id |-> 0, content |-> slice[c][k].content,
                   status |-> slice[c][k].status, expect |-> NoVersion]
  <2>1. /\ slice[c][k].content \in Contents /\ slice[c][k].status \in Statuses
        /\ slice[c][k].seen \in Contents
    BY <1>1, CalcTypes DEF Slices
  <2>2. r \in Requests
    BY <2>1, QuoteAssumption, BoundAssumption DEF Requests, Kinds, LockedKinds
  <2>3. Send(c, k, r, slice[c][k].seen, FALSE) /\ r.kind = "post"
    BY <1>5 DEF SaveAsNew
  <2> HIDE DEF r
  <2> QED BY <2>1, <2>2, <2>3, SteadySend
<1>6. ASSUME NEW k \in Calcs, Update(c, k) PROVE SteadyInv'
  <2> DEFINE r == Patch(c, k, screen[c].version)
  <2>1. screen[c].version \in 0..MaxVersion /\ slice[c][k].seen \in Contents
    BY <1>1, CalcTypes DEF Screens, Slices
  <2>2. screen[c].active # 0 /\ Send(c, k, r, slice[c][k].seen, FALSE)
    BY <1>6 DEF Update
  <2>3. r \in Requests /\ r.kind = "patch"
    BY <1>1, <2>1, <2>2, PatchFacts
  <2> HIDE DEF r
  <2> QED BY <2>1, <2>2, <2>3, SteadySend
\* The three ways out of a conflict dialog.
<1>7. ASSUME NEW k \in Calcs, Overwrite(c, k) PROVE SteadyInv'
  <2> DEFINE s == call[c][k]
             r == Patch(c, k, s.quote.version)
  <2>1. s # None /\ s.stage = "conflict" /\ screen[c].active # 0
    BY <1>7 DEF Overwrite, InConflict
  <2>2. s.quote.version \in 0..MaxVersion /\ s.quote.content \in Contents
    BY <2>1, SteadyCall
  <2>3. r \in Requests /\ r.kind = "patch"
    BY <1>1, <2>1, <2>2, PatchFacts
  <2>4. Send(c, k, r, s.quote.content, TRUE)
    BY <1>7 DEF Overwrite
  <2> HIDE DEF r, s
  <2> QED BY <2>2, <2>3, <2>4, SteadySend
<1>8. ASSUME NEW k \in Calcs, Reload(c, k) PROVE SteadyInv'
  <2> DEFINE s == call[c][k]
             w == [active |-> s.id, version |-> s.quote.version, dirty |-> FALSE]
             sl == Shown(s.quote, s.msg.origin)
  <2>1. s # None /\ s.stage = "conflict"
    BY <1>8 DEF Reload, InConflict
  <2>2. s.msg.origin \in (0..MaxId) \cup {Gone}
    BY <2>1, SteadyCall DEF Messages
  <2>3. w \in Screens /\ sl \in Slices
    BY <2>1, <2>2, SteadyCall
  <2>4. /\ screen' = [screen EXCEPT ![c] = w] /\ slice' = [slice EXCEPT ![c][k] = sl]
        /\ call' = [call EXCEPT ![c][k] = None] /\ UNCHANGED <<quotes, adrift, resets>>
    BY <1>8 DEF Reload
  <2> HIDE DEF w, sl
  <2> QED BY <1>1, <2>3, <2>4, SteadyLocal
<1>9. ASSUME NEW k \in Calcs, CancelConflict(c, k) PROVE SteadyInv'
  <2>1. /\ screen' = [screen EXCEPT ![c] = screen[c]]
        /\ slice' = [slice EXCEPT ![c][k] = slice[c][k]]
        /\ call' = [call EXCEPT ![c][k] = None] /\ UNCHANGED <<quotes, adrift, resets>>
        /\ screen[c] \in Screens /\ slice[c][k] \in Slices
    BY <1>1, <1>9, CalcTypes DEF CancelConflict
  <2> QED BY <1>1, <2>1, SteadyLocal
<1> QED BY <1>2, <1>3, <1>4, <1>5, <1>6, <1>7, <1>8, <1>9 DEF User

LEMMA SteadyNetwork ==
  ASSUME SteadyInv, NEW c \in Clients, Network(c) PROVE SteadyInv'
<1>1. /\ quotes \in LiveLists /\ TypeOK /\ (resets' = resets => resets' \in LookUps)
      /\ \A m \in adrift : m \in Messages /\ m.req.kind \in {"post", "patch"}
  BY Stays DEF SteadyInv, TypeOK, LookUps
\* The call gets an answer, or the client what it says; the screen may stay.
<1>2. ASSUME NEW k \in Calcs, NEW t \in Saving \cup {None},
             call' = [call EXCEPT ![c][k] = t], UNCHANGED <<screen, slice, adrift, resets>>,
             quotes' \in LiveLists, t # None => Answered(t)
      PROVE  SteadyInv'
  <2>1. /\ screen' = [screen EXCEPT ![c] = screen[c]]
        /\ slice' = [slice EXCEPT ![c][k] = slice[c][k]]
        /\ screen[c] \in Screens /\ slice[c][k] \in Slices
    BY <1>1, <1>2, CalcTypes
  <2>2. /\ \A m \in adrift' : m \in Messages /\ m.req.kind \in {"post", "patch"}
        /\ resets' \in LookUps
    BY <1>1, <1>2
  <2>3. call' = [call EXCEPT ![c][k] = t] /\ quotes' \in LiveLists /\ (t # None => Answered(t))
    BY <1>2
  <2> QED BY <2>1, <2>2, <2>3, SteadyClient
<1>3. ASSUME NEW k \in Calcs, NEW id \in Ids, AcceptAs(c, k, id) PROVE SteadyInv'
  <2> DEFINE s == call[c][k]
             q == quotes'[id]
             t == WithAnswer(s, "saved", id, q)
  <2>1. /\ s \in Saving /\ s.msg.req \in Requests /\ s.msg.req.kind \in {"post", "patch"}
    BY <1>3, SteadyCall DEF AcceptAs, Answered
  <2>2. quotes' \in LiveLists /\ q # Absent
    BY <1>1, <1>3, <2>1, UpsertsGrow DEF AcceptAs
  <2>3. q \in LiveQuote
    BY <2>2 DEF LiveLists
  <2>4. call' = [call EXCEPT ![c][k] = t] /\ UNCHANGED <<screen, slice, adrift, resets>>
    BY <1>3 DEF AcceptAs, WithAnswer
  <2> HIDE DEF s, q
  <2>5. /\ t \in Saving /\ t.stage = "saved" /\ t.id = id /\ t.quote = q
        /\ t.msg.req = s.msg.req
    BY <2>1, <2>3, SavingAnswered
  <2> HIDE DEF t
  <2>6. Answered(t)
    BY <2>1, <2>3, <2>5 DEF Answered
  <2> QED BY <1>2, <2>2, <2>4, <2>5, <2>6
<1>4. ASSUME NEW k \in Calcs, Refuse(c, k) PROVE SteadyInv'
  <2> DEFINE s == call[c][k]
             n == s.msg.req.id
             q == quotes[n]
             t == WithAnswer(s, "refused", n, q)
  <2>1. s \in Saving /\ s.msg.req \in Requests /\ s.msg.req.kind \in {"post", "patch"}
    BY <1>4, SteadyCall DEF Refuse, Answered
  <2>2. s.msg.req.kind = "patch" /\ q # Absent
    BY <1>4, <2>1 DEF Refuse, Refused
  <2>3. n \in Ids
    BY <2>1, <2>2 DEF Requests, Ids
  <2>4. q \in LiveQuote
    BY <1>1, <2>2, <2>3 DEF LiveLists
  <2>5. call' = [call EXCEPT ![c][k] = t]
        /\ UNCHANGED <<screen, slice, adrift, resets>> /\ quotes' = quotes
    BY <1>4 DEF Refuse, WithAnswer
  <2> HIDE DEF s, n, q
  <2>6. /\ t \in Saving /\ t.stage = "refused" /\ t.id = n /\ t.quote = q
        /\ t.msg.req = s.msg.req
    BY <2>1, <2>3, <2>4, SavingAnswered
  <2> HIDE DEF t
  <2>7. Answered(t)
    BY <2>1, <2>3, <2>4, <2>6 DEF Answered
  <2> QED BY <1>1, <1>2, <2>5, <2>6, <2>7
<1>5. ASSUME NEW k \in Calcs, Saved(c, k) PROVE SteadyInv'
  <2> DEFINE s == call[c][k]
             w == [active |-> s.id, version |-> s.quote.version, dirty |-> FALSE]
             new == [slice[c][k] EXCEPT !.origin = s.msg.origin, !.seen = s.quote.content]
             sl == IF s.left THEN slice[c][k] ELSE new
  <2>1. s # None /\ s.stage = "saved"
    BY <1>5 DEF Saved
  <2>2. w \in Screens /\ s.quote.content \in Contents /\ s.msg \in Messages
    BY <2>1, SteadyCall
  <2>3. new \in Slices
    <3>1. slice[c][k] \in Slices /\ s.msg.origin \in (0..MaxId) \cup {Gone}
      BY <1>1, <2>2, CalcTypes DEF Messages
    <3> HIDE DEF s
    <3> QED BY <2>2, <3>1 DEF Slices
  <2>4. sl \in Slices
    BY <1>1, <2>3, CalcTypes
  <2>5. slice' = [slice EXCEPT ![c][k] = sl]
    <3>1. slice \in [Clients -> [Calcs -> Slices]]
      BY <1>1 DEF TypeOK
    <3>2. CASE s.left
      BY <1>1, <1>5, <3>2, CalcTypes DEF Saved
    <3>3. CASE ~s.left
      <4>1. slice' = [slice EXCEPT ![c][k].origin = s.msg.origin,
                                   ![c][k].seen = s.quote.content]
        BY <1>5, <3>3 DEF Saved
      <4> QED BY <3>1, <3>3, <4>1
    <3> QED BY <3>2, <3>3
  <2>6. /\ screen' = [screen EXCEPT ![c] = w] /\ call' = [call EXCEPT ![c][k] = None]
        /\ UNCHANGED <<quotes, adrift, resets>>
    BY <1>5 DEF Saved
  <2> HIDE DEF w, sl
  <2> QED BY <1>1, <2>2, <2>4, <2>5, <2>6, SteadyLocal
<1>6. ASSUME NEW k \in Calcs, Conflicted(c, k) PROVE SteadyInv'
  <2> DEFINE s == call[c][k]
             t == [s EXCEPT !.stage = "conflict"]
             u == IF s.forced THEN None ELSE t
  <2>1. s # None /\ s.stage = "refused" /\ s \in Saving /\ Answered(s)
    BY <1>6, SteadyCall DEF Conflicted
  <2>2. t \in Saving /\ t.stage = "conflict" /\ t.msg = s.msg /\ t.id = s.id
        /\ t.quote = s.quote
    BY <2>1 DEF Saving
  <2>3. call' = [call EXCEPT ![c][k] = u] /\ UNCHANGED <<screen, slice, adrift, resets>>
        /\ quotes' = quotes
    BY <1>1, <1>6 DEF Conflicted, TypeOK
  <2> HIDE DEF t
  <2>4. u \in Saving \cup {None} /\ (u # None => Answered(u))
    BY <2>1, <2>2 DEF Answered
  <2> HIDE DEF u
  <2> QED BY <1>1, <1>2, <2>3, <2>4
<1>7. ASSUME NEW k \in Calcs, Breaks(c, k) PROVE SteadyInv'
  <2> DEFINE s == call[c][k]
  <2>1. s # None /\ s.msg \in Messages /\ s.msg.req.kind \in {"post", "patch"}
    BY <1>7, SteadyCall DEF Breaks, Answered
  <2>2. /\ call' = [call EXCEPT ![c][k] = None] /\ quotes' = quotes
        /\ screen' = [screen EXCEPT ![c] = screen[c]]
        /\ slice' = [slice EXCEPT ![c][k] = slice[c][k]] /\ resets' = resets
        /\ adrift' = IF s.stage = "sent" THEN adrift \cup {s.msg} ELSE adrift
    BY <1>1, <1>7, CalcTypes DEF Breaks
  <2> HIDE DEF s
  <2>3. \A m \in adrift' : m \in Messages /\ m.req.kind \in {"post", "patch"}
    BY <1>1, <2>1, <2>2
  <2> QED BY <1>1, <2>2, <2>3, CalcTypes, SteadyClient
<1>8. ASSUME NEW k \in Calcs, Reset(c, k) PROVE SteadyInv'
  <2> DEFINE w == [active |-> 0, version |-> 0, dirty |-> FALSE]
  <2>1. /\ screen' = [screen EXCEPT ![c] = w] /\ slice' = [slice EXCEPT ![c][k] = Empty(k)]
        /\ call' = [call EXCEPT ![c][k] = Leave(c, k)] /\ w \in Screens
        /\ Empty(k) \in Slices /\ resets' \in LookUps /\ UNCHANGED <<quotes, adrift>>
    BY <1>1, <1>8, Emptied
  <2> HIDE DEF w
  <2> QED BY <2>1, SteadyLeave, SteadyLocal
<1> QED BY <1>3, <1>4, <1>5, <1>6, <1>7, <1>8 DEF Network, Handle, AcceptAs, Refuse

LEMMA SteadyOthers == ASSUME SteadyInv, Others PROVE SteadyInv'
<1>1. quotes \in LiveLists
  BY Stays DEF SteadyInv
<1>2. ASSUME quotes' \in LiveLists, UNCHANGED <<screen, slice, call, resets>>,
             adrift' \subseteq adrift
      PROVE  SteadyInv'
  BY <1>2 DEF SteadyInv, TypeOK, LiveLists
<1>3. ASSUME NEW m \in adrift, HandleLate(m) PROVE SteadyInv'
  <2>1. m.req \in Requests /\ m.req.kind \in {"post", "patch"}
    BY DEF SteadyInv, TypeOK, Messages
  <2>2. quotes' \in LiveLists
    BY <1>1, <1>3, <2>1, UpsertsGrow DEF HandleLate
  <2> QED BY <1>2, <1>3, <2>2 DEF HandleLate
<1>4. ASSUME NEW id \in Ids, Mark(id) PROVE SteadyInv'
  <2>1. PICK kind \in {"trash", "restore"} :
          /\ WithinBounds(quotes, About(kind, id, "draft"))
          /\ Upserts(quotes, About(kind, id, "draft"), quotes')
    BY <1>4 DEF Mark
  <2> DEFINE r == About(kind, id, "draft")
  <2>2. r \in Requests /\ quotes[r.id] # Absent
    BY <1>4, AboutFacts, QuoteAssumption DEF Mark
  <2>3. quotes' \in LiveLists
    <3> HIDE DEF r
    <3>1. WithinBounds(quotes, r) /\ Upserts(quotes, r, quotes')
      BY <2>1 DEF r
    <3> QED BY <1>1, <2>2, <3>1, UpsertsGrow
  <2> QED BY <1>2, <1>4, <2>3 DEF Mark
<1>5. ASSUME NEW id \in Ids, NEW st \in Statuses, Approve(id, st) PROVE SteadyInv'
  <2>1. quotes' \in LiveLists
    BY <1>1, <1>5, AboutFacts, TransitionsGrow DEF Approve
  <2> QED BY <1>2, <1>5, <2>1 DEF Approve
<1>6. ASSUME NEW id \in Ids, Purge(id) PROVE SteadyInv'
  <2>1. quotes' \in LiveLists
    <3>1. quotes' = [quotes EXCEPT ![id] = Absent]
      BY <1>6 DEF Purge, Purges, About
    <3> QED BY <1>1, <3>1 DEF LiveLists
  <2>2. /\ slice' = [c \in Clients |-> [k \in Calcs |-> OfSlice(slice[c][k], id)]]
        /\ call' = [c \in Clients |-> [k \in Calcs |->
                      IF call[c][k] # None /\ call[c][k].msg.origin = id
                      THEN [call[c][k] EXCEPT !.msg.origin = Gone] ELSE call[c][k]]]
        /\ adrift' = {OfMessage(m, id) : m \in adrift} /\ screen' = screen
        /\ resets' = resets
    BY <1>6 DEF Purge, OfSlice, OfMessage
  <2>3. ASSUME NEW c \in Clients, NEW k \in Calcs
        PROVE  /\ call[c][k] = None => call'[c][k] = None
               /\ call[c][k] # None => /\ call'[c][k] = OfSave(call[c][k], id)
                                       /\ call'[c][k] \in Saving
                                       /\ Answered(call'[c][k])
    <3>1. CASE call[c][k] = None
      BY <2>2, <3>1
    <3>2. CASE call[c][k] # None
      <4> DEFINE s == call[c][k]
      <4>1. call'[c][k] = OfSave(s, id)
        BY <2>2, <3>2 DEF OfSave
      <4>2. s \in Saving /\ s.msg \in Messages /\ Answered(s)
        BY <3>2, SteadyCall
      <4> HIDE DEF s
      <4>3. OfSave(s, id) \in Saving
        BY <4>2, PurgedTypes
      <4>4. /\ OfSave(s, id).stage = s.stage /\ OfSave(s, id).id = s.id
            /\ OfSave(s, id).quote = s.quote /\ OfSave(s, id).msg.req = s.msg.req
        BY <4>2 DEF OfSave, Saving, Messages
      <4>5. Answered(OfSave(s, id))
        BY <4>2, <4>4 DEF Answered
      <4> QED BY <3>2, <4>1, <4>3, <4>5 DEF s
    <3> QED BY <3>1, <3>2
  <2>4. TypeOK'
    <3>1. slice' \in [Clients -> [Calcs -> Slices]]
      BY <2>2, CalcTypes, PurgedTypes DEF SteadyInv
    <3>2. call' \in [Clients -> [Calcs -> Saving \cup {None}]]
      <4>1. call' = [c \in Clients |-> [k \in Calcs |-> call'[c][k]]]
        BY <2>2
      <4> QED BY <2>3, <4>1
    <3>3. adrift' \subseteq Messages
      BY <2>2, PurgedTypes DEF SteadyInv, TypeOK
    <3> QED BY <2>1, <2>2, <3>1, <3>2, <3>3 DEF SteadyInv, TypeOK, LiveLists
  <2>5. \A m \in adrift : OfMessage(m, id).req = m.req
    BY DEF OfMessage, Messages, SteadyInv, TypeOK
  <2>6. \A m \in adrift' : m.req.kind \in {"post", "patch"}
    BY <2>2, <2>5 DEF SteadyInv
  <2>7. \A c \in Clients, k \in Calcs : call'[c][k] # None => Answered(call'[c][k])
    BY <2>3
  <2> QED BY <2>4, <2>6, <2>7 DEF SteadyInv
<1> QED BY <1>3, <1>4, <1>5, <1>6 DEF Others

\* The types of the editing model, for patient and impatient users and any
\* number of calculators: no answer names a quote without an id, and an
\* emptied calculator never forces a save (Overwrite).
THEOREM EditingTypes == Spec => []TypeOK
<1>1. Init => SteadyInv
  <2> SUFFICES ASSUME Init PROVE SteadyInv
    OBVIOUS
  <2>1. TypeOK
    BY EditingAssumption, QuoteAssumption, BoundAssumption
       DEF Init, TypeOK, EmptyList, Empty, Screens, Slices
  <2> QED BY <2>1 DEF Init, SteadyInv
<1>2. SteadyInv /\ [Next]_vars => SteadyInv'
  <2> SUFFICES ASSUME SteadyInv, [Next]_vars PROVE SteadyInv'
    OBVIOUS
  <2>1. CASE UNCHANGED vars
    BY <2>1 DEF vars, SteadyInv, TypeOK
  <2> QED BY <2>1, SteadyUser, SteadyNetwork, SteadyOthers DEF Next
<1>3. SteadyInv => TypeOK
  BY DEF SteadyInv
<1> QED BY <1>1, <1>2, <1>3, PTL DEF Spec
=============================================================================
