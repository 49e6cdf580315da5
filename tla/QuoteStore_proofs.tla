------------------------- MODULE QuoteStore_proofs -------------------------
(***************************************************************************)
(* Linearizability of the quote store, for every set of instances, bounds, *)
(* contents and statuses, and with lock files that cannot be had.          *)
(*                                                                         *)
(* The hypothesis is what the deployment must give: the file can be read,  *)
(* and either only requests under the `quotes` lock are in use, which read *)
(* the file whatever the backend, or every request starts from the file    *)
(* (OPS_DATA_BACKEND unset).  The run StoreDrift shows what is lost when a *)
(* purge starts from the mirror; a file that cannot be read counts as      *)
(* empty.                                                                  *)
(***************************************************************************)
EXTENDS QuoteStore, QuoteOps_proofs

Serialized == ~ReadMayFail /\ (Offered \subseteq LockedKinds \/ Backend = "file")

\* Of two sections that are open together each is marked as shared: where both
\* have their lock file it is not the same one.
AloneInv ==
    \A i, j \in Instances :
      i # j /\ section[i] # Idle /\ section[j] # Idle => section[i].shared

\* What a section has loaded is still what is stored when it saves, and what
\* it has saved is what the mirror is about to get.
FreshInv ==
    \A i \in Instances : section[i] # Idle /\ ~section[i].shared =>
        section[i].list = IF section[i].stage = "load" /\ section[i].req.kind = "replace"
                          THEN backup ELSE file

StoreInv == TypeOK /\ AloneInv /\ FreshInv /\ MirrorTracksFile

-----------------------------------------------------------------------------
\* What a request starts from is a list.
LEMMA SourcesType ==
  ASSUME TypeOK, NEW r PROVE Sources(r) \subseteq Lists
<1>1. EmptyList \in Lists
  BY DEF EmptyList, Lists
<1>2. FromFile \subseteq Lists
  BY <1>1 DEF FromFile, TypeOK
<1>3. Loads \subseteq Lists
  BY <1>2 DEF Loads, TypeOK
<1> QED BY <1>2, <1>3 DEF Sources, TypeOK

\* The section of j goes on as it was, or is now marked as shared.
GoesOn(j) ==
    /\ section'[j] = Idle <=> section[j] = Idle
    /\ section[j] # Idle =>
         /\ section'[j] \in Sections
         /\ section'[j].stage = section[j].stage
         /\ section'[j].req = section[j].req
         /\ section'[j].list = section[j].list
         /\ section[j].shared => section'[j].shared

LEMMA MarkingGoesOn ==
  ASSUME TypeOK, NEW S, NEW j \in Instances, j \in S => section[j] # Idle,
         section'[j] = Shared(S)[j]
  PROVE  /\ GoesOn(j)
         /\ j \in S => section'[j].shared
<1>1. section[j] \in Sections \cup {Idle}
  BY DEF TypeOK
<1>2. CASE j \notin S
  <2>1. section'[j] = section[j]
    BY <1>2 DEF Shared
  <2> QED BY <1>1, <1>2, <2>1 DEF GoesOn
<1>3. CASE j \in S
  <2>1. section'[j] = [section[j] EXCEPT !.shared = TRUE] /\ section[j] \in Sections
    BY <1>1, <1>3 DEF Shared
  <2>2. section'[j] \in Sections
    BY <2>1 DEF Sections
  <2>3. section'[j] # Idle
    BY <2>2, IdleAssumption
  <2> QED BY <1>3, <2>1, <2>2, <2>3 DEF GoesOn, Sections
<1> QED BY <1>2, <1>3

\* What a request does to the sections when it starts: every other section
\* that is open is marked, and its own with it.
LEMMA LoadEffect ==
  ASSUME TypeOK, NEW i \in Instances, NEW r \in Usable, Load(i, r)
  PROVE  /\ section[i] = Idle
         /\ section'[i] \in Sections /\ section'[i] # Idle
         /\ section'[i].stage = "load" /\ section'[i].req = r
         /\ section'[i].list \in Sources(r)
         /\ \A j \in Instances \ {i} :
              /\ GoesOn(j)
              /\ section[j] # Idle => section'[j].shared /\ section'[i].shared
         /\ section' \in [Instances -> Sections \cup {Idle}]
<1>1. PICK list \in Sources(r), locked \in Acquires(r) :
        section' = [Shared(Beside(i, r, locked)) EXCEPT ![i] =
              [stage |-> "load", req |-> r, list |-> list, locked |-> locked,
               shared |-> Beside(i, r, locked) # {}]]
  BY DEF Load
<1>2. list \in Lists /\ locked \in BOOLEAN
  BY SourcesType DEF Acquires
<1>3. section'[i] = [stage |-> "load", req |-> r, list |-> list, locked |-> locked,
                     shared |-> Beside(i, r, locked) # {}]
  BY <1>1 DEF Shared
<1>4. section'[i] \in Sections
  BY <1>2, <1>3 DEF Sections
<1>5. ASSUME NEW j \in Instances \ {i}
      PROVE  /\ GoesOn(j)
             /\ section[j] # Idle => section'[j].shared /\ section'[i].shared
  <2>1. section'[j] = Shared(Beside(i, r, locked))[j]
    BY <1>1 DEF Shared
  <2>2. j \in Beside(i, r, locked) => section[j] # Idle
    BY DEF Beside
  <2>3. ASSUME section[j] # Idle PROVE j \in Beside(i, r, locked)
    <3>1. SUFFICES ASSUME locked, section[j].locked, SameLock(r, section[j].req)
                   PROVE  FALSE
      BY <2>3 DEF Beside
    <3>2. Free(r)
      BY <3>1 DEF Acquires
    <3> QED BY <2>3, <3>1, <3>2 DEF Free
  <2>4. GoesOn(j) /\ (j \in Beside(i, r, locked) => section'[j].shared)
    BY <2>1, <2>2, MarkingGoesOn
  <2>5. section'[i].shared = (Beside(i, r, locked) # {})
    BY <1>3
  <2> QED BY <2>3, <2>4, <2>5
<1>6. section' \in [Instances -> Sections \cup {Idle}]
  <2>1. \A j \in Instances : section'[j] \in Sections \cup {Idle}
    BY <1>4, <1>5 DEF GoesOn
  <2> QED BY <1>1, <2>1 DEF Shared
<1> QED BY <1>2, <1>3, <1>4, <1>5, <1>6, IdleAssumption DEF Load

LEMMA SnapshotEffect ==
  ASSUME TypeOK, NEW i \in Instances, Snapshot(i)
  PROVE  /\ \A j \in Instances : GoesOn(j)
         /\ \A j \in Instances : section[j] # Idle /\ section[j].req.kind = "replace"
              => section'[j].shared
         /\ section' \in [Instances -> Sections \cup {Idle}]
<1> DEFINE R == {j \in Instances : section[j] # Idle /\ section[j].req.kind = "replace"}
<1>1. section' = Shared(R)
  BY DEF Snapshot
<1>2. \A j \in Instances : GoesOn(j) /\ (j \in R => section'[j].shared)
  BY <1>1, MarkingGoesOn
<1>3. \A j \in Instances : section'[j] \in Sections \cup {Idle}
  BY <1>2 DEF GoesOn
<1> QED BY <1>1, <1>2, <1>3 DEF Shared

\* A file write: the instance saves and is about to mirror what it saved.
LEMMA SaveEffect ==
  ASSUME TypeOK, NEW i \in Instances, Save(i)
  PROVE  /\ section[i] \in Sections /\ section[i].req \in Requests /\ section[i].list \in Lists
         /\ file' \in Lists
         /\ section'[i] \in Sections /\ Writes(i)
         /\ section'[i].list = file' /\ section'[i].req = section[i].req
         /\ section'[i].shared = section[i].shared
         /\ \A j \in Instances \ {i} : section'[j] = section[j]
         /\ section' \in [Instances -> Sections \cup {Idle}]
<1>1. section[i] \in Sections /\ section[i].req \in Requests /\ section[i].list \in Lists
  BY DEF Save, Sections, Usable, TypeOK
<1>2. file' \in Lists
  BY <1>1, SavesType DEF Save
<1>3. section' = [section EXCEPT ![i] = [section[i] EXCEPT !.stage = "mirror", !.list = file']]
  BY DEF Save, TypeOK
<1>4. [section[i] EXCEPT !.stage = "mirror", !.list = file'] \in Sections
  BY <1>1, <1>2 DEF Sections
<1>5. section'[i] = [section[i] EXCEPT !.stage = "mirror", !.list = file']
  BY <1>3 DEF TypeOK
<1>6. section'[i] \in Sections /\ section'[i].stage = "mirror"
  BY <1>1, <1>4, <1>5 DEF Sections
<1>7. Writes(i)
  BY <1>6, IdleAssumption DEF Save, Writes
<1> QED BY <1>1, <1>2, <1>3, <1>4, <1>5, <1>6, <1>7 DEF TypeOK, Sections

\* Every step keeps the types, whatever the backend and the instances.
LEMMA TypeStep == ASSUME TypeOK, [Next]_vars PROVE TypeOK'
<1>1. ASSUME NEW i \in Instances, Save(i) PROVE TypeOK'
  BY <1>1, SaveEffect DEF Save, TypeOK
<1>2. ASSUME NEW i \in Instances, Refuse(i) \/ SaveFails(i) PROVE TypeOK'
  BY <1>2 DEF Refuse, SaveFails, TypeOK
<1>3. ASSUME NEW i \in Instances, Mirror(i) PROVE TypeOK'
  <2>1. section[i].list \in Lists /\ section[i].shared \in BOOLEAN
    BY <1>3 DEF Mirror, Sections, TypeOK
  <2> QED BY <1>3, <2>1 DEF Mirror, TypeOK
<1>4. ASSUME NEW i \in Instances, Snapshot(i) PROVE TypeOK'
  BY <1>4, SnapshotEffect DEF Snapshot, TypeOK
<1>5. ASSUME NEW i \in Instances, Crash(i) PROVE TypeOK'
  BY <1>5 DEF Crash, TypeOK
<1>6. ASSUME NEW i \in Instances, NEW r \in MarkRequests, Check(i, r) PROVE TypeOK'
  BY <1>6 DEF Check, TypeOK
<1>7. ASSUME NEW i \in Instances, NEW r \in Usable, Load(i, r) PROVE TypeOK'
  <2>1. section' \in [Instances -> Sections \cup {Idle}]
    BY <1>7, LoadEffect
  <2>2. checked' \in [Instances -> SUBSET MarkRequests]
    BY <1>7 DEF Load, TypeOK
  <2> QED BY <1>7, <2>1, <2>2 DEF Load, TypeOK
<1>8. CASE UNCHANGED vars
  BY <1>8 DEF vars, TypeOK
<1> QED BY <1>1, <1>2, <1>3, <1>4, <1>5, <1>6, <1>7, <1>8 DEF Next, Step

\* The variables always have their types.
THEOREM TypeInvariance == Spec => []TypeOK
<1>1. Init => TypeOK
  BY DEF Init, TypeOK, EmptyList, Lists
<1> QED BY <1>1, TypeStep, PTL DEF Spec

-----------------------------------------------------------------------------
\* A section that nothing ran beside keeps what it has loaded, and the mirror
\* follows the file.
LEMMA StoreStep ==
  ASSUME Serialized, StoreInv, TypeOK', [Next]_vars
  PROVE  StoreInv'
<1>0. TypeOK
  BY DEF StoreInv
<1>1. ASSUME NEW i \in Instances, Save(i) PROVE StoreInv'
  <2>1. /\ section[i] # Idle /\ section'[i] # Idle /\ section'[i].stage = "mirror"
        /\ section'[i].list = file' /\ section'[i].shared = section[i].shared
        /\ \A j \in Instances \ {i} : section'[j] = section[j]
    BY <1>0, <1>1, SaveEffect DEF Writes
  <2>2. AloneInv'
    BY <2>1 DEF StoreInv, AloneInv
  <2>3. FreshInv'
    BY <2>1 DEF StoreInv, AloneInv, FreshInv
  <2>4. MirrorTracksFile'
    BY <2>1 DEF MirrorTracksFile
  <2> QED BY <2>2, <2>3, <2>4 DEF StoreInv
<1>2. ASSUME NEW i \in Instances, Refuse(i) \/ SaveFails(i) PROVE StoreInv'
  <2>1. section' = [section EXCEPT ![i] = Idle] /\ UNCHANGED <<file, mirror, backup, drift>>
    BY <1>2 DEF Refuse, SaveFails
  <2>2. section[i] # Idle /\ section[i].stage = "load"
    BY <1>2 DEF Refuse, SaveFails
  <2>3. AloneInv' /\ FreshInv'
    BY <1>0, <2>1 DEF StoreInv, TypeOK, AloneInv, FreshInv
  <2>4. MirrorTracksFile'
    BY <1>0, <2>1, <2>2 DEF StoreInv, TypeOK, MirrorTracksFile
  <2> QED BY <2>3, <2>4 DEF StoreInv
<1>3. ASSUME NEW i \in Instances, Mirror(i) PROVE StoreInv'
  <2>1. section' = [section EXCEPT ![i] = Idle] /\ UNCHANGED <<file, backup>>
    BY <1>3 DEF Mirror
  <2>2. ~section[i].shared => section[i].list = file
    BY <1>3 DEF Mirror, StoreInv, FreshInv
  <2>3. AloneInv' /\ FreshInv'
    BY <1>0, <2>1 DEF StoreInv, TypeOK, AloneInv, FreshInv
  <2>4. MirrorTracksFile'
    BY <1>3, <2>1, <2>2 DEF Mirror, MirrorTracksFile
  <2> QED BY <2>3, <2>4 DEF StoreInv
<1>4. ASSUME NEW i \in Instances, Snapshot(i) PROVE StoreInv'
  <2>1. /\ \A j \in Instances : GoesOn(j)
        /\ \A j \in Instances : section[j] # Idle /\ section[j].req.kind = "replace"
              => section'[j].shared
    BY <1>0, <1>4, SnapshotEffect
  <2>2. UNCHANGED <<file, mirror, drift>>
    BY <1>4 DEF Snapshot
  <2>3. AloneInv'
    BY <2>1 DEF GoesOn, StoreInv, AloneInv
  <2>4. FreshInv'
    BY <2>1, <2>2 DEF GoesOn, StoreInv, FreshInv
  <2>5. MirrorTracksFile'
    BY <2>1, <2>2 DEF GoesOn, StoreInv, MirrorTracksFile
  <2> QED BY <2>3, <2>4, <2>5 DEF StoreInv
<1>5. ASSUME NEW i \in Instances, Crash(i) PROVE StoreInv'
  <2>1. section' = [section EXCEPT ![i] = Idle] /\ UNCHANGED <<file, mirror, backup>>
    BY <1>5 DEF Crash
  <2>2. AloneInv' /\ FreshInv'
    BY <1>0, <2>1 DEF StoreInv, TypeOK, AloneInv, FreshInv
  <2>3. MirrorTracksFile'
    BY <1>0, <1>5, <2>1 DEF Crash, StoreInv, TypeOK, MirrorTracksFile, Sections
  <2> QED BY <2>2, <2>3 DEF StoreInv
<1>6. ASSUME NEW i \in Instances, NEW r \in MarkRequests, Check(i, r) PROVE StoreInv'
  BY <1>6 DEF Check, StoreInv, AloneInv, FreshInv, MirrorTracksFile
<1>7. ASSUME NEW i \in Instances, NEW r \in Usable, Load(i, r) PROVE StoreInv'
  <2>1. /\ section[i] = Idle
        /\ section'[i].stage = "load" /\ section'[i].req = r
        /\ section'[i].list \in Sources(r)
        /\ \A j \in Instances \ {i} :
              /\ GoesOn(j)
              /\ section[j] # Idle => section'[j].shared /\ section'[i].shared
    BY <1>0, <1>7, LoadEffect
  <2>2. section'[i].list = IF r.kind = "replace" THEN backup ELSE file
    <3>1. r.kind \in LockedKinds \/ Backend = "file"
      BY DEF Serialized, Usable
    <3> QED BY <2>1, <3>1 DEF Sources, Loads, FromFile, Serialized, LockedKinds
  <2>3. UNCHANGED <<file, mirror, backup, drift>>
    BY <1>7 DEF Load
  <2>4. AloneInv'
    BY <2>1 DEF GoesOn, AloneInv
  <2>5. FreshInv'
    <3>1. ASSUME NEW j \in Instances \ {i}, section'[j] # Idle, ~section'[j].shared
          PROVE  section'[j].list = IF section'[j].stage = "load" /\ section'[j].req.kind = "replace"
                                    THEN backup ELSE file
      BY <2>1, <3>1 DEF GoesOn
    <3> QED BY <2>1, <2>2, <2>3, <3>1 DEF FreshInv
  <2>6. MirrorTracksFile'
    BY <2>1, <2>3 DEF GoesOn, StoreInv, MirrorTracksFile
  <2> QED BY <2>4, <2>5, <2>6 DEF StoreInv
<1>8. CASE UNCHANGED vars
  BY <1>8 DEF vars, StoreInv, AloneInv, FreshInv, MirrorTracksFile
<1> QED BY <1>1, <1>2, <1>3, <1>4, <1>5, <1>6, <1>7, <1>8 DEF Next, Step

\* The invariant of a store whose writers are serialized.
THEOREM StoreInvariance == ASSUME Serialized PROVE Spec => []StoreInv
<1>1. Init => StoreInv
  BY DEF Init, StoreInv, TypeOK, EmptyList, Lists, AloneInv, FreshInv, MirrorTracksFile
<1>2. StoreInv /\ [Next]_vars => StoreInv'
  BY StoreStep, TypeStep, Serialized DEF StoreInv
<1> QED BY <1>1, <1>2, PTL DEF Spec

\* The table follows the file, unless the last shadow write failed.
THEOREM MirrorConverges == ASSUME Serialized PROVE Spec => []MirrorTracksFile
<1>1. StoreInv => MirrorTracksFile
  BY DEF StoreInv
<1> QED BY <1>1, StoreInvariance, PTL

-----------------------------------------------------------------------------
\* Only a file write changes the file.
LEMMA OnlySavesWrite ==
  ASSUME TypeOK, [Next]_vars, NEW i \in Instances, Writes(i) \/ file' # file
  PROVE  \E j \in Instances : Save(j) /\ (Writes(i) => j = i)
<1>1. ASSUME NEW j \in Instances, Save(j) PROVE Writes(i) => j = i
  BY <1>1, SaveEffect DEF Writes
<1>2. ASSUME NEW j \in Instances, Snapshot(j) PROVE ~Writes(i) /\ file' = file
  BY <1>2, SnapshotEffect DEF Writes, GoesOn, Snapshot
<1>3. ASSUME NEW j \in Instances, NEW r \in Usable, Load(j, r) PROVE ~Writes(i) /\ file' = file
  <2>1. i # j => GoesOn(i)
    BY <1>3, LoadEffect
  <2>2. i = j => section[i] = Idle
    BY <1>3 DEF Load
  <2> QED BY <1>3, <2>1, <2>2 DEF Writes, GoesOn, Load
<1>4. ASSUME NEW j \in Instances, Refuse(j) \/ SaveFails(j) \/ Mirror(j) \/ Crash(j)
      PROVE  ~Writes(i) /\ file' = file
  <2>1. section' = [section EXCEPT ![j] = Idle] /\ file' = file
    BY <1>4 DEF Refuse, SaveFails, Mirror, Crash
  <2>2. section'[i] = section[i] \/ section'[i] = Idle
    BY <2>1 DEF TypeOK
  <2> QED BY <2>1, <2>2 DEF Writes
<1>5. ASSUME NEW j \in Instances, NEW r \in MarkRequests, Check(j, r)
      PROVE  ~Writes(i) /\ file' = file
  BY <1>5 DEF Check, Writes
<1>6. UNCHANGED vars => ~Writes(i) /\ file' = file
  BY DEF vars, Writes
<1> QED BY <1>1, <1>2, <1>3, <1>4, <1>5, <1>6 DEF Next, Step

\* A request that kept its section to itself does not start from a list that
\* is out of date, so a change of content is a change of `_version`.
EditBumps(i, id) ==
    /\ Writes(i) /\ ~section[i].shared /\ section[i].req.kind # "replace"
    /\ file[id] # Absent /\ file'[id] # Absent
    /\ file'[id].content # file[id].content
    => file'[id].version > file[id].version

LEMMA EditStep ==
  ASSUME StoreInv, [Next]_vars, NEW i \in Instances, NEW id \in Ids PROVE EditBumps(i, id)
<1> SUFFICES ASSUME Writes(i), ~section[i].shared, section[i].req.kind # "replace",
                    file[id] # Absent, file'[id] # Absent,
                    file'[id].content # file[id].content
             PROVE  file'[id].version > file[id].version
  BY DEF EditBumps
<1>1. Save(i)
  BY OnlySavesWrite DEF StoreInv
<1> DEFINE r == section[i].req
<1>2. section[i].list = file /\ r.kind # "replace" /\ r \in Requests
  BY <1>1 DEF Save, StoreInv, FreshInv, TypeOK, Sections, Usable
<1>3. file \in Lists /\ file[id] \in Quote
  BY DEF StoreInv, TypeOK, Lists
<1>4. Saves(file, r, file')
  BY <1>1, <1>2 DEF Save
<1> HIDE DEF r
<1>5. CASE Upserts(file, r, file')
  <2>1. ASSUME NEW n \in Ids, file[n] = Absent, file' = [file EXCEPT ![n] = Created(r)]
        PROVE  FALSE
    BY <2>1, <1>3 DEF Lists
  <2>2. ASSUME NEW n \in Ids, IsNextId(file, n) PROVE file[n] = Absent
    BY <2>2, BoundAssumption DEF IsNextId, Ids
  <2>3. r.kind \in {"patch", "trash", "restore"} => r.id \in Ids
    BY <1>2 DEF Requests, Ids
  <2>4. /\ r.kind \in {"patch", "trash", "restore"}
        /\ file' = [file EXCEPT ![r.id] = Revised(file[r.id], r)]
    BY <1>5, <2>1, <2>2, <2>3 DEF Upserts
  <2>5. id = r.id /\ file'[id] = Revised(file[id], r)
    BY <1>3, <2>3, <2>4 DEF Lists
  <2>6. Revised(file[id], r).version = file[id].version + 1
    BY <1>3 DEF Revised, Quote
  <2> QED BY <1>3, <2>5, <2>6 DEF Quote
<1>6. CASE Transitions(file, r, file')
  <2>1. file' = [file EXCEPT ![r.id] = [file[r.id] EXCEPT !.status = r.status]]
    BY <1>6 DEF Transitions
  <2>2. file'[id] = file[id] \/ file'[id] = [file[id] EXCEPT !.status = r.status]
    BY <1>3, <2>1 DEF Lists
  <2> QED BY <1>3, <2>2 DEF Quote
<1>7. CASE Purges(file, r, file')
  BY <1>3, <1>7 DEF Purges, Lists
<1> QED BY <1>2, <1>4, <1>5, <1>6, <1>7 DEF Saves, Replaces

\* Two contents a client can have read never carry the same version, as long
\* as the quote is not purged and no backup restored.
THEOREM VersionsTellContents == ASSUME Serialized PROVE Spec => EditsBumpVersion
<1>1. StoreInv /\ [Next]_vars => [\A i \in Instances, id \in Ids : EditBumps(i, id)]_vars
  BY EditStep
<1> QED BY <1>1, StoreInvariance, PTL DEF Spec, EditsBumpVersion, EditBumps

-----------------------------------------------------------------------------
\* What a request saves from the stored list differs from it in its own row.
LEMMA OwnRow ==
  ASSUME NEW list \in Lists, NEW r \in Requests, NEW new \in Lists, Saves(list, r, new),
         NEW id \in Ids, new[id] # list[id]
  PROVE  r.kind = "replace" \/ r.id = id \/ (r.kind = "post" /\ list[id] = Absent)
<1>1. CASE Upserts(list, r, new)
  <2>1. CASE r.kind = "post"
    <3>1. PICK n \in Ids : IsNextId(list, n) /\ new = [list EXCEPT ![n] = Created(r)]
      BY <1>1, <2>1 DEF Upserts
    <3>2. list[n] = Absent
      BY <3>1, BoundAssumption DEF IsNextId, Ids
    <3> QED BY <2>1, <3>1, <3>2 DEF Lists
  <2>2. CASE r.kind # "post"
    BY <1>1, <2>2 DEF Upserts, Lists
  <2> QED BY <2>1, <2>2
<1>2. CASE Transitions(list, r, new)
  BY <1>2 DEF Transitions, Lists
<1>3. CASE Purges(list, r, new)
  BY <1>3 DEF Purges, Lists
<1>4. CASE Replaces(list, r, new)
  BY <1>4 DEF Replaces
<1> QED BY <1>1, <1>2, <1>3, <1>4 DEF Saves

\* A request changes no quote but its own, which under reads from the mirror
\* is what the run StoreDrift refutes.
TouchesOwn(id) ==
    file'[id] # file[id] =>
      \E i \in Instances :
        /\ Writes(i)
        /\ \/ section[i].shared
           \/ LET r == section[i].req IN
                \/ r.kind = "replace"
                \/ r.id = id
                \/ r.kind = "post" /\ file[id] = Absent

LEMMA TouchStep ==
  ASSUME StoreInv, [Next]_vars, NEW id \in Ids PROVE TouchesOwn(id)
<1> SUFFICES ASSUME file'[id] # file[id] PROVE TouchesOwn(id)
  BY DEF TouchesOwn
<1>0. TypeOK
  BY DEF StoreInv
<1>1. PICK i \in Instances : Save(i)
  <2>1. \E j \in Instances : TRUE
    BY DEF Next, vars
  <2> QED BY <1>0, <2>1, OnlySavesWrite
<1> DEFINE r == section[i].req
<1>2. Writes(i) /\ r \in Requests /\ file \in Lists /\ file' \in Lists
  BY <1>0, <1>1, SaveEffect DEF TypeOK
<1>3. ASSUME ~section[i].shared, r.kind # "replace"
      PROVE  r.id = id \/ (r.kind = "post" /\ file[id] = Absent)
  <2>1. section[i].list = file
    BY <1>2, <1>3 DEF StoreInv, FreshInv, Writes
  <2>2. Saves(file, r, file')
    BY <1>1, <2>1 DEF Save
  <2> QED BY <1>2, <1>3, <2>2, OwnRow
<1> QED BY <1>2, <1>3 DEF TouchesOwn

\* No request loses what another one saved, in any number of processes, unless
\* two sections that no lock file keeps apart are open at once.
THEOREM NothingElseIsTouched == ASSUME Serialized PROVE Spec => OthersUntouched
<1>1. StoreInv /\ [Next]_vars => [\A id \in Ids : TouchesOwn(id)]_vars
  BY TouchStep
<1> QED BY <1>1, StoreInvariance, PTL DEF Spec, OthersUntouched, TouchesOwn

-----------------------------------------------------------------------------
\* Rows without a content in a list, allowed for ids that were swept.
NoGhostIn(list) == \A id \in Ids : list[id] # Absent /\ list[id].content = NoContent => id \in swept

\* A quote that was found is there when its turn comes, or its id is swept.
GhostInv ==
    /\ NoGhostIn(file) /\ NoGhostIn(backup)
    /\ \A i \in Instances : section[i] # Idle => NoGhostIn(section[i].list)
    /\ \A i \in Instances : \A c \in checked[i] : file[c.id] # Absent \/ c.id \in swept
    /\ \A i \in Instances :
         section[i] # Idle /\ section[i].stage = "load" /\ section[i].req.kind \in {"trash", "restore"}
           => section[i].list[section[i].req.id] # Absent \/ section[i].req.id \in swept

\* A save makes no row without a content unless it marks a quote that is not
\* in its list.
LEMMA GhostsAreMade ==
  ASSUME NEW list \in Lists, NEW r \in Requests, NEW new \in Lists, Saves(list, r, new),
         NEW id \in Ids, new[id] # Absent, new[id].content = NoContent
  PROVE  \/ list[id] # Absent /\ list[id].content = NoContent
         \/ r.kind \in {"trash", "restore"} /\ r.id = id /\ list[id] = Absent
<1>1. ASSUME NEW n \in Ids, r.kind \in {"post", "patch"}, new = [list EXCEPT ![n] = Created(r)]
      PROVE  list[id] # Absent /\ list[id].content = NoContent
  <2>1. Created(r).content = r.content /\ r.content # NoContent
    BY <1>1 DEF Created, Requests
  <2>2. new[id] = IF id = n THEN Created(r) ELSE list[id]
    BY <1>1 DEF Lists
  <2> QED BY <2>1, <2>2
<1>2. ASSUME r.id \in Ids, list[r.id] # Absent, NEW q, new = [list EXCEPT ![r.id] = q],
             q.content = list[r.id].content \/ (q.content = r.content /\ r.kind = "patch")
      PROVE  list[id] # Absent /\ list[id].content = NoContent
  <2>1. new[id] = IF id = r.id THEN q ELSE list[id]
    BY <1>2 DEF Lists
  <2>2. r.kind = "patch" => r.content # NoContent
    BY DEF Requests
  <2> QED BY <1>2, <2>1, <2>2
<1>3. CASE Upserts(list, r, new)
  <2>1. CASE r.kind = "post"
    BY <1>1, <1>3, <2>1 DEF Upserts
  <2>2. CASE r.kind # "post"
    <3>1. r.kind \in {"patch", "trash", "restore"} /\ r.id \in Ids
      BY <1>3, <2>2 DEF Upserts, Requests, Ids
    <3>2. CASE list[r.id] = Absent /\ r.kind = "patch"
      BY <1>1, <1>3, <3>1, <3>2 DEF Upserts
    <3>3. CASE list[r.id] = Absent /\ r.kind # "patch"
      <4>1. new = [list EXCEPT ![r.id] = Created(r)]
        BY <1>3, <3>1, <3>3 DEF Upserts
      <4>2. id # r.id => new[id] = list[id]
        BY <4>1 DEF Lists
      <4> QED BY <3>1, <3>3, <4>2
    <3>4. CASE list[r.id] # Absent
      <4>1. list[r.id] \in Quote /\ new = [list EXCEPT ![r.id] = Revised(list[r.id], r)]
        BY <1>3, <3>1, <3>4 DEF Upserts, Lists
      <4>2. Revised(list[r.id], r).content
              = IF r.kind = "patch" THEN r.content ELSE list[r.id].content
        BY <4>1, RevisedType DEF Revised, Quote
      <4> QED BY <1>2, <3>1, <3>4, <4>1, <4>2
    <3> QED BY <3>1, <3>2, <3>3, <3>4
  <2> QED BY <2>1, <2>2
<1>4. CASE Transitions(list, r, new)
  <2>1. r.id \in Ids /\ list[r.id] # Absent /\ list[r.id] \in Quote
    BY <1>4 DEF Transitions, Lists, Requests, Ids
  <2>2. [list[r.id] EXCEPT !.status = r.status].content = list[r.id].content
    BY <2>1 DEF Quote
  <2>3. new = [list EXCEPT ![r.id] = [list[r.id] EXCEPT !.status = r.status]]
    BY <1>4 DEF Transitions
  <2> QED BY <1>2, <2>1, <2>2, <2>3
<1>5. CASE Purges(list, r, new)
  BY <1>5 DEF Purges, Lists
<1>6. CASE Replaces(list, r, new)
  BY <1>6 DEF Replaces
<1> QED BY <1>3, <1>4, <1>5, <1>6 DEF Saves

LEMMA GhostStep ==
  ASSUME Backend = "file", ~ReadMayFail, TypeOK, GhostInv, [Next]_vars
  PROVE  GhostInv'
<1>1. ASSUME NEW i \in Instances, Save(i) PROVE GhostInv'
  <2> DEFINE r == section[i].req
             list == section[i].list
  <2>1. /\ section[i] # Idle /\ section[i].stage = "load"
        /\ r \in Requests /\ list \in Lists /\ file' \in Lists
        /\ Saves(list, r, file')
        /\ section'[i].stage = "mirror" /\ section'[i].list = file'
        /\ \A j \in Instances \ {i} : section'[j] = section[j]
    BY <1>1, SaveEffect DEF Save, Writes
  <2>2. /\ UNCHANGED <<checked, backup>>
        /\ swept' = swept \cup {id \in Ids : /\ file[id] # Absent /\ file'[id] = Absent
                                        /\ \E j \in Instances : \E c \in checked[j] : c.id = id}
    BY <1>1 DEF Save
  <2>3. NoGhostIn(file)'
    <3>1. ASSUME NEW id \in Ids, file'[id] # Absent, file'[id].content = NoContent
          PROVE  id \in swept
      <4>1. \/ list[id] # Absent /\ list[id].content = NoContent
            \/ r.kind \in {"trash", "restore"} /\ r.id = id /\ list[id] = Absent
        BY <2>1, <3>1, GhostsAreMade
      <4> QED BY <2>1, <4>1 DEF GhostInv, NoGhostIn
    <3> QED BY <2>2, <3>1 DEF NoGhostIn
  <2>4. ASSUME NEW j \in Instances, NEW c \in checked'[j]
        PROVE  file'[c.id] # Absent \/ c.id \in swept'
    <3>1. c.id \in Ids
      BY <2>2, <2>4 DEF TypeOK, MarkRequests, Usable, Requests, Ids
    <3> QED BY <2>2, <2>4, <3>1 DEF GhostInv
  <2>5. NoGhostIn(backup)' /\ \A j \in Instances \ {i} : section[j] # Idle => NoGhostIn(section[j].list)'
    BY <2>1, <2>2 DEF GhostInv, NoGhostIn
  <2> HIDE DEF r, list
  <2>6. ASSUME NEW j \in Instances, section'[j] # Idle PROVE NoGhostIn(section[j].list)'
    <3>1. CASE j = i
      BY <2>1, <2>3, <3>1 DEF NoGhostIn
    <3>2. CASE j # i
      BY <2>1, <2>5, <2>6, <3>2 DEF NoGhostIn
    <3> QED BY <3>1, <3>2
  <2>7. ASSUME NEW j \in Instances, section'[j] # Idle, section'[j].stage = "load",
               section'[j].req.kind \in {"trash", "restore"}
        PROVE  section'[j].list[section'[j].req.id] # Absent \/ section'[j].req.id \in swept'
    <3>1. j # i
      BY <2>1, <2>7
    <3> QED BY <2>1, <2>2, <2>7, <3>1 DEF GhostInv
  <2> QED BY <2>3, <2>4, <2>5, <2>6, <2>7 DEF GhostInv
<1>2. ASSUME NEW i \in Instances, Refuse(i) \/ SaveFails(i) \/ Mirror(i) \/ Crash(i)
      PROVE  GhostInv'
  <2>1. /\ UNCHANGED <<file, backup, swept>>
        /\ \A j \in Instances : section'[j] \in {section[j], Idle} /\ checked'[j] \subseteq checked[j]
    BY <1>2 DEF Refuse, SaveFails, Mirror, Crash, TypeOK
  <2> QED BY <2>1 DEF GhostInv, NoGhostIn
<1>3. ASSUME NEW i \in Instances, Snapshot(i) PROVE GhostInv'
  <2>1. \A j \in Instances : GoesOn(j)
    BY <1>3, SnapshotEffect
  <2>2. UNCHANGED <<file, checked, swept>> /\ backup' = file
    BY <1>3 DEF Snapshot
  <2> QED BY <2>1, <2>2 DEF GhostInv, NoGhostIn, GoesOn
<1>4. ASSUME NEW i \in Instances, NEW r \in MarkRequests, Check(i, r) PROVE GhostInv'
  <2>1. file[r.id] # Absent
    BY <1>4 DEF Check, Found
  <2>2. /\ UNCHANGED <<file, section, backup, swept>>
        /\ \A j \in Instances : checked'[j] \subseteq checked[j] \cup {r}
    BY <1>4 DEF Check, TypeOK
  <2> QED BY <2>1, <2>2 DEF GhostInv, NoGhostIn
<1>5. ASSUME NEW i \in Instances, NEW r \in Usable, Load(i, r) PROVE GhostInv'
  <2>1. /\ section'[i].stage = "load" /\ section'[i].req = r
        /\ section'[i].list \in Sources(r)
        /\ \A j \in Instances \ {i} : GoesOn(j)
    BY <1>5, LoadEffect
  <2>2. section'[i].list = IF r.kind = "replace" THEN backup ELSE file
    BY <2>1 DEF Sources, Loads, FromFile, LockedKinds
  <2>3. /\ UNCHANGED <<file, backup, swept>>
        /\ \A j \in Instances : checked'[j] \subseteq checked[j]
    BY <1>5 DEF Load, TypeOK
  <2>4. r.kind \in {"trash", "restore"} => file[r.id] # Absent \/ r.id \in swept
    BY <1>5 DEF Load, GhostInv
  <2>5. ASSUME NEW j \in Instances, section'[j] # Idle
        PROVE  /\ NoGhostIn(section[j].list)'
               /\ section'[j].stage = "load" /\ section'[j].req.kind \in {"trash", "restore"}
                   => section'[j].list[section'[j].req.id] # Absent \/ section'[j].req.id \in swept
    <3>1. CASE j = i
      BY <2>1, <2>2, <2>3, <2>4, <3>1 DEF GhostInv, NoGhostIn
    <3>2. CASE j # i
      BY <2>1, <2>3, <2>5, <3>2 DEF GhostInv, NoGhostIn, GoesOn
    <3> QED BY <3>1, <3>2
  <2> QED BY <2>3, <2>5 DEF GhostInv, NoGhostIn
<1>6. CASE UNCHANGED vars
  BY <1>6 DEF vars, GhostInv, NoGhostIn
<1> QED BY <1>1, <1>2, <1>3, <1>4, <1>5, <1>6 DEF Next, Step

\* The look-up before a trash or restore request keeps rows that nobody sent a
\* state for out of the list, in any number of processes, with or without their
\* lock files, except where a purge came in between.
THEOREM GhostsNeedAPurge ==
  ASSUME Backend = "file", ~ReadMayFail PROVE Spec => []NoGhost
<1>1. Init => GhostInv
  BY DEF Init, GhostInv, NoGhostIn, EmptyList
<1>2. TypeOK /\ GhostInv /\ [Next]_vars => GhostInv'
  BY GhostStep
<1>3. GhostInv => NoGhost
  BY DEF GhostInv, NoGhost, NoGhostIn
<1> QED BY <1>1, <1>2, <1>3, TypeInvariance, PTL DEF Spec

-----------------------------------------------------------------------------
\* Store and register change lists by the same operators.
LEMMA SameSaves ==
  ASSUME NEW list, NEW r, NEW new
  PROVE  Saves(list, r, new) <=> Register!Saves(list, r, new)
<1>1. Created(r) = Register!Created(r)
  BY DEF Created, Register!Created
<1>2. \A q : Revised(q, r) = Register!Revised(q, r)
  BY DEF Revised, Register!Revised
<1>3. Upserts(list, r, new) <=> Register!Upserts(list, r, new)
  BY <1>1, <1>2 DEF Upserts, Register!Upserts, IsNextId, Register!IsNextId,
                    Conflict, Register!Conflict, Ids, Register!Ids
<1>4. Transitions(list, r, new) <=> Register!Transitions(list, r, new)
  BY DEF Transitions, Register!Transitions
<1>5. Purges(list, r, new) <=> Register!Purges(list, r, new)
  BY DEF Purges, Register!Purges
<1>6. Replaces(list, r, new) <=> Register!Replaces(list, r, new)
  BY DEF Replaces, Register!Replaces
<1> QED BY <1>3, <1>4, <1>5, <1>6 DEF Saves, Register!Saves

\* The steps that take effect as the register says.
Kept == (\E i \in Instances : Writes(i) /\ section[i].shared) \/ Register!RegNext

\* Sections that go on are pending as before.
LEMMA PendingGoesOn ==
  ASSUME NEW j \in Instances, GoesOn(j) PROVE AbsPending'[j] = AbsPending[j]
BY DEF GoesOn, AbsPending

\* A step of the store is a step of the register, leaves it unchanged or is
\* the write of a shared section.
LEMMA RefinementStep ==
  ASSUME StoreInv, [Next]_vars
  PROVE  [Kept]_(Register!regVars)
<1> USE DEF Register!regVars
<1>0. TypeOK
  BY DEF StoreInv
<1>1. ASSUME NEW i \in Instances, Save(i), ~section[i].shared PROVE Register!TakeEffect(i)
  <2>1. /\ Writes(i) /\ section[i].req \in Requests
        /\ \A j \in Instances \ {i} : section'[j] = section[j]
    BY <1>0, <1>1, SaveEffect
  <2>2. AbsPending[i] = section[i].req /\ AbsPending[i] # Idle
    BY <2>1, IdleAssumption DEF Writes, AbsPending
  <2>3. Saves(IF AbsPending[i].kind = "replace" THEN backup ELSE file, AbsPending[i], file')
    BY <1>1, <2>2 DEF Save, StoreInv, FreshInv
  <2>4. AbsPending' = [AbsPending EXCEPT ![i] = Idle]
    BY <2>1 DEF Writes, AbsPending
  <2>5. Register!Saves(IF AbsPending[i].kind = "replace" THEN backup ELSE file,
                       AbsPending[i], file')
    BY <2>3, SameSaves
  <2> QED BY <1>1, <2>2, <2>4, <2>5 DEF Register!TakeEffect, Save
<1>2. ASSUME NEW i \in Instances, Save(i), section[i].shared PROVE Kept
  BY <1>0, <1>2, SaveEffect DEF Kept
<1>3. ASSUME NEW i \in Instances, Refuse(i) \/ SaveFails(i) \/ Crash(i)
      PROVE  Register!Drop(i)
  <2>1. section' = [section EXCEPT ![i] = Idle] /\ UNCHANGED <<file, backup>>
    BY <1>3 DEF Refuse, SaveFails, Crash
  <2>2. AbsPending' = [AbsPending EXCEPT ![i] = Idle]
    BY <1>0, <2>1 DEF AbsPending, TypeOK
  <2> QED BY <2>1, <2>2 DEF Register!Drop
<1>4. ASSUME NEW i \in Instances, Mirror(i) PROVE UNCHANGED Register!regVars
  <2>1. section' = [section EXCEPT ![i] = Idle] /\ section[i].stage # "load"
    BY <1>4 DEF Mirror
  <2>2. AbsPending' = AbsPending
    BY <1>0, <2>1 DEF AbsPending, TypeOK
  <2> QED BY <1>4, <2>2 DEF Mirror
<1>5. ASSUME NEW i \in Instances, Snapshot(i) PROVE Register!Backup
  <2>1. AbsPending' = AbsPending
    <3>1. \A j \in Instances : AbsPending'[j] = AbsPending[j]
      BY <1>0, <1>5, SnapshotEffect, PendingGoesOn
    <3> QED BY <3>1 DEF AbsPending
  <2> QED BY <1>5, <2>1 DEF Snapshot, Register!Backup
<1>6. ASSUME NEW i \in Instances, NEW r \in MarkRequests, Check(i, r)
      PROVE  UNCHANGED Register!regVars
  BY <1>6 DEF Check, AbsPending
<1>7. ASSUME NEW i \in Instances, NEW r \in Usable, Load(i, r) PROVE Register!Call(i, r)
  <2>1. /\ section[i] = Idle /\ section'[i] # Idle
        /\ section'[i].stage = "load" /\ section'[i].req = r
    BY <1>0, <1>7, LoadEffect
  <2>2. \A j \in Instances \ {i} : AbsPending'[j] = AbsPending[j]
    BY <1>0, <1>7, LoadEffect, PendingGoesOn
  <2>3. AbsPending[i] = Idle /\ AbsPending' = [AbsPending EXCEPT ![i] = r]
    <3>1. AbsPending'[i] = r
      BY <2>1 DEF AbsPending
    <3> QED BY <2>1, <2>2, <3>1 DEF AbsPending
  <2> QED BY <1>7, <2>3 DEF Register!Call, Load
<1>8. UNCHANGED vars => UNCHANGED Register!regVars
  BY DEF vars, AbsPending
<1>9. Usable \subseteq Register!Requests
  BY DEF Usable, Requests, Kinds, LockedKinds,
         Register!Requests, Register!Kinds, Register!LockedKinds
<1>10. ASSUME NEW i \in Instances,
              \/ Register!TakeEffect(i) \/ Register!Drop(i) \/ Register!Backup
              \/ \E r \in Usable : Register!Call(i, r)
       PROVE  Kept
  BY <1>9, <1>10 DEF Kept, Register!RegNext
<1> QED BY <1>1, <1>2, <1>3, <1>4, <1>5, <1>6, <1>7, <1>8, <1>10 DEF Next, Step

\* Every request that kept its section to itself takes effect at one instant,
\* on the list of that instant.
THEOREM Linearizable == ASSUME Serialized PROVE Spec => ImplementsRegister
<1>1. Init => Register!RegInit
  BY DEF Init, Register!RegInit, AbsPending, EmptyList, Register!EmptyList, Ids, Register!Ids
<1>2. StoreInv /\ [Next]_vars => [Kept]_(Register!regVars)
  BY RefinementStep
<1> QED BY <1>1, <1>2, StoreInvariance, PTL DEF Spec, ImplementsRegister, Kept
=============================================================================
