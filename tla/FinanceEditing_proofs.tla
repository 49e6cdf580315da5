------------------------ MODULE FinanceEditing_proofs ------------------------
(***************************************************************************)
(* What the version of finance_sum.json protects, for every set of         *)
(* administrators and sites and every bound.                               *)
(***************************************************************************)
EXTENDS FinanceEditing, TLAPS

\* Rates known with a version: those of the file if it is still at that
\* version, and never of a version to come.
Knows(f, version, sga) ==
    version \in Nat /\ version <= f.version /\ (version = f.version => sga = f.sga)

\* A screen with context x, draft d, typed sites t, load l and save s.
Screen(f, x, d, t, l, s) ==
    /\ Knows(f, x.version, x.sga)
    /\ l # None => Knows(f, l.version, l.sga)
    /\ s # None => Knows(f, s.version, s.base)
    /\ s # None /\ s.status = "saved" => Knows(f, s.version + 1, s.sga)
    /\ \A site \in Sites \ t : d[site] = x.sga[site]
    /\ s # None => \A site \in Sites \ s.touched : s.sga[site] = s.base[site]

ScreensInv ==
    \A c \in Clients : Screen(file, ctx[c], draft[c], touched[c], loading[c], saving[c])

FinanceInv == TypeOK /\ ScreensInv

-----------------------------------------------------------------------------
\* Another status leaves the rest of a save as it is.
LEMMA ServeType ==
  ASSUME TypeOK, NEW c \in Clients, saving[c] # None,
         NEW status \in {"sent", "saved", "conflict", "failed"}, Serve(c, status)
  PROVE  /\ saving' \in [Clients -> Saves \cup {None}]
         /\ saving'[c] \in Saves /\ saving'[c] # None /\ saving'[c].status = status
         /\ saving'[c].sga = saving[c].sga /\ saving'[c].version = saving[c].version
         /\ saving'[c].base = saving[c].base /\ saving'[c].touched = saving[c].touched
         /\ \A d \in Clients \ {c} : saving'[d] = saving[d]
<1>1. saving[c] \in Saves
  BY DEF TypeOK
<1>2. [saving[c] EXCEPT !.status = status] \in Saves
  BY <1>1 DEF Saves
<1>3. saving' = [saving EXCEPT ![c] = [saving[c] EXCEPT !.status = status]]
  BY DEF Serve
<1>4. saving'[c] = [saving[c] EXCEPT !.status = status]
  BY <1>3 DEF TypeOK
<1>5. saving[c].status \in {"sent", "saved", "conflict", "failed"}
  BY <1>1 DEF Saves
<1> QED BY <1>1, <1>2, <1>3, <1>4, FinanceNoneAssumption DEF TypeOK, Saves

\* The version a save returns with is one the file has had.
LEMMA TypeStep == ASSUME FinanceInv, [Next]_vars PROVE TypeOK'
<1>0. TypeOK
  BY DEF FinanceInv
<1> USE <1>0, FinanceAssumption, FinanceNoneAssumption
<1>1. ASSUME NEW c \in Clients, NEW s \in Sites, Type(c, s) PROVE TypeOK'
  <2>1. edits' \in 0..MaxEdits
    BY <1>1 DEF TypeOK, Type
  <2>2. [draft[c] EXCEPT ![s] = edits + 1] \in Rates
    BY <1>1, <2>1 DEF TypeOK, Type, Rates
  <2>3. draft' = [draft EXCEPT ![c] = [draft[c] EXCEPT ![s] = edits + 1]]
    BY <1>1 DEF Type
  <2> QED BY <1>1, <2>1, <2>2, <2>3 DEF TypeOK, Type
<1>2. ASSUME NEW c \in Clients, Load(c) \/ LoadFails(c) PROVE TypeOK'
  BY <1>2 DEF TypeOK, Load, LoadFails
<1>3. ASSUME NEW c \in Clients, Loaded(c) PROVE TypeOK'
  <2>1. loading[c] \in Summaries /\ loading[c].sga \in Rates
    BY <1>3 DEF TypeOK, Loaded, Summaries
  <2>2. Refreshed(draft[c], touched[c], loading[c].sga) \in Rates
    BY <2>1 DEF TypeOK, Refreshed, Rates
  <2> QED BY <1>3, <2>1, <2>2 DEF TypeOK, Loaded
<1>4. ASSUME NEW c \in Clients, Save(c) PROVE TypeOK'
  <2>1. ctx[c] \in Summaries
    BY DEF TypeOK
  <2>2. [sga |-> draft[c], version |-> ctx[c].version, base |-> ctx[c].sga,
         touched |-> touched[c], status |-> "sent"] \in Saves
    BY <2>1 DEF TypeOK, Saves, Summaries
  <2> QED BY <1>4, <2>2 DEF TypeOK, Save
<1>5. ASSUME NEW c \in Clients, Accept(c) PROVE TypeOK'
  <2>1. saving[c] \in Saves
    BY <1>5 DEF TypeOK, Accept, Has
  <2>2. file' \in Summaries
    BY <1>5, <2>1 DEF TypeOK, Accept, Saves, Summaries
  <2> QED BY <1>5, <2>2, ServeType DEF TypeOK, Accept, Has, clientVars
<1>6. ASSUME NEW c \in Clients, Refuse(c) \/ Lose(c) PROVE TypeOK'
  BY <1>6, ServeType DEF TypeOK, Refuse, Lose, Has, clientVars
<1>7. ASSUME NEW c \in Clients, Saved(c) PROVE TypeOK'
  <2>1. saving[c] \in Saves
    BY <1>7 DEF TypeOK, Saved, Has
  <2>2. saving[c].version + 1 <= file.version
    BY <1>7 DEF FinanceInv, ScreensInv, Screen, Knows, Saved, Has
  <2>3. file \in Summaries
    BY DEF TypeOK
  <2>4. [sga |-> saving[c].sga, version |-> saving[c].version + 1] \in Summaries
    BY <2>1, <2>2, <2>3 DEF Saves, Summaries
  <2>5. saving[c].sga \in Rates
    BY <2>1 DEF Saves
  <2> QED BY <1>7, <2>4, <2>5 DEF TypeOK, Saved, Ends
<1>8. ASSUME NEW c \in Clients, Conflict(c) \/ Failed(c) PROVE TypeOK'
  BY <1>8 DEF TypeOK, Conflict, Failed, Ends, clientVars
<1>9. CASE UNCHANGED vars
  BY <1>9 DEF TypeOK, vars
<1> QED BY <1>1, <1>2, <1>3, <1>4, <1>5, <1>6, <1>7, <1>8, <1>9 DEF Next

-----------------------------------------------------------------------------
\* What a screen holds stays true of a file with a newer version.
LEMMA NewerFile ==
  ASSUME NEW f, NEW g, f.version \in Nat, g.version = f.version + 1,
         NEW x, NEW d, NEW t, NEW l, NEW s, Screen(f, x, d, t, l, s)
  PROVE  Screen(g, x, d, t, l, s)
<1>1. ASSUME NEW version, NEW sga, Knows(f, version, sga) PROVE Knows(g, version, sga)
  BY <1>1 DEF Knows
<1> QED BY <1>1 DEF Screen

LEMMA ScreensStep == ASSUME FinanceInv, [Next]_vars PROVE ScreensInv'
<1>0. TypeOK /\ ScreensInv
  BY DEF FinanceInv
<1>a. file \in Summaries /\ file.version \in Nat
  BY <1>0, FinanceAssumption DEF TypeOK, Summaries
<1>b. ASSUME NEW c \in Clients
      PROVE  /\ Screen(file, ctx[c], draft[c], touched[c], loading[c], saving[c])
             /\ ctx[c] \in Summaries /\ draft[c] \in Rates /\ touched[c] \in SUBSET Sites
             /\ loading[c] \in Summaries \cup {None} /\ saving[c] \in Saves \cup {None}
  BY <1>0 DEF ScreensInv, TypeOK
\* A step of screen c that leaves the file alone.
<1>c. ASSUME NEW c \in Clients, UNCHANGED file,
             \A d \in Clients \ {c} :
               /\ ctx'[d] = ctx[d] /\ draft'[d] = draft[d] /\ touched'[d] = touched[d]
               /\ loading'[d] = loading[d] /\ saving'[d] = saving[d],
             Screen(file, ctx'[c], draft'[c], touched'[c], loading'[c], saving'[c])
      PROVE  ScreensInv'
  BY <1>b, <1>c DEF ScreensInv
<1>1. ASSUME NEW c \in Clients, NEW s \in Sites, Type(c, s) PROVE ScreensInv'
  <2>1. /\ touched'[c] = touched[c] \cup {s}
        /\ \A site \in Sites \ {s} : draft'[c][site] = draft[c][site]
    BY <1>0, <1>1, <1>b DEF Type, TypeOK, Rates
  <2>2. Screen(file, ctx'[c], draft'[c], touched'[c], loading'[c], saving'[c])
    BY <1>1, <1>b, <2>1 DEF Type, Screen
  <2> QED BY <1>0, <1>1, <1>c, <2>2 DEF Type, TypeOK
<1>2. ASSUME NEW c \in Clients, Load(c) PROVE ScreensInv'
  <2>1. Screen(file, ctx'[c], draft'[c], touched'[c], loading'[c], saving'[c])
    BY <1>0, <1>2, <1>a, <1>b DEF Load, Screen, Knows, TypeOK
  <2> QED BY <1>0, <1>2, <1>c, <2>1 DEF Load, TypeOK
<1>3. ASSUME NEW c \in Clients, Loaded(c) PROVE ScreensInv'
  <2>1. \A site \in Sites \ touched[c] :
          Refreshed(draft[c], touched[c], loading[c].sga)[site] = loading[c].sga[site]
    BY DEF Refreshed
  <2>2. /\ ctx'[c] = loading[c] /\ loading'[c] = None /\ touched' = touched
        /\ draft'[c] = Refreshed(draft[c], touched[c], loading[c].sga)
    BY <1>0, <1>3 DEF Loaded, TypeOK
  <2>3. Screen(file, ctx'[c], draft'[c], touched'[c], loading'[c], saving'[c])
    BY <1>3, <1>b, <2>1, <2>2 DEF Loaded, Screen
  <2> QED BY <1>0, <1>3, <1>c, <2>3 DEF Loaded, TypeOK
<1>4. ASSUME NEW c \in Clients, LoadFails(c) PROVE ScreensInv'
  <2>1. Screen(file, ctx'[c], draft'[c], touched'[c], loading'[c], saving'[c])
    BY <1>0, <1>4, <1>b DEF LoadFails, Screen, TypeOK
  <2> QED BY <1>0, <1>4, <1>c, <2>1 DEF LoadFails, TypeOK
<1>5. ASSUME NEW c \in Clients, Save(c) PROVE ScreensInv'
  <2>1. Screen(file, ctx'[c], draft'[c], touched'[c], loading'[c], saving'[c])
    BY <1>0, <1>5, <1>b DEF Save, Screen, Knows, TypeOK
  <2> QED BY <1>0, <1>5, <1>c, <2>1 DEF Save, TypeOK
<1>6. ASSUME NEW c \in Clients, Accept(c) PROVE ScreensInv'
  <2>1. saving[c] # None /\ saving[c] \in Saves
    BY <1>6, <1>b DEF Accept, Has
  <2>2. /\ saving'[c] # None /\ saving'[c].status = "saved"
        /\ saving'[c].sga = saving[c].sga /\ saving'[c].version = saving[c].version
        /\ saving'[c].base = saving[c].base /\ saving'[c].touched = saving[c].touched
        /\ \A d \in Clients \ {c} : saving'[d] = saving[d]
    BY <1>0, <1>6, <2>1, ServeType DEF Accept
  <2>3. file'.version = file.version + 1 /\ file'.sga = saving[c].sga
    BY <1>6 DEF Accept
  <2>4. \A d \in Clients : Screen(file', ctx[d], draft[d], touched[d], loading[d], saving[d])
    BY <1>a, <1>b, <2>3, NewerFile
  <2>5. saving[c].version = file.version
    BY <1>6 DEF Accept, Takes
  <2>6. Knows(file', saving'[c].version + 1, saving'[c].sga)
    BY <1>a, <2>2, <2>3, <2>5 DEF Knows
  <2>7. \A d \in Clients : Screen(file', ctx[d], draft[d], touched[d], loading[d], saving'[d])
    <3> SUFFICES ASSUME NEW d \in Clients
                 PROVE  Screen(file', ctx[d], draft[d], touched[d], loading[d], saving'[d])
      OBVIOUS
    <3>1. CASE d = c
      BY <2>1, <2>2, <2>4, <2>6, <3>1 DEF Screen
    <3>2. CASE d # c
      BY <2>2, <2>4, <3>2
    <3> QED BY <3>1, <3>2
  <2> QED BY <1>6, <2>7 DEF Accept, clientVars, ScreensInv
<1>7. ASSUME NEW c \in Clients, Refuse(c) \/ Lose(c) PROVE ScreensInv'
  <2>1. /\ saving[c] # None /\ UNCHANGED <<file, clientVars>>
        /\ \E status \in {"conflict", "failed"} : Serve(c, status)
    BY <1>7 DEF Refuse, Lose, Has
  <2>2. PICK status \in {"conflict", "failed"} : Serve(c, status)
    BY <2>1
  <2>3. /\ saving'[c] # None /\ saving'[c].status = status
        /\ saving'[c].sga = saving[c].sga /\ saving'[c].version = saving[c].version
        /\ saving'[c].base = saving[c].base /\ saving'[c].touched = saving[c].touched
        /\ \A d \in Clients \ {c} : saving'[d] = saving[d]
    BY <1>0, <2>1, <2>2, ServeType
  <2>4. Screen(file, ctx'[c], draft'[c], touched'[c], loading'[c], saving'[c])
    BY <1>b, <2>1, <2>2, <2>3 DEF clientVars, Screen
  <2> QED BY <1>c, <2>1, <2>3, <2>4 DEF clientVars
<1>8. ASSUME NEW c \in Clients, Saved(c) PROVE ScreensInv'
  <2>1. /\ ctx'[c] = [sga |-> saving[c].sga, version |-> saving[c].version + 1]
        /\ draft'[c] = saving[c].sga /\ touched'[c] = {} /\ saving'[c] = None
        /\ loading' = loading
    BY <1>0, <1>8 DEF Saved, Ends, TypeOK
  <2>2. Knows(file, saving[c].version + 1, saving[c].sga)
    BY <1>8, <1>b DEF Saved, Has, Screen
  <2>3. Screen(file, ctx'[c], draft'[c], touched'[c], loading'[c], saving'[c])
    BY <1>b, <2>1, <2>2 DEF Screen
  <2> QED BY <1>0, <1>8, <1>c, <2>3 DEF Saved, Ends, TypeOK
<1>9. ASSUME NEW c \in Clients, Conflict(c) \/ Failed(c) PROVE ScreensInv'
  <2>1. saving'[c] = None
    BY <1>0, <1>9 DEF Conflict, Failed, Ends, TypeOK
  <2>2. Screen(file, ctx'[c], draft'[c], touched'[c], loading'[c], saving'[c])
    BY <1>9, <1>b, <2>1 DEF Conflict, Failed, clientVars, Screen
  <2> QED BY <1>0, <1>9, <1>c, <2>2 DEF Conflict, Failed, Ends, clientVars, TypeOK
<1>10. CASE UNCHANGED vars
  BY <1>0, <1>10 DEF vars, ScreensInv
<1> QED BY <1>1, <1>2, <1>3, <1>4, <1>5, <1>6, <1>7, <1>8, <1>9, <1>10 DEF Next

LEMMA FinanceInvariance == Spec => []FinanceInv
<1>1. Init => TypeOK
  BY FinanceAssumption, FinanceNoneAssumption DEF Init, TypeOK, Blank, Rates, Summaries
<1>2. ASSUME Init PROVE ScreensInv
  <2> SUFFICES ASSUME NEW c \in Clients
               PROVE  Screen(file, ctx[c], draft[c], touched[c], loading[c], saving[c])
    BY DEF ScreensInv
  <2>1. /\ file.version = FirstVersion /\ ctx[c].version = 0 /\ ctx[c].sga = Blank
        /\ draft[c] = Blank /\ loading[c] = None /\ saving[c] = None
    BY <1>2 DEF Init
  <2>2. Knows(file, 0, Blank)
    BY <2>1, FinanceAssumption DEF Knows
  <2> QED BY <2>1, <2>2 DEF Screen
<1>3. FinanceInv /\ [Next]_vars => FinanceInv'
  BY TypeStep, ScreensStep DEF FinanceInv
<1>4. Init => FinanceInv
  BY <1>1, <1>2 DEF FinanceInv
<1> QED BY <1>3, <1>4, PTL DEF Spec

\* The variables always have their types.
THEOREM TypeInvariance == Spec => []TypeOK
<1>1. FinanceInv => TypeOK
  BY DEF FinanceInv
<1> QED BY <1>1, FinanceInvariance, PTL

-----------------------------------------------------------------------------
\* Only Accept writes the save of a screen, and it writes what was sent.
LEMMA WritesIsAccept ==
  ASSUME TypeOK, [Next]_vars, NEW c \in Clients, Writes(c) PROVE Accept(c)
<1> USE DEF Writes, Has
<1>1. saving[c].status = "sent" /\ saving[c] # None /\ saving'[c] # None
      /\ saving'[c].status = "saved" /\ saving' # saving
  BY DEF TypeOK
<1>2. ASSUME NEW d \in Clients, NEW s \in Sites, Type(d, s) PROVE FALSE
  BY <1>1, <1>2 DEF Type
<1>3. ASSUME NEW d \in Clients, Load(d) \/ Loaded(d) \/ LoadFails(d) PROVE FALSE
  BY <1>1, <1>3 DEF Load, Loaded, LoadFails
<1>4. ASSUME NEW d \in Clients, Save(d) \/ Saved(d) \/ Conflict(d) \/ Failed(d) PROVE FALSE
  BY <1>1, <1>4 DEF TypeOK, Save, Saved, Conflict, Failed, Ends
<1>5. ASSUME NEW d \in Clients, NEW status \in {"conflict", "failed"}, saving[d] # None,
             Serve(d, status)
      PROVE  FALSE
  BY <1>1, <1>5, ServeType
<1>6. ASSUME NEW d \in Clients, Refuse(d) \/ Lose(d) PROVE FALSE
  BY <1>5, <1>6 DEF Refuse, Lose
<1>7. ASSUME NEW d \in Clients, Accept(d) PROVE d = c
  BY <1>1, <1>7, ServeType DEF Accept
<1> QED BY <1>1, <1>2, <1>3, <1>4, <1>6, <1>7 DEF Next, vars

\* A save replaces the rates its screen showed when it began and no others.
THEOREM SavesReplaceWhatWasSeen == Spec => SeenBeforeReplaced
<1>1. ASSUME FinanceInv, [Next]_vars, NEW c \in Clients, Writes(c)
      PROVE  saving[c].base = file.sga
  <2>1. TypeOK /\ ScreensInv
    BY <1>1 DEF FinanceInv
  <2>2. Accept(c)
    BY <1>1, <2>1, WritesIsAccept
  <2> QED BY <2>1, <2>2 DEF Accept, Has, Takes, ScreensInv, Screen, Knows
<1>2. FinanceInv /\ [Next]_vars =>
        [\A c \in Clients : Writes(c) => saving[c].base = file.sga]_vars
  BY <1>1
<1> QED BY <1>2, FinanceInvariance, PTL DEF Spec, SeenBeforeReplaced

\* A save changes no site its user had not typed in.
THEOREM SavesKeepUntouchedSites == Spec => UntouchedKept
<1>1. ASSUME FinanceInv, [Next]_vars, NEW c \in Clients, NEW s \in Sites,
             Writes(c), s \notin saving[c].touched
      PROVE  file'.sga[s] = file.sga[s]
  <2>1. TypeOK /\ ScreensInv
    BY <1>1 DEF FinanceInv
  <2>2. Accept(c)
    BY <1>1, <2>1, WritesIsAccept
  <2>3. saving[c].base = file.sga /\ saving[c].sga[s] = saving[c].base[s]
    BY <1>1, <2>1, <2>2 DEF Accept, Has, Takes, ScreensInv, Screen, Knows
  <2> QED BY <2>2, <2>3 DEF Accept
<1>2. FinanceInv /\ [Next]_vars =>
        [\A c \in Clients, s \in Sites :
           Writes(c) /\ s \notin saving[c].touched => file'.sga[s] = file.sga[s]]_vars
  BY <1>1
<1> QED BY <1>2, FinanceInvariance, PTL DEF Spec, UntouchedKept
=============================================================================
