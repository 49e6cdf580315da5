---------------------------- MODULE FinanceEditing ----------------------------
(***************************************************************************)
(* Administrators editing the SGA rates of the sites, which all live in    *)
(* one file, finance_sum.json (client LibFinance.jsx, CostLibContext.jsx;  *)
(* the financeSumDB part of POST /save-all in server/routes/costApi.js).   *)
(*                                                                         *)
(* A screen shows a draft of every site's rate and saves all of them with  *)
(* the version it loaded; the server takes them only if that is still the  *)
(* version of the file.  The user types in some sites: those keep their    *)
(* draft when the screen loads the file again, the others follow the file. *)
(* The fields stay open while a save is on its way.                        *)
(*                                                                         *)
(* A rate is the number of the edit that typed it, 0 for a blank one.      *)
(***************************************************************************)
EXTENDS Integers

CONSTANTS
    Clients,
    Sites,
    None,
    FirstVersion,   \* the version of a file that was saved before
    MaxEdits,       \* bound on the rates typed
    MaxVersion      \* bound on the version of the file

ASSUME FinanceAssumption ==
    /\ FirstVersion \in Nat \ {0}
    /\ MaxEdits \in Nat \ {0}
    /\ MaxVersion \in Nat
    /\ FirstVersion <= MaxVersion

VARIABLES
    file,       \* finance_sum.json
    ctx,        \* ctx[c]: finance.summary in the context of the screen
    draft,      \* draft[c]: sgaDraft
    touched,    \* touched[c]: touchedSitesRef
    dirty,      \* dirty[c]: sgaDirty, which enables Save
    loading,    \* loading[c]: the answer to loadAll on its way
    saving,     \* saving[c]: the save that is on its way
    edits       \* rates typed so far

vars == <<file, ctx, draft, touched, dirty, loading, saving, edits>>

Rates == [Sites -> 0..MaxEdits]
Summaries == [sga : Rates, version : 0..MaxVersion]
\* "base" and "touched" are what the screen showed and what its user had
\* typed in when the save began (history).
Saves ==
    [sga : Rates, version : 0..MaxVersion, base : Rates, touched : SUBSET Sites,
     status : {"sent", "saved", "conflict", "failed"}]

ASSUME FinanceNoneAssumption == None \notin Summaries \cup Saves

TypeOK ==
    /\ file \in Summaries
    /\ ctx \in [Clients -> Summaries]
    /\ draft \in [Clients -> Rates]
    /\ touched \in [Clients -> SUBSET Sites]
    /\ dirty \in [Clients -> BOOLEAN]
    /\ loading \in [Clients -> Summaries \cup {None}]
    /\ saving \in [Clients -> Saves \cup {None}]
    /\ edits \in 0..MaxEdits

-----------------------------------------------------------------------------
Blank == [s \in Sites |-> 0]

\* The file holds a first edit; the context starts empty, as version 0.
Init ==
    /\ file = [sga |-> [s \in Sites |-> 1], version |-> FirstVersion]
    /\ ctx = [c \in Clients |-> [sga |-> Blank, version |-> 0]]
    /\ draft = [c \in Clients |-> Blank]
    /\ touched = [c \in Clients |-> {}]
    /\ dirty = [c \in Clients |-> FALSE]
    /\ loading = [c \in Clients |-> None]
    /\ saving = [c \in Clients |-> None]
    /\ edits = 1

\* handleSgaChange.
Type(c, s) ==
    /\ edits < MaxEdits
    /\ edits' = edits + 1
    /\ draft' = [draft EXCEPT ![c] = [@ EXCEPT ![s] = edits + 1]]
    /\ touched' = [touched EXCEPT ![c] = @ \cup {s}]
    /\ dirty' = [dirty EXCEPT ![c] = TRUE]
    /\ UNCHANGED <<file, ctx, loading, saving>>

\* loadAll, up to the file being read: at the start, from Reload, and after a
\* save of another library.  It aborts the load before it.
Load(c) ==
    /\ loading' = [loading EXCEPT ![c] = file]
    /\ UNCHANGED <<file, ctx, draft, touched, dirty, saving, edits>>

\* A reload used to keep the whole draft of a user who had typed.
RefreshedFault(old, sites, stored) == IF sites = {} THEN stored ELSE old

\* Only what was typed is carried over, without the stored rates under it.
OverlayFault(old, sites, stored) == [s \in sites |-> old[s]]

\* The draft when what is stored changes: what was typed stays.
Refreshed(old, sites, stored) ==
    [s \in Sites |-> IF s \in sites THEN old[s] ELSE stored[s]]

\* The answers of loadAll reach the context, and from there the draft.
Loaded(c) ==
    /\ loading[c] # None
    /\ ctx' = [ctx EXCEPT ![c] = loading[c]]
    /\ draft' = [draft EXCEPT ![c] = Refreshed(@, touched[c], loading[c].sga)]
    /\ loading' = [loading EXCEPT ![c] = None]
    /\ UNCHANGED <<file, touched, dirty, saving, edits>>

\* One of the requests of loadAll fails: the context stays as it was.
LoadFails(c) ==
    /\ loading[c] # None
    /\ loading' = [loading EXCEPT ![c] = None]
    /\ UNCHANGED <<file, ctx, draft, touched, dirty, saving, edits>>

\* handleSgaSave, up to its await.
Save(c) ==
    /\ dirty[c]
    /\ saving[c] = None
    /\ saving' = [saving EXCEPT ![c] =
                    [sga |-> draft[c], version |-> ctx[c].version,
                     base |-> ctx[c].sga, touched |-> touched[c], status |-> "sent"]]
    /\ UNCHANGED <<file, ctx, draft, touched, dirty, loading, edits>>

-----------------------------------------------------------------------------
Has(c, status) == saving[c] # None /\ saving[c].status = status

\* The file is written over whatever version the save began from.
TakesFault(version) == TRUE

\* A save is taken if its version is that of the file.
Takes(version) == version = file.version

Serve(c, status) == saving' = [saving EXCEPT ![c] = [@ EXCEPT !.status = status]]
clientVars == <<ctx, draft, touched, dirty, loading, edits>>

Accept(c) ==
    /\ Has(c, "sent")
    /\ Takes(saving[c].version)
    /\ file.version < MaxVersion
    /\ file' = [sga |-> saving[c].sga, version |-> file.version + 1]
    /\ Serve(c, "saved")
    /\ UNCHANGED clientVars

Refuse(c) ==
    /\ Has(c, "sent")
    /\ ~Takes(saving[c].version)
    /\ Serve(c, "conflict")
    /\ UNCHANGED <<file, clientVars>>

\* The request or its answer is lost, or the file could not be written.
Lose(c) ==
    /\ \E status \in {"sent", "saved", "conflict"} : Has(c, status)
    /\ Serve(c, "failed")
    /\ UNCHANGED <<file, clientVars>>

Ends(c) == saving' = [saving EXCEPT ![c] = None]

\* The rest of handleSgaSave.
Saved(c) ==
    /\ Has(c, "saved")
    /\ ctx' = [ctx EXCEPT ![c] =
                 [sga |-> saving[c].sga, version |-> saving[c].version + 1]]
    /\ draft' = [draft EXCEPT ![c] = saving[c].sga]
    /\ touched' = [touched EXCEPT ![c] = {}]
    /\ dirty' = [dirty EXCEPT ![c] = FALSE]
    /\ Ends(c)
    /\ UNCHANGED <<file, loading, edits>>

Conflict(c) ==
    /\ Has(c, "conflict")
    /\ dirty' = [dirty EXCEPT ![c] = FALSE]
    /\ Ends(c)
    /\ UNCHANGED <<file, ctx, draft, touched, loading, edits>>

Failed(c) ==
    /\ Has(c, "failed")
    /\ Ends(c)
    /\ UNCHANGED <<file, clientVars>>

Next ==
    \E c \in Clients :
        \/ \E s \in Sites : Type(c, s)
        \/ Load(c) \/ Loaded(c) \/ LoadFails(c)
        \/ Save(c) \/ Accept(c) \/ Refuse(c) \/ Lose(c)
        \/ Saved(c) \/ Conflict(c) \/ Failed(c)

Spec == Init /\ [][Next]_vars

-----------------------------------------------------------------------------
\* The save of client c is written in this step.
Writes(c) == Has(c, "sent") /\ saving'[c] # None /\ saving'[c].status = "saved"

\* A save replaces the rates its screen showed when it began and no others,
\* however loads, saves and lost answers of the screens interleave: what the
\* version is checked for.
SeenBeforeReplaced == [][\A c \in Clients : Writes(c) => saving[c].base = file.sga]_vars

\* A save changes no site its user had not typed in, though it sends the rates
\* of all sites: the lost update the touched sites were introduced for.
UntouchedKept ==
    [][\A c \in Clients, s \in Sites :
         Writes(c) /\ s \notin saving[c].touched => file'.sga[s] = file.sga[s]]_vars

\* A rate a user typed is given up only once it is in the file; a save that
\* returns puts its own rates over what was typed since it was sent.
EditsSurvive ==
    [][\A c \in Clients, s \in Sites :
         s \in touched[c] \ touched'[c] => Has(c, "saved") /\ draft[c][s] = saving[c].sga[s]]_vars
=============================================================================
