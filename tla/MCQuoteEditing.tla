--------------------------- MODULE MCQuoteEditing ---------------------------
(* QuoteEditing with two clients.  MaxSent saves are sent altogether and    *)
(* MaxMarks approvals, trash moves and purges happen; at a time one request *)
(* is adrift and one look-up of New is under way.                           *)
EXTENDS QuoteEditing, FiniteSets, TLC

CONSTANTS c1, c2, x, y, MaxSent, MaxMarks

VARIABLES sent, marks

TwoClients  == {c1, c2}
OneClient   == {c1}
StdOnly     == {"std"}
StdContents == {x, y}
AllStd      == [u \in StdContents |-> "std"]
StdStart    == [k \in StdOnly |-> x]
TwoStatuses == {"draft", "price_approved"}

Sending == \E c \in Clients, k \in Calcs :
             call'[c][k] # None /\ call'[c][k].stage = "sent"
             /\ (call[c][k] # None => call[c][k].stage = "conflict")

\* Somebody else's step: the list changes and no save gets further.
Marking == /\ quotes' # quotes
           /\ Cardinality(adrift') = Cardinality(adrift)
           /\ \A c \in Clients, k \in Calcs :
                call[c][k] # None => call'[c][k].stage = call[c][k].stage

MCInit == Init /\ sent = 0 /\ marks = 0

MCNext ==
    /\ Next
    /\ sent' = IF Sending THEN sent + 1 ELSE sent
    /\ marks' = IF Marking THEN marks + 1 ELSE marks
    /\ sent' <= MaxSent
    /\ marks' <= MaxMarks
    /\ Cardinality(adrift') <= 1
    /\ \A c, d \in Clients, j, k \in Calcs :
         resets'[c][j] > 0 /\ resets'[d][k] > 0 => c = d /\ j = k /\ resets'[c][j] = 1

\* The clients are alike.
ClientSymmetry == Permutations(TwoClients)

MCSpec == MCInit /\ [][MCNext]_<<vars, sent, marks>>
=============================================================================
