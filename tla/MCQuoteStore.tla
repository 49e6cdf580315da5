---------------------------- MODULE MCQuoteStore ----------------------------
(* QuoteStore on two ids, with the number of file writes bounded by        *)
(* MaxSaves: enough to create a quote, purge it while its trash request    *)
(* waits, and change what that leaves.  One trash or restore request at a  *)
(* time waits between its check and its write.                             *)
EXTENDS QuoteStore, FiniteSets, TLC

CONSTANTS i1, i2, c1, c2, Budget

VARIABLE spent      \* counted steps so far

OneInstance  == {i1}
TwoInstances == {i1, i2}
OneContent   == {c1}
TwoContents  == {c1, c2}
TwoStatuses  == {"draft", "price_approved"}
AllKinds     == Kinds
PostAndPurge == {"post", "purge"}

Symmetry == Permutations(TwoInstances) \cup Permutations(TwoContents)

\* The requests sent: only a transition sets a status, and a caller expects
\* the first version of a quote or none.
Sent(r) ==
    /\ r.kind # "transition" => r.status = "draft"
    /\ r.expect \in {1, NoVersion}

MCInit == Init /\ spent = 0

\* Writes of the file, look-ups, snapshots of a new list and sections that
\* start beside another are counted.
Counts == \/ \E i \in Instances : Writes(i) \/ ~(checked'[i] \subseteq checked[i])
          \/ backup' # backup
          \/ \E i, j \in Instances : section[i] # Idle /\ section[j] = Idle /\ section'[j] # Idle

MCNext ==
    /\ Next
    /\ spent' = IF Counts THEN spent + 1 ELSE spent
    /\ spent' <= Budget
    /\ \A i \in Instances : section'[i] # Idle => Sent(section'[i].req)
    /\ \A i \in Instances : Cardinality(checked'[i]) <= 1

MCSpec == MCInit /\ [][MCNext]_<<vars, spent>>

=============================================================================
