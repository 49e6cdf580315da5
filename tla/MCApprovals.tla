----------------------------- MODULE MCApprovals -----------------------------
(* Approvals on one quote and two people: ann prepares quotes and sam      *)
(* approves them in Sales, so a quote sent to Sales is announced to sam    *)
(* and an approval to ann.  Two transitions and two digests may be under   *)
(* way, and the queue and the version rows are small enough to overflow.   *)
EXTENDS Approvals

CONSTANTS q1, ann, sam, r1, r2, d1, d2

OneQuote == {q1}
TwoPeople == {ann, sam}
Preparers == {ann}
Approvers == {sam}
TwoRequests == {r1, r2}
TwoRuns == {d1, d2}
=============================================================================
