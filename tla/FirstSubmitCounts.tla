------------------------- MODULE FirstSubmitCounts -------------------------
(***************************************************************************)
(* What the leaderboard promises about one topic: a learner may submit as  *)
(* often as they like, the submissions are recorded in the order of their  *)
(* submission times, and the first one, for ever, is the official result.  *)
(***************************************************************************)
EXTENDS Naturals, Sequences

CONSTANTS Users,    \* the learners
          Entries,  \* submissions: records with at least the field "at"
          None      \* no official result yet

VARIABLES ledger,   \* per learner, the submissions in commit order
          official  \* per learner, the counted submission

vars == <<ledger, official>>

Init ==
    /\ ledger = [u \in Users |-> <<>>]
    /\ official = [u \in Users |-> None]

Submit(u, e) ==
    /\ \A i \in 1..Len(ledger[u]) : ledger[u][i].at <= e.at
    /\ ledger' = [ledger EXCEPT ![u] = Append(@, e)]
    /\ official' = [official EXCEPT ![u] = IF ledger[u] = <<>> THEN e ELSE @]

Next == \E u \in Users, e \in Entries : Submit(u, e)

Spec == Init /\ [][Next]_vars

=============================================================================
