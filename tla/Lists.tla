------------------------------- MODULE Lists -------------------------------
(***************************************************************************)
(* The loop that unlinks entries from a linked list, written the same way   *)
(* in fts_sched_remove and fts_timebase_remove_object: p runs along the     *)
(* list, steps over the entry it unlinks and behind the one it keeps.       *)
(***************************************************************************)
EXTENDS Naturals, Sequences, FiniteSets

\* The places of the entries that are kept, and which of them is the k-th.
Kept(s, R) == {i \in 1 .. Len(s) : s[i] \notin R}
KeptPlace(s, R, k) == CHOOSE i \in Kept(s, R) : Cardinality({j \in Kept(s, R) : j <= i}) = k

\* The list s without the entries in R, the others in their order.
Without(s, R) == [k \in 1 .. Cardinality(Kept(s, R)) |-> s[KeptPlace(s, R, k)]]
=============================================================================
