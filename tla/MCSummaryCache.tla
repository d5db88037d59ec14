--------------------------- MODULE MCSummaryCache ---------------------------
(***************************************************************************)
(* SummaryCache for model checking: claims, statuses and runs of the       *)
(* script are interchangeable (organizations are not, as only some of them *)
(* have their summary looked at).                                          *)
(***************************************************************************)
EXTENDS SummaryCache, TLC

Symmetry == Permutations(Claim) \cup Permutations(Status) \cup Permutations(Script)
=============================================================================
