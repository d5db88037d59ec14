------------------------ MODULE MCClaimProcessing ------------------------
(* Instances of ClaimProcessing for TLC.  Claims, workers and operators are  *)
(* interchangeable; tokens are not (FreshToken chooses one).                 *)
EXTENDS ClaimProcessing, TLC

Symmetry == Permutations(Claim) \cup Permutations(Worker) \cup Permutations(Operator)
=============================================================================
