-------------------------- MODULE MCNtpUpdateTime ---------------------------
(* Instances of NtpUpdateTime for TLC. *)
EXTENDS NtpUpdateTime, TLC

Symmetric == Permutations(Threads)
=============================================================================
