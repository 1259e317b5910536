----------------------------- MODULE MCSelfUpdate -----------------------------
(* Two processes, an unreleased build and two releases, of which the second may be
   broken; any answer of the release server with either trust anchor gone. *)
EXTENDS SelfUpdate, TLC

ProcSymmetry == Permutations(Proc)
=============================================================================
