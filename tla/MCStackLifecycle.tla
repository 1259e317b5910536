-------------------------- MODULE MCStackLifecycle --------------------------
(* Small instances of StackLifecycle for TLC. *)
EXTENDS StackLifecycle

\* The bound of the two-path run: it stops where an operation has left a path
\* half removed.  A non-empty directory without .wdm.lock is refused by every
\* later operation, and a half-deleted one is what the one-path run covers.
PathsWhole ==
  pc = "idle" => \A p \in Path :
                   /\ p \notin gutted
                   /\ entries[p] \ {"user"} # {} => lock[p] # "absent"
=============================================================================
