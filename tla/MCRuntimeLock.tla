--------------------------- MODULE MCRuntimeLock ---------------------------
(* Small instances of RuntimeLock for TLC. *)
EXTENDS RuntimeLock, TLC

\* Inodes are interchangeable, and so are the processes that run the clear, which
\* the configurations treat alike: no action or property names one.
Symmetry == Permutations(Inode) \cup Permutations(Clearers)
=============================================================================
