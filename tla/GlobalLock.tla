----------------------------- MODULE GlobalLock -----------------------------
(***************************************************************************)
(* What the engine expects of the runtime lock: a lock that at most one    *)
(* process holds.  A holder leaves by releasing it or by dying, which look *)
(* the same from outside; nobody else can take it away.                    *)
(***************************************************************************)
CONSTANT Proc

VARIABLE holders

Init == holders = {}

Acquire(p) == holders = {} /\ holders' = {p}

Leave(p) == p \in holders /\ holders' = holders \ {p}

Next == \E p \in Proc : Acquire(p) \/ Leave(p)

Spec == Init /\ [][Next]_holders
=============================================================================
