------------------------------ MODULE MCJobMgr ------------------------------
(* Small instances of JobMgr for TLC. *)
EXTENDS JobMgrInvariant

CONSTANTS user1, user2

OnePart == [p \in {0} |-> 2]
TwoParts == [p \in 0..1 |-> 2 - p]
TwoSingles == [p \in 0..1 |-> 1]

Nobody == {}
FirstTransfer == {<<0, 0>>}
=============================================================================
