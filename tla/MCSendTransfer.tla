--------------------------- MODULE MCSendTransfer ---------------------------
(* Small instances of SendTransfer for TLC. *)
EXTENDS SendTransfer

CONSTANTS t1, t2, t3, d1, d2

Both == {t1, t2}
OnlyFirst == {t1}
OnlyLast == {t3}
AllThree == {t1, t2, t3}
Nothing == {}
OneName == {d1}
TwoNames == {d1, d2}
ToOneName == [t \in Transfers |-> d1]
ToTwoNames == [t \in Transfers |-> IF t = t1 THEN d1 ELSE d2]

TwoTwoOne == [t \in Transfers |-> IF t = t3 THEN 1 ELSE 2]
TwoAndThree == [t \in Transfers |-> IF t = t1 THEN 2 ELSE 3]
=============================================================================
