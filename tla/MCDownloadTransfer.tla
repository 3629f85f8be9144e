------------------------- MODULE MCDownloadTransfer -------------------------
(* Small instances of DownloadTransfer for TLC. *)
EXTENDS DownloadTransfer

CONSTANTS t1, t2, t3, d1, d2

Both == {t1, t2}
AllThree == {t1, t2, t3}
Nothing == {}
OnlySecond == {t2}
OneName == {d1}
TwoNames == {d1, d2}
ToOneName == [t \in Transfers |-> d1]
FirstTwoCollide == [t \in Transfers |-> IF t = t3 THEN d2 ELSE d1]
ThreeAndOne == [t \in Transfers |-> IF t = t1 THEN 3 ELSE 1]
TwoEach == [t \in Transfers |-> 2]
=============================================================================
