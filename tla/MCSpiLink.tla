----------------------------- MODULE MCSpiLink -----------------------------
(***************************************************************************)
(* Instances of SpiLink for TLC.                                           *)
(***************************************************************************)
EXTENDS SpiLink

\* The byte of a number, as far as Width goes.
B(n) == [b \in Bits |-> (n \div <<1, 2, 4, 8>>[b + 1]) % 2 = 1]

SomeCodes == [read |-> B(5), write |-> B(6), read16 |-> B(7), write16 |-> B(4)]
Status == B(8)
Nothing == B(15)

\* The low bit of the low byte decodes; bytes swapped would find the other cell.
LowBit == [a \in Byte \X Byte |-> IF a[2][0] THEN 1 ELSE 0]
OneAddr == {<<B(0), B(1)>>}

AllKinds == {"posix", "win32", "parallel", "usb"}

\* A byte of a picture may look like the status, or like a command: over USB,
\* where the board is listened to after a slip.
Pictures == [k \in AllKinds |-> {IF k = "usb" THEN B(5) ELSE B(1), B(8)}]

\* Commands after a slip: over USB the link is given the time to heal.
Tries == [k \in AllKinds |-> IF k = "usb" THEN 2 ELSE 0]

=============================================================================
