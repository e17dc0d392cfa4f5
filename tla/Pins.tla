-------------------------------- MODULE Pins --------------------------------
(***************************************************************************)
(* The pins of the board as the program drives them: which output of the   *)
(* computer's port (or of the USB dongle) each kind of link uses for MOSI, *)
(* CLK and RESET, and what getpin(MISO) makes of the input.                *)
(*                                                                         *)
(* "posix" and "win32" are the serial port of the two builds, which reach  *)
(* the same lines by different calls.                                      *)
(***************************************************************************)
EXTENDS Integers

Kinds    == {"posix", "win32", "parallel", "usb"}
SerialKinds == {"posix", "win32"}
PinNames == {"MOSI", "CLK", "RESET"}

\* The outputs of each port, a bit of a register or a line of its own.
Outputs(kind) ==
    [posix    |-> {"TXD", "DTR", "RTS"}, win32 |-> {"TXD", "DTR", "RTS"},
     parallel |-> {"D0", "D2", "D3"},    usb   |-> {"P4", "P5", "P7"}][kind]

\* SerialComm: numbers of its pins, as serbb counts them.
SerialNumber == [MOSI |-> 3, CLK |-> 4, RESET |-> 6]
SerialMiso   == 7

\* serbb_setpin and serbb_getpin of posix: the modem bits of these numbers, and
\* the break condition for TXD.
SerRegBits  == <<"CD", "none", "none", "DTR", "DSR", "RTS", "CTS">>
PosixOut(n) == IF n = 3 THEN "TXD" ELSE SerRegBits[n]
PosixIn(n)  == SerRegBits[n]

\* Those of win32 name each line.
Win32Out(n) == IF n = 3 THEN "TXD" ELSE IF n = 4 THEN "DTR" ELSE "RTS"
Win32In(n)  == IF n = 1 THEN "CD" ELSE IF n = 5 THEN "DSR" ELSE "CTS"

\* ParallelComm: bits 0x01, 0x08 and 0x04 of the data register, 0x80 of the
\* status register.
ParallelBit == [MOSI |-> "D0", CLK |-> "D3", RESET |-> "D2"]
ParallelIn  == "S7"

\* USBComm: 5, 7 and 4, and bit 6 of what is read.
UsbBit == [MOSI |-> "P5", CLK |-> "P7", RESET |-> "P4"]
UsbIn  == "P6"

OutputSwapped(kind, pin) ==             \* mutant: CLK and RESET of the parallel port
    [posix    |-> PosixOut(SerialNumber[pin]),
     win32    |-> Win32Out(SerialNumber[pin]),
     parallel |-> [MOSI |-> "D0", CLK |-> "D2", RESET |-> "D3"][pin],
     usb      |-> UsbBit[pin]][kind]
Output(kind, pin) ==
    [posix    |-> PosixOut(SerialNumber[pin]),
     win32    |-> Win32Out(SerialNumber[pin]),
     parallel |-> ParallelBit[pin],
     usb      |-> UsbBit[pin]][kind]

\* setpin: one output changes; posix and parallel read the others and write
\* them back, win32 and USB name the one.
SetPin(kind, port, pin, val) == [port EXCEPT ![Output(kind, pin)] = val]

\* The outputs that the dongles connect to the board.
Wired == [posix    |-> [MOSI |-> "TXD", CLK |-> "DTR", RESET |-> "RTS"],
          win32    |-> [MOSI |-> "TXD", CLK |-> "DTR", RESET |-> "RTS"],
          parallel |-> [MOSI |-> "D0", CLK |-> "D3", RESET |-> "D2"],
          usb      |-> [MOSI |-> "P5", CLK |-> "P7", RESET |-> "P4"]]
Level(kind, port, pin) == port[Wired[kind][pin]]

WiredInput == [posix |-> "CTS", win32 |-> "CTS", parallel |-> "S7", usb |-> "P6"]

\* The input that each kind of link reads, and what it finds there: MISO, which
\* the parallel port inverts; nothing of the board on any other input.
Input(kind) == [posix    |-> PosixIn(SerialMiso),
                win32    |-> Win32In(SerialMiso),
                parallel |-> ParallelIn,
                usb      |-> UsbIn][kind]
InputBit(kind, miso) ==
    Input(kind) = WiredInput[kind] /\ miso = (kind # "parallel")

\* getpin(MISO): !serbb_getpin(fd, 7); ppi_get(fd, PPISTATUS, 0x80) as it is;
\* !(buff[0] & (1 << 6)).
SerialGet(bit)   == ~bit
ParallelGet(bit) == bit
UsbGet(bit)      == ~bit
GetPinNotInverted(kind, bit) == bit     \* mutant
GetPin(kind, bit) ==
    IF kind \in SerialKinds THEN SerialGet(bit)
    ELSE IF kind = "parallel" THEN ParallelGet(bit)
    ELSE UsbGet(bit)

\* What opening the port leaves.  Serial ports of posix and parallel ports are
\* opened without a look at their outputs; serbb_open of win32 disables DTR and RTS.
AnyLevel(kind) == [Outputs(kind) -> BOOLEAN]
Opened(kind) ==
    {p \in AnyLevel(kind) : kind = "win32" => ~p["DTR"] /\ ~p["RTS"]}

=============================================================================
