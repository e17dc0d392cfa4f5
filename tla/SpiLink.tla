------------------------------ MODULE SpiLink ------------------------------
(***************************************************************************)
(* SpokePOVComm down to the wire: the bytes of each command, the bit loops *)
(* of spi_xfer and spi_get over the pins of a serial or parallel port, and *)
(* the transfers of the USB dongle.                                        *)
(*                                                                         *)
(* The board is external.  It listens to its clock whether or not it is    *)
(* spoken to, so that the two ends stay in step only as long as each hears *)
(* all that the other clocks: commands carry no length or checksum, only a *)
(* status byte at their end.  What is modelled of it is what the commands  *)
(* rely on: it takes a bit on the rise of CLK and shows its own, most      *)
(* significant first; it ignores a byte that is no command, stores the     *)
(* bytes of a write as they come, and answers while it is clocked on.      *)
(*                                                                         *)
(* Faults: the board misses a rise of CLK (the delay is too short for it), *)
(* a USB transfer does not reach the board or its answer does not come     *)
(* back, the adaptor of a serial port is pulled out.                       *)
(***************************************************************************)
EXTENDS Pins, Sequences

CONSTANTS
    Width,      \* bits of a byte (8 in the code)
    Chunk,      \* bytes of a 16-byte command (16 in the code)
    Code,       \* COMP_CMD_* of each operation
    Ack,        \* 0x80, the status of a command that was done
    Quiet,      \* what the board shows when it has nothing to answer
    Cells,      \* places of the board's memory that hold a chunk
    Where,      \* the cell that the board finds under a high and a low byte
    Addrs,      \* addresses that commands are given: high and low byte
    Payload,    \* bytes that writes are given, over each kind of link
    Kind,       \* kinds of link
    MaxFaults,  \* bound on the faults of a connection
    Patience,   \* bound on the commands tried after a slip, for each kind
    Enough      \* number of reads that the property Cured is about

Bits  == 0..(Width - 1)
Byte  == [Bits -> BOOLEAN]
Slots == 0..(Chunk - 1)
Ops    == {"read", "write", "read16", "write16"}
Writes == {"write", "write16"}
Codes  == {Code[o] : o \in Ops}

ASSUME LinkAssumption ==
    /\ Width \in Nat \ {0} /\ Chunk \in Nat \ {0}
    /\ Code \in [Ops -> Byte] /\ \A o, p \in Ops : Code[o] = Code[p] => o = p
    /\ Ack \in Byte /\ Quiet \in Byte /\ Ack # Quiet
    /\ Where \in [Byte \X Byte -> Cells]
    /\ Addrs \subseteq (Byte \ Codes) \X (Byte \ Codes)
    /\ Kind \subseteq Kinds /\ Payload \in [Kind -> SUBSET Byte]
    /\ MaxFaults \in Nat /\ Enough \in Nat /\ Patience \in [Kind -> Nat]

Zeros == [b \in Bits |-> FALSE]
Ones  == [b \in Bits |-> TRUE]          \* 0xFF
Blank == [s \in Slots |-> Zeros]        \* a buffer that nobody looks at

ASSUME CodesNotZero == Zeros \notin Codes

\* A read clocks five bytes; what the board may still wait for or owe when a
\* command has begun is at most Chunk + 3.
ASSUME EnoughReads == 5 * Enough >= Chunk + 3

VARIABLES
    kind,       \* the kind of link
    up,         \* a link object exists and its port is open
    port,       \* levels of the port's outputs
    pulled,     \* the serial adaptor has been pulled out
    op,         \* the command that runs, or "none"
    addr, data, \* its arguments
    got,        \* the caller's buffer
    ret,        \* the command's status byte
    pos,        \* bytes of the command sent and received so far
    x,          \* the bit loop's index
    clocked,    \* its CLK is set
    told,       \* result of the last command: "none", "ok" or "failed"
    heard,      \* board: the bits of the present byte so far
    args,       \* board: the bytes of the present command so far
    owed,       \* board: the bytes still to be answered
    miso,       \* board: level of MISO
    mem,        \* board: its memory
    slipped,    \* history: the ends may be out of step, "no", "now" (since the
                \* present or last command) or "before"
    faults,     \* number of faults of this connection
    tried,      \* commands called since the ends slipped
    calm        \* history: reads completed since the last fault, -1 in the
                \* command of the fault

host  == <<up, port, pulled, op, addr, data, got, ret, pos, x, clocked, told>>
args4 == <<op, addr, data>>
board == <<heard, args, owed, miso, mem>>
history == <<slipped, faults, tried, calm>>
vars == <<kind, host, board, history>>

----------------------------------------------------------------------------
(* The bytes of a command. *)

\* Data bytes of a command.
Count(o) == IF o \in {"read", "write"} THEN 1 ELSE Chunk

\* Calls of spi_xfer of a command, and of spi_get.
Sends(o)   == 3 + (IF o \in Writes THEN Count(o) ELSE 0)
Answers(o) == 1 + (IF o \in Writes THEN 0 ELSE Count(o))

Sending == pos < Sends(op)
AtStatusLate == pos = Sends(op) + Answers(op)          \* mutant: one byte too far
AtStatus == pos = Sends(op) + Answers(op) - 1

\* Byte n of a command, of those that are sent.
SentSwapped(n) ==                       \* mutant: low byte of the address first
    IF n = 0 THEN Code[op] ELSE IF n < 3 THEN addr[3 - n] ELSE data[n - 3]
Sent(n) ==
    IF n = 0 THEN Code[op] ELSE IF n < 3 THEN addr[n] ELSE data[n - 3]

\* What is on MOSI for the present byte: spi_get clocks out zeros.
OutgoingRepeats == IF Sending THEN Sent(pos) ELSE Sent(0)  \* mutant: not cleared
Outgoing == IF Sending THEN Sent(pos) ELSE Zeros

----------------------------------------------------------------------------
(* The board. *)

Answer == IF owed # <<>> THEN Head(owed) ELSE Quiet

OpOf(code) == CHOOSE o \in Ops : Code[o] = code

\* The board has a byte: it is clocked through an answer, a code begins a
\* command, what follows are its address and data.
Hear(b) ==
    IF owed # <<>>
    THEN owed' = Tail(owed) /\ UNCHANGED <<args, mem>>
    ELSE IF args = <<>> /\ b \notin Codes
    THEN UNCHANGED <<args, owed, mem>>
    ELSE LET a == Append(args, b)
             o == OpOf(a[1])
         IN IF Len(a) < 3
            THEN args' = a /\ UNCHANGED <<owed, mem>>
            ELSE LET cell == Where[<<a[2], a[3]>>]
                     data1 == Len(a) - 4          \* which data byte it is
                 IN /\ mem' = IF data1 >= 0
                              THEN [mem EXCEPT ![cell][data1] = b] ELSE mem
                    /\ IF Len(a) < Sends(o)
                       THEN args' = a /\ UNCHANGED owed
                       ELSE /\ args' = <<>>
                            /\ owed' = [n \in 1..Answers(o) |->
                                          IF n = Answers(o) THEN Ack ELSE mem[cell][n - 1]]

\* A rise of CLK that the board sees: it takes MOSI, and shows the next bit of
\* its own until the next rise.
Clock(mosi) ==
    /\ miso' = Answer[Width - 1 - Len(heard)]
    /\ IF Len(heard) + 1 < Width
       THEN heard' = Append(heard, mosi) /\ UNCHANGED <<args, owed, mem>>
       ELSE LET all == Append(heard, mosi)
            IN heard' = <<>> /\ Hear([b \in Bits |-> all[Width - b]])

\* The board is not held in reset.
Awake == Level(kind, port, "RESET")

----------------------------------------------------------------------------
(* Connecting: the constructors, and reset(). *)

NoCommand == op = "none"

\* The ends lose each other in the present command, if they had not before.
Slip == IF slipped = "no" THEN "now" ELSE slipped

\* A port of another life, before anything was opened.
Init ==
    /\ kind \in Kind
    /\ up = FALSE
    /\ port \in Opened(kind)
    /\ pulled = FALSE
    /\ op = "none" /\ told = "none"
    /\ addr \in Addrs /\ data = Blank /\ got = Blank /\ ret = Ones
    /\ pos = 0 /\ x = Width - 1 /\ clocked = FALSE
    /\ heard = <<>> /\ args = <<>> /\ owed = <<>> /\ miso = FALSE
    /\ \E v \in Payload[kind] : mem = [c \in Cells |-> [s \in Slots |-> v]]
    /\ slipped = "before" /\ faults = 0 /\ tried = 0 /\ calm = 0

\* setpin(RESET, 0), setpin(RESET, 1) of a board: the first is seen by it if
\* lowered, the second if raised; what is lost leaves the pin as it was.
PulseReset(opened, lowered, raised) ==
    LET low  == IF lowered THEN SetPin(kind, opened, "RESET", FALSE) ELSE opened
        high == IF raised THEN SetPin(kind, low, "RESET", TRUE) ELSE low
        fresh == ~Level(kind, low, "RESET")
    IN /\ port' = high
       /\ IF fresh
          THEN heard' = <<>> /\ args' = <<>> /\ owed' = <<>>
          ELSE UNCHANGED <<heard, args, owed>>
       /\ slipped' = IF /\ fresh /\ Level(kind, high, "RESET")
                        /\ kind # "usb" => ~Level(kind, high, "CLK")
                     THEN "no" ELSE "before"
       /\ UNCHANGED <<miso, mem>>

\* Connect.  The control messages of a USB dongle may be lost, and nobody looks.
Connect ==
    /\ NoCommand
    /\ \E opened \in Opened(kind) :
          \/ PulseReset(opened, TRUE, TRUE)
          \/ kind = "usb" /\ MaxFaults > 0 /\
             \E lowered, raised \in BOOLEAN : PulseReset(opened, lowered, raised)
    /\ up' = TRUE /\ pulled' = FALSE
    /\ faults' = 0 /\ tried' = 0 /\ calm' = 0
    /\ told' = "none"
    /\ UNCHANGED <<kind, op, addr, data, got, ret, pos, x, clocked>>

\* The link is deleted: its port is closed, which may leave the pins anyhow.
Disconnect ==
    /\ up /\ NoCommand
    /\ up' = FALSE
    /\ told' = "none"
    /\ UNCHANGED <<kind, port, pulled, op, addr, data, got, ret, pos, x, clocked, board, history>>

\* The adaptor of a serial port is pulled out.
Pull ==
    /\ up /\ kind \in SerialKinds /\ ~pulled /\ faults < MaxFaults
    /\ pulled' = TRUE
    /\ slipped' = IF NoCommand THEN "before" ELSE Slip
    /\ faults' = faults + 1 /\ calm' = -1
    /\ UNCHANGED <<kind, up, port, op, addr, data, got, ret, pos, x, clocked, told, board, tried>>

----------------------------------------------------------------------------
(* Commands: readbyte, read16byte, writebyte, write16byte. *)

\* A handler calls a command.  Only a write has data.  What is in the buffer of
\* a read is shifted out or overwritten.
Call(o, a, d) ==
    /\ up /\ NoCommand
    /\ slipped # "no" => tried < Patience[kind]
    /\ tried' = IF slipped = "no" THEN tried ELSE tried + 1
    /\ op' = o /\ addr' = a
    /\ data' = d
    /\ got' = Blank /\ ret' = Ones
    /\ pos' = 0
    /\ told' = "none"
    /\ slipped' = IF slipped = "now" THEN "before" ELSE slipped
    /\ calm' = IF calm = -1 THEN 0 ELSE calm
    /\ UNCHANGED <<kind, up, port, pulled, x, clocked, board, faults>>

Return(result) ==
    /\ op' = "none" /\ pos' = 0
    /\ told' = result
    /\ data' = Blank
    /\ UNCHANGED addr

\* The number of reads without a fault, after the command has returned.
CalmAfter ==
    calm' = IF calm = -1 THEN -1
            ELSE IF op # "read" THEN 0
            ELSE IF calm < Enough THEN calm + 1 ELSE calm

\* A byte is through: the next one, or the end with what the status says.
StatusIgnored ==                        \* mutant: the status is read, not looked at
    IF ~Sending /\ AtStatus
    THEN Return("ok") /\ CalmAfter
    ELSE pos' = pos + 1 /\ UNCHANGED <<args4, told, calm>>
NextByte ==
    IF ~Sending /\ AtStatus
    THEN Return(IF ret' = Ack THEN "ok" ELSE "failed") /\ CalmAfter
    ELSE pos' = pos + 1 /\ UNCHANGED <<args4, told, calm>>

----------------------------------------------------------------------------
(* spi_xfer and spi_get over pins. *)

\* c <<= 1, c |= bit.
Shifted(c, bit) == [b \in Bits |-> IF b = 0 THEN bit ELSE c[b - 1]]

\* The byte that spi_get shifts: the caller's, or the status.
Store(bit) ==
    IF Sending
    THEN UNCHANGED <<got, ret>>
    ELSE IF AtStatus
    THEN ret' = Shifted(ret, bit) /\ UNCHANGED got
    ELSE /\ got' = [got EXCEPT ![pos - Sends(op)] = Shifted(@, bit)]
         /\ UNCHANGED ret

\* Without the adaptor (posix) the bits are what an uninitialized word holds; of
\* these only whether they make the status is followed.
StoreGarbage ==
    /\ ret' \in IF ~Sending /\ AtStatus /\ x = 0 THEN {Ack, Ones} ELSE {ret}
    /\ UNCHANGED got

OnPins == ~NoCommand /\ kind # "usb" /\ ~(pulled /\ kind = "win32")

\* setpin(MOSI), setpin(CLK, true), delay, and in spi_get getpin(MISO).
ClockHigh(missed) ==
    LET mosi == SetPin(kind, port, "MOSI", Outgoing[x])
        rise == ~Level(kind, port, "CLK")
    IN /\ OnPins /\ ~clocked
       /\ port' = SetPin(kind, mosi, "CLK", TRUE)
       /\ clocked' = TRUE
       /\ missed => faults < MaxFaults /\ ~pulled
       /\ IF rise /\ Awake /\ ~missed /\ ~pulled
          THEN Clock(Level(kind, mosi, "MOSI"))
          ELSE UNCHANGED board
       /\ IF pulled THEN StoreGarbage
          ELSE Store(~GetPin(kind, InputBit(kind, miso')))
       /\ IF missed
          THEN slipped' = Slip /\ faults' = faults + 1 /\ calm' = -1
          ELSE UNCHANGED <<slipped, faults, calm>>
       /\ UNCHANGED <<kind, up, pulled, args4, pos, x, told, tried>>

\* setpin(CLK, false), delay, x--.
ClockLow ==
    /\ OnPins /\ clocked
    /\ port' = SetPin(kind, port, "CLK", FALSE)
    /\ clocked' = FALSE
    /\ UNCHANGED <<got, ret>>
    /\ IF x > 0
       THEN x' = x - 1 /\ UNCHANGED <<args4, pos, told, calm>>
       ELSE x' = Width - 1 /\ NextByte
    /\ UNCHANGED <<kind, up, pulled, board, slipped, faults, tried>>

\* serbb_setpin or serbb_getpin of win32 fails: exit(1).
Exit ==
    /\ ~NoCommand /\ kind = "win32" /\ pulled
    /\ up' = FALSE
    /\ op' = "none" /\ pos' = 0 /\ told' = "none"
    /\ x' = Width - 1 /\ clocked' = FALSE
    /\ data' = Blank
    /\ UNCHANGED <<kind, port, pulled, addr, got, ret, board, history>>

----------------------------------------------------------------------------
(* usbspi_xfer and usbspi_get: one control message for a byte. *)

Outcomes == {"done", "unheard", "unanswered"}

\* Does this transfer leave the board with something the program will not
\* clock out, or without something it was sent?
Slips(outcome) ==
    outcome = "unheard" \/ (outcome = "unanswered" /\ ~Sending /\ ~AtStatus)

\* A transfer that failed ends a command only where an answer is waited for.
GivesUpOnSends(outcome) == outcome # "done"          \* mutant
GivesUp(outcome) == outcome # "done" /\ ~Sending

Transfer(outcome) ==
    /\ ~NoCommand /\ kind = "usb"
    /\ outcome # "done" => faults < MaxFaults
    /\ IF Awake /\ outcome # "unheard"
       THEN Hear(Outgoing) /\ UNCHANGED <<heard, miso>>
       ELSE UNCHANGED board
    /\ LET answer == IF Awake THEN Answer ELSE Quiet
       IN /\ got' = IF ~Sending /\ ~AtStatus /\ outcome = "done"
                    THEN [got EXCEPT ![pos - Sends(op)] = answer] ELSE got
          /\ ret' = IF ~Sending /\ AtStatus /\ outcome = "done" THEN answer ELSE ret
    /\ slipped' = IF Slips(outcome) THEN Slip ELSE slipped
    /\ faults' = IF outcome = "done" THEN faults ELSE faults + 1
    /\ IF GivesUp(outcome)
       THEN Return("failed") /\ calm' = -1
       ELSE IF outcome = "done" THEN NextByte
       ELSE pos' = pos + 1 /\ calm' = -1 /\ UNCHANGED <<args4, told>>
    /\ UNCHANGED <<kind, up, port, pulled, x, clocked, tried>>

----------------------------------------------------------------------------

\* Steps of a command that runs.
Running ==
    \/ \E missed \in BOOLEAN : ClockHigh(missed)
    \/ ClockLow \/ Exit
    \/ \E outcome \in Outcomes : Transfer(outcome)

\* A byte command has one data byte, the others are not looked at.
Blanks(o) == {d \in [Slots -> Payload[kind] \cup {Zeros}] :
                \A s \in Slots : (s < Count(o)) = (d[s] \in Payload[kind])}

Next ==
    \/ Connect \/ Disconnect \/ Pull
    \/ \E o \in Ops, a \in Addrs : \E d \in IF o \in Writes THEN Blanks(o) ELSE {Blank} :
          Call(o, a, d)
    \/ Running

Spec == Init /\ [][Next]_vars

----------------------------------------------------------------------------
(* Properties. *)

\* Every variable has its type, and the loops their ranges.
TypeOK ==
    /\ kind \in Kind /\ up \in BOOLEAN /\ pulled \in BOOLEAN
    /\ port \in [Outputs(kind) -> BOOLEAN]
    /\ op \in Ops \cup {"none"} /\ addr \in Addrs
    /\ data \in [Slots -> Byte] /\ got \in [Slots -> Byte] /\ ret \in Byte
    /\ ~NoCommand => up /\ pos \in 0..(Sends(op) + Answers(op) - 1)
    /\ x \in Bits /\ clocked \in BOOLEAN
    /\ told \in {"none", "ok", "failed"}
    /\ heard \in Seq(BOOLEAN) /\ Len(heard) < Width
    /\ args \in Seq(Byte) /\ Len(args) < 3 + Chunk
    /\ owed \in Seq(Byte) /\ Len(owed) <= 1 + Chunk
    /\ miso \in BOOLEAN
    /\ mem \in [Cells -> [Slots -> Byte]]
    /\ slipped \in {"no", "now", "before"}
    /\ faults \in 0..MaxFaults /\ tried \in Nat /\ calm \in -1..Enough

\* Until a fault takes them out of step, the two ends agree on where in the
\* command they are: the board is out of its reset, has heard exactly the bits
\* that were clocked, and owes exactly what the command is still going to ask for.
Clocked == (Width - 1 - x) + (IF clocked THEN 1 ELSE 0)
BytesHeard == IF Clocked = Width THEN pos + 1 ELSE pos
InStep ==
    /\ up /\ kind # "usb" => Awake
    /\ up /\ slipped = "no" =>
          /\ Len(heard) = Clocked % Width
          /\ IF NoCommand \/ BytesHeard >= Sends(op)
             THEN args = <<>>
             ELSE args = [n \in 1..BytesHeard |-> Sent(n - 1)]
          /\ Len(owed) = IF NoCommand \/ BytesHeard < Sends(op) THEN 0
                         ELSE Sends(op) + Answers(op) - BytesHeard

\* What Session relies on: from a connection whose reset went through until a
\* clock or a transfer is lost, a command that returns true has been done and
\* one that returns false has stored nothing but its own bytes.
Promise == INSTANCE Commands WITH trust <- (up /\ slipped = "no")
Promised == Promise!Spec

\* A command fails only when something was lost: every kind of link gets the bits
\* of both ends across as they are.
Works ==
    [][op # "none" /\ op' = "none" /\ up' /\ slipped' = "no" /\ calm' # -1 =>
         told' = "ok"]_vars

\* The status byte catches the USB transfer that is lost in a command (whose
\* result is dropped by readbyte and the others): the command fails, unless a
\* byte of the memory looks like the status, or one that is written like a code,
\* which a board that lost the code before it takes for a command of its own.
Telling ==
    /\ \A c \in Cells, s \in Slots : mem[c][s] # Ack
    /\ \A s \in Slots : data[s] \notin Codes
SlipNoticed ==
    [][slipped' = "now" /\ op # "none" /\ op' = "none" /\ kind = "usb" /\ Telling =>
         told' # "ok"]_vars

\* Over USB the ends come back into step by themselves when reads are tried
\* again, however they lost each other.
Cured ==
    kind = "usb" /\ up /\ Awake /\ NoCommand /\ calm = Enough =>
        args = <<>> /\ owed = <<>>

============================================================================
