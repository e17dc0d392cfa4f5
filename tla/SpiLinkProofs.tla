--------------------------- MODULE SpiLinkProofs ---------------------------
(***************************************************************************)
(* SpiLink for every width of a byte, length of a chunk, set of codes and  *)
(* number of faults: its types, and that the two ends stay in step.        *)
(***************************************************************************)
EXTENDS SpiLink, SequenceTheorems, TLAPS

----------------------------------------------------------------------------
(* Constants, and the bytes of a command. *)

LEMMA NumbersTyped ==
    /\ Width \in Nat /\ Width > 0 /\ Chunk \in Nat /\ Chunk > 0
    /\ MaxFaults \in Nat /\ Enough \in Nat
    /\ Bits = 0..(Width - 1) /\ Slots = 0..(Chunk - 1)
BY LinkAssumption DEF Bits, Slots

LEMMA BytesTyped ==
    /\ Ack \in Byte /\ Quiet \in Byte /\ Ack # Quiet
    /\ Zeros \in Byte /\ Ones \in Byte /\ Zeros \notin Codes
    /\ Blank \in [Slots -> Byte]
    /\ \A o \in Ops : Code[o] \in Byte /\ Code[o] \in Codes
<1>1. Zeros \in Byte /\ Ones \in Byte
  BY DEF Zeros, Ones, Byte
<1> QED
  BY <1>1, LinkAssumption, CodesNotZero DEF Blank, Codes

LEMMA CountsTyped ==
    ASSUME NEW o
    PROVE  /\ Count(o) \in 1..Chunk
           /\ Sends(o) \in 3..(3 + Chunk)
           /\ Answers(o) \in 1..(1 + Chunk)
           /\ o \in Writes => Sends(o) = 3 + Count(o) /\ Answers(o) = 1
           /\ o \notin Writes => Sends(o) = 3 /\ Answers(o) = 1 + Count(o)
BY NumbersTyped DEF Count, Sends, Answers

\* The board finds the command of a code.
LEMMA CodeFound ==
    ASSUME NEW o \in Ops
    PROVE  OpOf(Code[o]) = o
BY LinkAssumption DEF OpOf

LEMMA CodesAreOps ==
    ASSUME NEW c \in Codes
    PROVE  OpOf(c) \in Ops /\ Code[OpOf(c)] = c
BY CodeFound DEF Codes

\* The bytes of an address: two, none of them a code.
LEMMA AddressBytes ==
    ASSUME NEW a \in Addrs
    PROVE  /\ a = <<a[1], a[2]>>
           /\ a[1] \in Byte \ Codes /\ a[2] \in Byte \ Codes
           /\ Where[a] \in Cells
<1>1. a \in (Byte \ Codes) \X (Byte \ Codes)
  BY LinkAssumption
<1>2. a \in Byte \X Byte
  BY <1>1
<1> QED
  BY <1>1, <1>2, LinkAssumption

LEMMA SentTyped ==
    ASSUME op \in Ops, addr \in Addrs, data \in [Slots -> Byte],
           NEW n \in Nat, n < Sends(op)
    PROVE  Sent(n) \in Byte
<1>1. CASE n = 0
  BY <1>1, BytesTyped DEF Sent
<1>2. CASE n \in {1, 2}
  BY <1>2, AddressBytes DEF Sent
<1>3. CASE n >= 3
  BY <1>3, CountsTyped, NumbersTyped DEF Sent
<1> QED
  BY <1>1, <1>2, <1>3

LEMMA OutgoingTyped ==
    ASSUME TypeOK, ~NoCommand
    PROVE  Outgoing \in Byte
BY SentTyped, BytesTyped DEF TypeOK, NoCommand, Outgoing, Sending

----------------------------------------------------------------------------
(* The pins: setpin of one output is seen on that pin of the board only,   *)
(* and what getpin makes of the input, negated, is MISO.                   *)

LEMMA PinsSet ==
    ASSUME NEW k \in Kinds, NEW p \in [Outputs(k) -> BOOLEAN],
           NEW pin \in PinNames, NEW v \in BOOLEAN
    PROVE  /\ SetPin(k, p, pin, v) \in [Outputs(k) -> BOOLEAN]
           /\ Level(k, SetPin(k, p, pin, v), pin) = v
           /\ \A other \in PinNames \ {pin} :
                 Level(k, SetPin(k, p, pin, v), other) = Level(k, p, other)
<1>1. CASE k = "posix"
  BY <1>1 DEF Outputs, SetPin, Level, Wired, Output, PosixOut, SerRegBits, SerialNumber, PinNames
<1>2. CASE k = "win32"
  BY <1>2 DEF Outputs, SetPin, Level, Wired, Output, Win32Out, SerialNumber, PinNames
<1>3. CASE k = "parallel"
  BY <1>3 DEF Outputs, SetPin, Level, Wired, Output, ParallelBit, PinNames
<1>4. CASE k = "usb"
  BY <1>4 DEF Outputs, SetPin, Level, Wired, Output, UsbBit, PinNames
<1> QED
  BY <1>1, <1>2, <1>3, <1>4 DEF Kinds

LEMMA LevelTyped ==
    ASSUME NEW k \in Kinds, NEW p \in [Outputs(k) -> BOOLEAN], NEW pin \in PinNames
    PROVE  Level(k, p, pin) \in BOOLEAN
BY DEF Outputs, Level, Wired, PinNames, Kinds

LEMMA MisoRead ==
    ASSUME NEW k \in Kinds, NEW m \in BOOLEAN
    PROVE  (~GetPin(k, InputBit(k, m))) = m
BY DEF GetPin, SerialGet, ParallelGet, UsbGet, InputBit, Input, WiredInput, PosixIn, Win32In,
       ParallelIn, UsbIn, SerRegBits, SerialMiso, SerialKinds, Kinds

----------------------------------------------------------------------------
(* The board, whatever it hears. *)

\* A code begins what the board has of a command, which is never all of it; it
\* has nothing of a command while it owes an answer.
BoardInv ==
    /\ owed # <<>> => args = <<>>
    /\ args # <<>> => args[1] \in Codes /\ Len(args) < Sends(OpOf(args[1]))

BoardTyped ==
    /\ args \in Seq(Byte) /\ Len(args) < 3 + Chunk
    /\ owed \in Seq(Byte) /\ Len(owed) <= 1 + Chunk
    /\ mem \in [Cells -> [Slots -> Byte]]

\* What the board makes of a byte when it owes nothing: the bytes it has by now,
\* the command, and the cell.
LEMMA HearKinds ==
    ASSUME BoardTyped, BoardInv, NEW b \in Byte, Hear(b)
    PROVE  \/ /\ owed # <<>> /\ args = <<>>
              /\ owed' = Tail(owed) /\ UNCHANGED <<args, mem>>
           \/ /\ owed = <<>> /\ args = <<>> /\ b \notin Codes
              /\ UNCHANGED <<args, owed, mem>>
           \/ /\ owed = <<>> /\ (args = <<>> => b \in Codes)
              /\ Len(args) < 2
              /\ args' = Append(args, b) /\ UNCHANGED <<owed, mem>>
           \/ \E o \in Ops, cell \in Cells :
              /\ owed = <<>> /\ Len(args) \in 2..(Sends(o) - 1)
              /\ args # <<>> /\ o = OpOf(args[1])
              /\ cell = Where[<<args[2], Append(args, b)[3]>>]
              /\ mem' = IF Len(args) >= 3
                        THEN [mem EXCEPT ![cell] = [@ EXCEPT ![Len(args) - 3] = b]] ELSE mem
              /\ IF Len(args) + 1 < Sends(o)
                 THEN args' = Append(args, b) /\ UNCHANGED owed
                 ELSE /\ args' = <<>>
                      /\ owed' = [n \in 1..Answers(o) |->
                                    IF n = Answers(o) THEN Ack ELSE mem[cell][n - 1]]
<1>1. CASE owed # <<>>
  BY <1>1 DEF Hear, BoardInv
<1>2. CASE owed = <<>> /\ args = <<>> /\ b \notin Codes
  BY <1>2 DEF Hear
<1>3. CASE owed = <<>> /\ ~(args = <<>> /\ b \notin Codes)
  <2> DEFINE a == Append(args, b)
             o == OpOf(a[1])
             cell == Where[<<a[2], a[3]>>]
  <2>1. /\ a \in Seq(Byte) /\ Len(a) = Len(args) + 1 /\ Len(args) \in Nat
        /\ \A n \in 1..Len(args) : a[n] = args[n]
        /\ a[Len(a)] = b
    BY DEF BoardTyped
  <2>2. IF Len(a) < 3
        THEN args' = a /\ UNCHANGED <<owed, mem>>
        ELSE /\ mem' = IF Len(a) - 4 >= 0
                       THEN [mem EXCEPT ![cell][Len(a) - 4] = b] ELSE mem
             /\ IF Len(a) < Sends(o)
                THEN args' = a /\ UNCHANGED owed
                ELSE /\ args' = <<>>
                     /\ owed' = [n \in 1..Answers(o) |->
                                   IF n = Answers(o) THEN Ack ELSE mem[cell][n - 1]]
    BY <1>3 DEF Hear
  <2>3. CASE Len(args) < 2
    BY <1>3, <2>1, <2>2, <2>3
  <2>4. CASE Len(args) >= 2
    <3>1. args # <<>> /\ a[1] = args[1] /\ a[2] = args[2]
      BY <2>1, <2>4 DEF BoardTyped
    <3>2. o \in Ops /\ Len(args) \in 2..(Sends(o) - 1) /\ o = OpOf(args[1])
      BY <2>1, <2>4, <3>1, CodesAreOps, CountsTyped DEF BoardInv
    <3>3. a[2] \in Byte /\ a[3] \in Byte
      BY <2>1, <2>4
    <3>4. cell \in Cells /\ cell = Where[<<args[2], Append(args, b)[3]>>]
      BY <3>1, <3>3, LinkAssumption
    <3>5. mem' = IF Len(args) >= 3
                 THEN [mem EXCEPT ![cell] = [@ EXCEPT ![Len(args) - 3] = b]] ELSE mem
      <4> HIDE DEF cell
      <4>1. CASE Len(args) >= 3
        <5>1. mem' = [mem EXCEPT ![cell][Len(a) - 4] = b] /\ Len(a) - 4 = Len(args) - 3
          BY <2>1, <2>2, <2>4, <4>1
        <5> QED
          BY <4>1, <5>1
      <4>2. CASE ~(Len(args) >= 3)
        BY <2>1, <2>2, <2>4, <4>2
      <4> QED
        BY <4>1, <4>2
    <3>6. IF Len(args) + 1 < Sends(o)
          THEN args' = Append(args, b) /\ UNCHANGED owed
          ELSE /\ args' = <<>>
               /\ owed' = [n \in 1..Answers(o) |->
                             IF n = Answers(o) THEN Ack ELSE mem[cell][n - 1]]
      <4> HIDE DEF cell, o
      <4> QED
        BY <2>1, <2>2, <2>4
    <3> HIDE DEF o, cell
    <3> QED
      BY <1>3, <3>1, <3>2, <3>4, <3>5, <3>6
  <2>5. Len(args) < 2 \/ Len(args) >= 2
    BY <2>1
  <2> QED
    BY Zenon, <2>3, <2>4, <2>5
<1> QED
  BY Zenon, <1>1, <1>2, <1>3

LEMMA HearTyped ==
    ASSUME BoardTyped, BoardInv, NEW b \in Byte, Hear(b)
    PROVE  BoardTyped' /\ BoardInv'
<1>1. CASE /\ owed # <<>> /\ args = <<>>
           /\ owed' = Tail(owed) /\ UNCHANGED <<args, mem>>
  <2>1. owed' \in Seq(Byte) /\ Len(owed') = Len(owed) - 1
    BY <1>1, HeadTailProperties DEF BoardTyped
  <2>2. Len(owed) \in Nat /\ args' = <<>> /\ mem' = mem
    BY <1>1, LenProperties DEF BoardTyped
  <2> QED
    BY <1>1, <2>1, <2>2, NumbersTyped DEF BoardTyped, BoardInv
<1>2. CASE UNCHANGED <<args, owed, mem>>
  BY <1>2 DEF BoardTyped, BoardInv
<1>3. CASE /\ owed = <<>> /\ (args = <<>> => b \in Codes)
           /\ Len(args) < 2
           /\ args' = Append(args, b) /\ UNCHANGED <<owed, mem>>
  <2>1. /\ args' \in Seq(Byte) /\ Len(args') = Len(args) + 1 /\ Len(args) \in Nat
        /\ args'[1] = IF args = <<>> THEN b ELSE args[1]
    BY <1>3, AppendProperties DEF BoardTyped
  <2>2. args'[1] \in Codes
    BY <1>3, <2>1 DEF BoardInv
  <2> QED
    BY <1>3, <2>1, <2>2, CountsTyped, NumbersTyped DEF BoardTyped, BoardInv
<1>4. ASSUME NEW o \in Ops, NEW cell \in Cells,
             owed = <<>>, Len(args) \in 2..(Sends(o) - 1),
             args # <<>>, o = OpOf(args[1]),
             mem' = IF Len(args) >= 3
                    THEN [mem EXCEPT ![cell] = [@ EXCEPT ![Len(args) - 3] = b]] ELSE mem,
             IF Len(args) + 1 < Sends(o)
             THEN args' = Append(args, b) /\ UNCHANGED owed
             ELSE /\ args' = <<>>
                  /\ owed' = [n \in 1..Answers(o) |->
                                IF n = Answers(o) THEN Ack ELSE mem[cell][n - 1]]
      PROVE  BoardTyped' /\ BoardInv'
  <2>1. mem' \in [Cells -> [Slots -> Byte]]
    BY <1>4 DEF BoardTyped
  <2>2. CASE Len(args) + 1 < Sends(o)
    <3>0. args' = Append(args, b) /\ owed' = owed /\ Len(args) >= 2 /\ Len(args) \in Nat
      BY <1>4, <2>2 DEF BoardTyped
    <3>1. /\ args' \in Seq(Byte) /\ Len(args') = Len(args) + 1 /\ args'[1] = args[1]
          /\ args # <<>> /\ owed' = <<>>
      BY <1>4, <3>0, AppendProperties DEF BoardTyped
    <3> QED
      BY <1>4, <2>1, <2>2, <3>1, CountsTyped, NumbersTyped DEF BoardTyped, BoardInv
  <2>3. CASE ~(Len(args) + 1 < Sends(o))
    <3>1. \A n \in 1..Answers(o) : n # Answers(o) => n - 1 \in Slots
      BY CountsTyped, NumbersTyped
    <3>2. mem[cell] \in [Slots -> Byte]
      BY DEF BoardTyped
    <3>3. owed' \in [1..Answers(o) -> Byte]
      BY <1>4, <2>3, <3>1, <3>2, BytesTyped
    <3>4. owed' \in Seq(Byte) /\ Len(owed') = Answers(o)
      BY <3>3, CountsTyped
    <3> QED
      BY <1>4, <2>1, <2>3, <3>4, CountsTyped, NumbersTyped DEF BoardTyped, BoardInv
  <2> QED
    BY <2>2, <2>3
<1> QED
  BY <1>1, <1>2, <1>3, <1>4, HearKinds


\* A byte of the board is complete, or it has one more bit.
LEMMA ClockTyped ==
    ASSUME TypeOK, BoardInv, NEW mosi \in BOOLEAN, Clock(mosi)
    PROVE  /\ miso' \in BOOLEAN
           /\ heard' \in Seq(BOOLEAN) /\ Len(heard') < Width
           /\ BoardTyped' /\ BoardInv'
<1>1. /\ heard \in Seq(BOOLEAN) /\ Len(heard) \in Nat /\ Len(heard) < Width
      /\ owed \in Seq(Byte)
      /\ BoardTyped
  BY LenProperties DEF TypeOK, BoardTyped
<1>2. miso' \in BOOLEAN
  <2>1. Answer \in Byte
    BY <1>1, BytesTyped, HeadTailProperties DEF Answer
  <2>2. Width - 1 - Len(heard) \in Bits
    BY <1>1, NumbersTyped
  <2> QED
    BY <2>1, <2>2 DEF Clock, Byte
<1>3. CASE Len(heard) + 1 < Width
  <2>1. heard' = Append(heard, mosi) /\ UNCHANGED <<args, owed, mem>>
    BY <1>3 DEF Clock
  <2>2. heard' \in Seq(BOOLEAN) /\ Len(heard') = Len(heard) + 1
    BY <1>1, <2>1, AppendProperties
  <2> QED
    BY <1>1, <1>2, <1>3, <2>1, <2>2 DEF BoardTyped, BoardInv
<1>4. CASE ~(Len(heard) + 1 < Width)
  <2> DEFINE all == Append(heard, mosi)
             byte == [b \in Bits |-> all[Width - b]]
  <2>1. heard' = <<>> /\ Hear(byte)
    BY <1>4 DEF Clock
  <2>2. \A n \in 1..Width : all[n] \in BOOLEAN
    BY <1>1, <1>4, NumbersTyped
  <2>3. byte \in Byte
    <3>1. \A b \in Bits : Width - b \in 1..Width
      BY NumbersTyped
    <3> HIDE DEF all
    <3> QED
      BY <2>2, <3>1 DEF Byte
  <2>4. BoardTyped' /\ BoardInv'
    <3> HIDE DEF byte
    <3> QED
      BY <1>1, <2>1, <2>3, HearTyped
  <2> QED
    BY <1>2, <2>1, <2>4, NumbersTyped
<1> QED
  BY <1>3, <1>4

----------------------------------------------------------------------------
(* Types.  The loops' indices are back where they begin between commands,  *)
(* and do not move over USB; without the adaptor nothing is in step.       *)

LoopInv ==
    /\ NoCommand => pos = 0 /\ x = Width - 1 /\ ~clocked
    /\ kind = "usb" => x = Width - 1 /\ ~clocked
    /\ pulled => slipped # "no" /\ kind \in SerialKinds

TypeInv == TypeOK /\ BoardInv /\ LoopInv

\* What NextByte and Return change.
CommandTyped ==
    /\ op \in Ops \cup {"none"} /\ addr \in Addrs
    /\ data \in [Slots -> Byte]
    /\ told \in {"none", "ok", "failed"}
    /\ ~NoCommand => pos \in 0..(Sends(op) + Answers(op) - 1)
    /\ NoCommand => pos = 0

LEMMA KindTyped ==
    ASSUME TypeOK
    PROVE  kind \in Kinds
BY LinkAssumption DEF TypeOK

LEMMA ReturnTyped ==
    ASSUME TypeOK, NEW result \in {"ok", "failed"}, Return(result)
    PROVE  CommandTyped'
BY BytesTyped DEF TypeOK, Return, CommandTyped, NoCommand

LEMMA CalmTyped ==
    ASSUME TypeOK, CalmAfter
    PROVE  calm' \in -1..Enough
BY NumbersTyped DEF TypeOK, CalmAfter

LEMMA NextByteTyped ==
    ASSUME TypeOK, ~NoCommand, NextByte
    PROVE  CommandTyped' /\ calm' \in -1..Enough
<1>1. CASE ~Sending /\ AtStatus
  <2>1. Return(IF ret' = Ack THEN "ok" ELSE "failed") /\ CalmAfter
    BY <1>1 DEF NextByte
  <2> QED
    BY <2>1, ReturnTyped, CalmTyped
<1>2. CASE ~(~Sending /\ AtStatus)
  <2>1. pos' = pos + 1 /\ UNCHANGED <<args4, told, calm>>
    BY <1>2 DEF NextByte
  <2>2. pos' \in 0..(Sends(op) + Answers(op) - 1)
    <3>1. Sends(op) \in Nat /\ Answers(op) \in Nat /\ Answers(op) >= 1
      BY CountsTyped, NumbersTyped
    <3>2. pos \in 0..(Sends(op) + Answers(op) - 1)
      BY DEF TypeOK
    <3> QED
      BY <1>2, <2>1, <3>1, <3>2 DEF Sending, AtStatus
  <2>3. op' = op /\ addr' = addr /\ data' = data /\ told' = told /\ calm' = calm
    BY <2>1 DEF args4
  <2>4. CommandTyped'
    BY <2>2, <2>3 DEF TypeOK, CommandTyped, NoCommand
  <2> QED
    BY <2>3, <2>4 DEF TypeOK
<1> QED
  BY <1>1, <1>2

LEMMA ShiftedTyped ==
    ASSUME NEW c \in Byte, NEW bit \in BOOLEAN
    PROVE  Shifted(c, bit) \in Byte
<1>1. \A b \in Bits : b # 0 => b - 1 \in Bits
  BY NumbersTyped
<1> QED
  BY <1>1 DEF Shifted, Byte

\* An answer is shifted into the caller's bytes or the status.
LEMMA StoreTyped ==
    ASSUME TypeOK, NEW bit \in BOOLEAN, Store(bit)
    PROVE  got' \in [Slots -> Byte] /\ ret' \in Byte
<1>1. CASE Sending
  BY <1>1 DEF Store, TypeOK
<1>2. CASE ~Sending /\ AtStatus
  BY <1>2, ShiftedTyped DEF Store, TypeOK
<1>3. CASE ~Sending /\ ~AtStatus
  <2> DEFINE s == pos - Sends(op)
  <2>1. got' = [got EXCEPT ![s] = Shifted(got[s], bit)] /\ ret' = ret
    BY <1>3 DEF Store
  <2>2. s \in Slots => Shifted(got[s], bit) \in Byte
    BY ShiftedTyped DEF TypeOK
  <2> HIDE DEF s
  <2> QED
    BY <2>1, <2>2 DEF TypeOK
<1> QED
  BY <1>1, <1>2, <1>3


LEMMA TypesInit == Init => TypeInv
<1> SUFFICES ASSUME Init PROVE TypeInv
  OBVIOUS
<1>1. kind \in Kinds /\ kind \in Kind
  BY LinkAssumption DEF Init
<1>2. port \in [Outputs(kind) -> BOOLEAN]
  BY DEF Init, Opened, AnyLevel
<1>3. mem \in [Cells -> [Slots -> Byte]]
  BY <1>1, LinkAssumption DEF Init
<1>4. heard \in Seq(BOOLEAN) /\ args \in Seq(Byte) /\ owed \in Seq(Byte)
  BY DEF Init
<1>5. /\ pos = 0 /\ x = Width - 1 /\ x \in Bits /\ Len(heard) < Width
      /\ Len(args) < 3 + Chunk /\ Len(owed) <= 1 + Chunk
      /\ faults \in 0..MaxFaults /\ tried \in Nat /\ calm \in -1..Enough
  BY NumbersTyped DEF Init
<1>6. addr \in Addrs /\ data \in [Slots -> Byte] /\ got \in [Slots -> Byte] /\ ret \in Byte
  BY BytesTyped DEF Init
<1>7. TypeOK
  BY <1>1, <1>2, <1>3, <1>4, <1>5, <1>6 DEF Init, TypeOK, NoCommand
<1>8. BoardInv /\ LoopInv
  BY <1>5 DEF Init, BoardInv, LoopInv
<1> QED
  BY <1>7, <1>8 DEF TypeInv

LEMMA PulseTyped ==
    ASSUME TypeInv, NEW opened \in Opened(kind), NEW lowered \in BOOLEAN, NEW raised \in BOOLEAN,
           PulseReset(opened, lowered, raised)
    PROVE  /\ port' \in [Outputs(kind) -> BOOLEAN]
           /\ heard' \in Seq(BOOLEAN) /\ Len(heard') < Width
           /\ BoardTyped' /\ BoardInv'
           /\ slipped' \in {"no", "before"}
<1> DEFINE low  == IF lowered THEN SetPin(kind, opened, "RESET", FALSE) ELSE opened
           high == IF raised THEN SetPin(kind, low, "RESET", TRUE) ELSE low
<1>1. opened \in [Outputs(kind) -> BOOLEAN]
  BY DEF Opened, AnyLevel
<1>2. low \in [Outputs(kind) -> BOOLEAN]
  BY <1>1, PinsSet, KindTyped DEF TypeInv, PinNames
<1>3. high \in [Outputs(kind) -> BOOLEAN]
  <2> HIDE DEF low
  <2> QED
    BY <1>2, PinsSet, KindTyped DEF TypeInv, PinNames
<1>4. /\ port' = high
      /\ \/ heard' = <<>> /\ args' = <<>> /\ owed' = <<>>
         \/ UNCHANGED <<heard, args, owed>>
      /\ slipped' \in {"no", "before"} /\ mem' = mem
  BY DEF PulseReset
<1> HIDE DEF low, high
<1>5. heard' \in Seq(BOOLEAN) /\ Len(heard') < Width
  <2>1. CASE heard' = <<>>
    BY <2>1, NumbersTyped
  <2>2. CASE heard' = heard
    BY <2>2 DEF TypeInv, TypeOK
  <2> QED
    BY <1>4, <2>1, <2>2
<1>6. BoardTyped' /\ BoardInv'
  BY <1>4, NumbersTyped DEF TypeInv, TypeOK, BoardTyped, BoardInv
<1> QED
  BY <1>3, <1>4, <1>5, <1>6

LEMMA ConnectTyped == TypeInv /\ Connect => TypeInv'
<1> SUFFICES ASSUME TypeInv, Connect PROVE TypeInv'
  OBVIOUS
<1>1. PICK opened \in Opened(kind), lowered \in BOOLEAN, raised \in BOOLEAN :
        PulseReset(opened, lowered, raised)
  BY DEF Connect
<1>2. /\ port' \in [Outputs(kind) -> BOOLEAN]
      /\ heard' \in Seq(BOOLEAN) /\ Len(heard') < Width
      /\ BoardTyped' /\ BoardInv'
      /\ slipped' \in {"no", "before"}
      /\ miso' = miso
  BY <1>1, PulseTyped DEF PulseReset
<1>3. /\ NoCommand /\ up' = TRUE /\ pulled' = FALSE
      /\ faults' = 0 /\ tried' = 0 /\ calm' = 0 /\ told' = "none"
      /\ UNCHANGED <<kind, op, addr, data, got, ret, pos, x, clocked>>
  BY DEF Connect
<1>4. faults' \in 0..MaxFaults /\ tried' \in Nat /\ calm' \in -1..Enough
  BY <1>3, NumbersTyped
<1>5. TypeOK'
  BY <1>2, <1>3, <1>4 DEF TypeInv, TypeOK, BoardTyped, NoCommand
<1>6. LoopInv'
  BY <1>3 DEF TypeInv, LoopInv, NoCommand
<1> QED
  BY <1>2, <1>5, <1>6 DEF TypeInv

LEMMA CallTyped ==
    ASSUME TypeInv, NEW o \in Ops, NEW a \in Addrs, NEW d \in [Slots -> Byte], Call(o, a, d)
    PROVE  TypeInv'
<1>1. /\ up /\ NoCommand /\ op' = o /\ addr' = a /\ data' = d
      /\ got' = Blank /\ ret' = Ones /\ pos' = 0 /\ told' = "none"
      /\ tried' \in {tried, tried + 1} /\ slipped' \in {"before", slipped}
      /\ calm' \in {0, calm}
      /\ UNCHANGED <<kind, up, port, pulled, x, clocked, board, faults>>
  BY DEF Call
<1>2. slipped' # slipped => slipped' = "before"
  BY <1>1
<1>3. 0 \in 0..(Sends(o) + Answers(o) - 1)
  BY CountsTyped, NumbersTyped
<1>4. tried' \in Nat /\ calm' \in -1..Enough
  BY <1>1, NumbersTyped DEF TypeInv, TypeOK
<1>5. op' # "none" /\ got' \in [Slots -> Byte] /\ ret' \in Byte
  BY <1>1, BytesTyped DEF Ops
<1>6. TypeOK'
  BY <1>1, <1>3, <1>4, <1>5 DEF TypeInv, TypeOK, NoCommand, board
<1>7. BoardInv' /\ LoopInv'
  BY <1>1, <1>2, <1>5 DEF TypeInv, BoardInv, LoopInv, NoCommand, board
<1> QED
  BY <1>6, <1>7 DEF TypeInv

\* The data that commands are given.
LEMMA DataTyped ==
    ASSUME TypeOK, NEW o \in Ops,
           NEW d \in IF o \in Writes THEN Blanks(o) ELSE {Blank}
    PROVE  d \in [Slots -> Byte]
<1>1. Payload[kind] \subseteq Byte
  BY LinkAssumption DEF TypeOK
<1> QED
  BY <1>1, BytesTyped DEF Blanks


LEMMA DisconnectTyped == TypeInv /\ Disconnect => TypeInv'
<1> SUFFICES ASSUME TypeInv, Disconnect PROVE TypeInv'
  OBVIOUS
<1>1. /\ op = "none" /\ told' = "none" /\ up' = FALSE
      /\ UNCHANGED <<kind, port, pulled, op, addr, data, got, ret, pos, x, clocked>>
      /\ UNCHANGED <<heard, args, owed, miso, mem>>
      /\ UNCHANGED <<slipped, faults, tried, calm>>
  BY DEF Disconnect, NoCommand, board, history
<1> QED
  BY <1>1 DEF TypeInv, TypeOK, BoardInv, LoopInv, NoCommand

LEMMA PullTyped == TypeInv /\ Pull => TypeInv'
<1> SUFFICES ASSUME TypeInv, Pull PROVE TypeInv'
  OBVIOUS
<1>1. /\ kind \in SerialKinds /\ pulled' = TRUE
      /\ slipped' \in {"now", "before"}
      /\ UNCHANGED <<kind, up, port, op, addr, data, got, ret, pos, x, clocked, told, tried>>
      /\ UNCHANGED <<heard, args, owed, miso, mem>>
  BY DEF Pull, Slip, board, TypeInv, TypeOK
<1>2. faults' \in 0..MaxFaults /\ calm' \in -1..Enough
  BY NumbersTyped DEF Pull, TypeInv, TypeOK
<1>3. TypeOK'
  BY <1>1, <1>2 DEF TypeInv, TypeOK, NoCommand
<1> QED
  BY <1>1, <1>3 DEF TypeInv, BoardInv, LoopInv, NoCommand

\* What a clock or a transfer leaves of the history.
HistoryTyped ==
    /\ slipped \in {"no", "now", "before"}
    /\ faults \in 0..MaxFaults /\ tried \in Nat

LEMMA ClockHighTyped ==
    ASSUME TypeInv, NEW missed \in BOOLEAN, ClockHigh(missed)
    PROVE  TypeInv'
<1> DEFINE mosi == SetPin(kind, port, "MOSI", Outgoing[x])
<1>1. /\ ~NoCommand /\ kind # "usb" /\ ~clocked /\ clocked' = TRUE
      /\ UNCHANGED <<kind, up, pulled, pos, x, told, tried>>
      /\ UNCHANGED <<op, addr, data>>
  BY DEF ClockHigh, OnPins, args4
<1>2. mosi \in [Outputs(kind) -> BOOLEAN]
  <2>1. Outgoing[x] \in BOOLEAN
    BY <1>1, OutgoingTyped DEF TypeInv, TypeOK, Byte
  <2> QED
    BY <2>1, PinsSet, KindTyped DEF TypeInv, TypeOK, PinNames
<1>3. port' \in [Outputs(kind) -> BOOLEAN]
  <2>1. port' = SetPin(kind, mosi, "CLK", TRUE)
    BY DEF ClockHigh
  <2> HIDE DEF mosi
  <2> QED
    BY <1>2, <2>1, PinsSet, KindTyped DEF TypeInv, PinNames
<1>4. /\ miso' \in BOOLEAN
      /\ heard' \in Seq(BOOLEAN) /\ Len(heard') < Width
      /\ BoardTyped' /\ BoardInv'
  <2>1. Level(kind, mosi, "MOSI") \in BOOLEAN
    BY <1>2, LevelTyped, KindTyped DEF TypeInv, PinNames
  <2>2. Clock(Level(kind, mosi, "MOSI")) \/ UNCHANGED board
    BY DEF ClockHigh
  <2> HIDE DEF mosi
  <2>3. CASE Clock(Level(kind, mosi, "MOSI"))
    BY <2>1, <2>3, ClockTyped DEF TypeInv
  <2>4. CASE UNCHANGED board
    BY <2>4 DEF board, TypeInv, TypeOK, BoardTyped, BoardInv
  <2> QED
    BY <2>2, <2>3, <2>4
<1>5. got' \in [Slots -> Byte] /\ ret' \in Byte
  <2>1. CASE pulled
    BY <2>1, BytesTyped DEF ClockHigh, StoreGarbage, TypeInv, TypeOK
  <2>2. CASE ~pulled
    <3>1. Store(~GetPin(kind, InputBit(kind, miso')))
      BY <2>2 DEF ClockHigh
    <3>2. (~GetPin(kind, InputBit(kind, miso'))) = miso'
      BY <1>4, MisoRead, KindTyped DEF TypeInv
    <3> QED
      BY <1>4, <3>1, <3>2, StoreTyped DEF TypeInv
  <2> QED
    BY <2>1, <2>2
<1>6. HistoryTyped' /\ calm' \in -1..Enough /\ slipped' \in {slipped, "now"}
  <2>1. CASE missed
    BY <1>1, <2>1, NumbersTyped DEF ClockHigh, Slip, HistoryTyped, TypeInv, TypeOK
  <2>2. CASE ~missed
    BY <1>1, <2>2, NumbersTyped DEF ClockHigh, HistoryTyped, TypeInv, TypeOK
  <2> QED
    BY <2>1, <2>2
<1> HIDE DEF mosi
<1>7. TypeOK'
  BY <1>1, <1>3, <1>4, <1>5, <1>6 DEF TypeInv, TypeOK, HistoryTyped, BoardTyped, NoCommand
<1>8. LoopInv'
  BY <1>1, <1>6 DEF TypeInv, LoopInv, NoCommand
<1> QED
  BY <1>4, <1>7, <1>8 DEF TypeInv

LEMMA ClockLowTyped == TypeInv /\ ClockLow => TypeInv'
<1> SUFFICES ASSUME TypeInv, ClockLow PROVE TypeInv'
  OBVIOUS
<1>1. /\ ~NoCommand /\ kind # "usb" /\ clocked /\ clocked' = FALSE
      /\ port' = SetPin(kind, port, "CLK", FALSE)
      /\ UNCHANGED <<got, ret, kind, up, pulled, slipped, faults, tried>>
      /\ UNCHANGED <<heard, args, owed, miso, mem>>
  BY DEF ClockLow, OnPins, board
<1>2. port' \in [Outputs(kind) -> BOOLEAN]
  BY <1>1, PinsSet, KindTyped DEF TypeInv, TypeOK, PinNames
<1>3. /\ CommandTyped' /\ calm' \in -1..Enough /\ x' \in Bits
      /\ NoCommand' => x' = Width - 1
  <2>1. CASE x > 0
    <3>1. x' = x - 1 /\ UNCHANGED <<op, addr, data>> /\ UNCHANGED <<pos, told, calm>>
      BY <2>1 DEF ClockLow, args4
    <3>2. x' \in Bits
      BY <2>1, <3>1, NumbersTyped DEF TypeInv, TypeOK
    <3>3. op' = op /\ addr' = addr /\ data' = data /\ pos' = pos /\ told' = told /\ calm' = calm
      BY <3>1
    <3>4. CommandTyped'
      BY <1>1, <3>3 DEF TypeInv, TypeOK, CommandTyped, NoCommand
    <3> QED
      BY <1>1, <3>2, <3>3, <3>4 DEF TypeInv, TypeOK, NoCommand
  <2>2. CASE ~(x > 0)
    <3>1. x' = Width - 1 /\ NextByte
      BY <2>2 DEF ClockLow
    <3> QED
      BY <1>1, <3>1, NextByteTyped, NumbersTyped DEF TypeInv
  <2> QED
    BY <2>1, <2>2
<1>4. TypeOK'
  BY <1>1, <1>2, <1>3 DEF TypeInv, TypeOK, CommandTyped, NoCommand
<1>5. BoardInv' /\ LoopInv'
  BY <1>1, <1>3 DEF TypeInv, BoardInv, LoopInv, CommandTyped
<1> QED
  BY <1>4, <1>5 DEF TypeInv

LEMMA ExitTyped == TypeInv /\ Exit => TypeInv'
<1> SUFFICES ASSUME TypeInv, Exit PROVE TypeInv'
  OBVIOUS
<1>1. /\ up' = FALSE /\ op' = "none" /\ pos' = 0 /\ told' = "none"
      /\ x' = Width - 1 /\ clocked' = FALSE /\ data' = Blank
      /\ UNCHANGED <<kind, port, pulled, addr, got, ret>>
      /\ UNCHANGED <<heard, args, owed, miso, mem>>
      /\ UNCHANGED <<slipped, faults, tried, calm>>
  BY DEF Exit, board, history
<1>2. x' \in Bits /\ data' \in [Slots -> Byte]
  BY <1>1, NumbersTyped, BytesTyped
<1>3. TypeOK'
  BY <1>1, <1>2 DEF TypeInv, TypeOK, NoCommand
<1> QED
  BY <1>1, <1>3 DEF TypeInv, BoardInv, LoopInv, NoCommand

LEMMA TransferTyped ==
    ASSUME TypeInv, NEW outcome \in Outcomes, Transfer(outcome)
    PROVE  TypeInv'
<1>1. /\ ~NoCommand /\ kind = "usb"
      /\ UNCHANGED <<kind, up, port, pulled, x, clocked, tried>>
  BY DEF Transfer
<1>2. /\ heard' = heard /\ miso' = miso /\ BoardTyped' /\ BoardInv'
  <2>1. CASE Hear(Outgoing) /\ UNCHANGED <<heard, miso>>
    BY <1>1, <2>1, HearTyped, OutgoingTyped DEF TypeInv, TypeOK, BoardTyped
  <2>2. CASE UNCHANGED board
    BY <2>2 DEF board, TypeInv, TypeOK, BoardTyped, BoardInv
  <2> QED
    BY <2>1, <2>2 DEF Transfer
<1>3. got' \in [Slots -> Byte] /\ ret' \in Byte
  <2> DEFINE answer == IF Awake THEN Answer ELSE Quiet
  <2>1. answer \in Byte
    BY BytesTyped, HeadTailProperties DEF Answer, TypeInv, TypeOK
  <2>2. /\ \/ got' = [got EXCEPT ![pos - Sends(op)] = answer]
           \/ got' = got
        /\ ret' \in {answer, ret}
    BY DEF Transfer
  <2> HIDE DEF answer
  <2> QED
    BY <2>1, <2>2 DEF TypeInv, TypeOK
<1>4. HistoryTyped'
  BY <1>1, NumbersTyped DEF Transfer, Slip, HistoryTyped, TypeInv, TypeOK
<1>5. CommandTyped' /\ calm' \in -1..Enough
  <2>1. CASE GivesUp(outcome)
    BY <2>1, ReturnTyped, NumbersTyped DEF Transfer, TypeInv
  <2>2. CASE outcome = "done"
    BY <1>1, <2>2, NextByteTyped DEF Transfer, GivesUp, TypeInv
  <2>3. CASE ~GivesUp(outcome) /\ outcome # "done"
    <3>1. /\ pos' = pos + 1 /\ calm' = -1 /\ told' = told
          /\ UNCHANGED <<op, addr, data>>
      BY <2>3 DEF Transfer, args4
    <3>2. Sends(op) \in Nat /\ Answers(op) \in Nat /\ Answers(op) >= 1
      BY CountsTyped, NumbersTyped
    <3>3. pos' \in 0..(Sends(op) + Answers(op) - 1)
      BY <1>1, <2>3, <3>1, <3>2 DEF GivesUp, Sending, TypeInv, TypeOK
    <3> QED
      BY <1>1, <3>1, <3>3, NumbersTyped DEF TypeInv, TypeOK, CommandTyped, NoCommand
  <2> QED
    BY <2>1, <2>2, <2>3
<1>6. TypeOK'
  BY <1>1, <1>2, <1>3, <1>4, <1>5
     DEF TypeInv, TypeOK, BoardTyped, HistoryTyped, CommandTyped, NoCommand
<1>7. LoopInv'
  <2>1. pulled' => slipped' # "no"
    BY <1>1 DEF TypeInv, LoopInv, SerialKinds
  <2>2. NoCommand' => pos' = 0
    BY <1>5 DEF CommandTyped
  <2> QED
    BY <1>1, <2>1, <2>2 DEF TypeInv, LoopInv
<1> QED
  BY <1>2, <1>6, <1>7 DEF TypeInv

LEMMA TypesNext == TypeInv /\ [Next]_vars => TypeInv'
<1> SUFFICES ASSUME TypeInv, [Next]_vars PROVE TypeInv'
  OBVIOUS
<1>1. CASE Connect
  BY <1>1, ConnectTyped
<1>2. CASE Disconnect
  BY <1>2, DisconnectTyped
<1>3. CASE Pull
  BY <1>3, PullTyped
<1>4. ASSUME NEW o \in Ops, NEW a \in Addrs,
             NEW d \in IF o \in Writes THEN Blanks(o) ELSE {Blank}, Call(o, a, d)
      PROVE  TypeInv'
  BY <1>4, DataTyped, CallTyped DEF TypeInv
<1>5. ASSUME NEW missed \in BOOLEAN, ClockHigh(missed) PROVE TypeInv'
  BY <1>5, ClockHighTyped
<1>6. CASE ClockLow
  BY <1>6, ClockLowTyped
<1>7. CASE Exit
  BY <1>7, ExitTyped
<1>8. ASSUME NEW outcome \in Outcomes, Transfer(outcome) PROVE TypeInv'
  BY <1>8, TransferTyped
<1>9. CASE UNCHANGED vars
  BY <1>9 DEF vars, host, board, history, TypeInv, TypeOK, BoardInv, LoopInv, NoCommand
<1> QED
  BY <1>1, <1>2, <1>3, <1>4, <1>5, <1>6, <1>7, <1>8, <1>9 DEF Next, Running

LEMMA TypesAlways == Spec => []TypeInv
BY TypesInit, TypesNext, PTL DEF Spec

\* Every variable keeps its type, and the loops of the commands and of their
\* bits keep within their ranges, whatever is lost.
THEOREM LinkTypes == Spec => []TypeOK
<1>1. TypeInv => TypeOK
  BY DEF TypeInv
<1> QED
  BY <1>1, TypesAlways, PTL

============================================================================
