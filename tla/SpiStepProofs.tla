--------------------------- MODULE SpiStepProofs ---------------------------
(***************************************************************************)
(* SpiLink: until something is lost the two ends stay in step, so that     *)
(* every command does what Commands promises and succeeds.                 *)
(***************************************************************************)
EXTENDS SpiLinkProofs

----------------------------------------------------------------------------
(* What being in step takes. *)

Total == Sends(op) + Answers(op)

\* Byte p of an exchange, of those that the board answers.
Expected(p) == IF p = Total - 1 THEN Ack ELSE mem[Where[addr]][p - Sends(op)]

\* The board has the bits of the present byte that were clocked.
BitsHeard ==
    /\ Len(heard) = IF Clocked = Width THEN 0 ELSE Clocked
    /\ \A n \in 1..Len(heard) : heard[n] = Outgoing[Width - n]

\* The board has p bytes of the command, or owes what is left of the answer.
Parsed(p) ==
    /\ IF p < Sends(op)
       THEN Len(args) = p /\ \A n \in 1..p : args[n] = Sent(n - 1)
       ELSE args = <<>>
    /\ IF p < Sends(op)
       THEN owed = <<>>
       ELSE Len(owed) = Total - p /\ \A n \in 1..Len(owed) : owed[n] = Expected(p + n - 1)

\* What was written is in the memory, what was read is what the memory holds.
Stored(p) ==
    op \in Writes =>
       \A s \in Slots : s < Count(op) /\ 3 + s < p => mem[Where[addr]][s] = data[s]
Fetched ==
    op \notin Writes =>
       \A s \in Slots : s < Count(op) /\ Sends(op) + s < pos => got[s] = mem[Where[addr]][s]

\* The byte that is shifted in has the bits of the answer that were clocked.
Current == IF AtStatus THEN ret ELSE got[pos - Sends(op)]
Shifting ==
    ~Sending => \A b \in Bits : b < Clocked => Current[b] = Expected(pos)[Width - Clocked + b]

CommandInStep == Parsed(BytesHeard) /\ Stored(BytesHeard) /\ Fetched /\ Shifting
Together ==
    /\ Awake
    /\ kind # "usb" => Level(kind, port, "CLK") = clocked
    /\ BitsHeard
    /\ IF NoCommand THEN args = <<>> /\ owed = <<>> ELSE CommandInStep

StepInv ==
    /\ up /\ kind # "usb" => Awake
    /\ up /\ slipped = "no" => Together

----------------------------------------------------------------------------
(* The board hears a byte in step. *)

\* What byte p of a command does to the board.
Advance(p) ==
    /\ args' = IF p + 1 < Sends(op) THEN Append(args, Sent(p)) ELSE <<>>
    /\ IF p + 1 < Sends(op)
       THEN owed' = <<>>
       ELSE /\ owed' \in Seq(Byte) /\ Len(owed') = Total - (p + 1)
            /\ \A n \in 1..Len(owed') : owed'[n] = Expected(p + n)
    /\ mem' = IF p \in 3..(Sends(op) - 1)
              THEN [mem EXCEPT ![Where[addr]] = [@ EXCEPT ![p - 3] = data[p - 3]]]
              ELSE mem

LEMMA HearInStep ==
    ASSUME TypeInv, ~NoCommand, NEW p \in Nat, p < Total, Parsed(p),
           NEW b \in Byte, b = IF p < Sends(op) THEN Sent(p) ELSE Zeros, Hear(b)
    PROVE  Advance(p)
<1>1. /\ op \in Ops /\ addr \in Addrs /\ data \in [Slots -> Byte]
      /\ args \in Seq(Byte) /\ owed \in Seq(Byte) /\ mem \in [Cells -> [Slots -> Byte]]
      /\ Len(args) \in Nat /\ Len(owed) \in Nat
  BY LenProperties DEF TypeInv, TypeOK, NoCommand
<1>2. /\ Sends(op) \in Nat /\ Answers(op) \in Nat /\ Sends(op) >= 3 /\ Answers(op) >= 1
      /\ Total = Sends(op) + Answers(op)
  BY CountsTyped, NumbersTyped DEF Total
<1>3. BoardTyped /\ BoardInv
  BY DEF TypeInv, TypeOK, BoardTyped
<1>4. CASE /\ owed # <<>> /\ args = <<>>
           /\ owed' = Tail(owed) /\ UNCHANGED <<args, mem>>
  <2>1. p >= Sends(op)
    BY <1>2, <1>4 DEF Parsed
  <2>2. Len(owed) = Total - p /\ \A n \in 1..Len(owed) : owed[n] = Expected(p + n - 1)
    BY <1>2, <2>1 DEF Parsed
  <2>3. owed' \in Seq(Byte) /\ Len(owed') = Len(owed) - 1
        /\ \A n \in 1..Len(owed') : owed'[n] = owed[n + 1]
    BY <1>1, <1>4, HeadTailProperties
  <2>4. \A n \in 1..Len(owed') : owed'[n] = Expected(p + n)
    <3> TAKE n \in 1..Len(owed')
    <3>1. n + 1 \in 1..Len(owed) /\ p + (n + 1) - 1 = p + n
      BY <1>1, <2>3
    <3> QED
      BY <2>2, <2>3, <3>1
  <2>5. Len(owed') = Total - (p + 1)
    BY <1>2, <2>2, <2>3
  <2> QED
    BY <1>2, <1>4, <2>1, <2>3, <2>4, <2>5 DEF Advance
<1>5. CASE /\ owed = <<>> /\ args = <<>> /\ b \notin Codes
  <2>1. p < Sends(op)
    BY <1>2, <1>5 DEF Parsed
  <2>2. p = 0
    BY <1>5, <2>1 DEF Parsed
  <2>3. b = Code[op]
    BY <2>1, <2>2 DEF Sent
  <2> QED
    BY <1>1, <1>5, <2>3, BytesTyped
<1>6. CASE /\ owed = <<>> /\ Len(args) < 2
           /\ args' = Append(args, b) /\ UNCHANGED <<owed, mem>>
  <2>1. p < Sends(op)
    BY <1>2, <1>6 DEF Parsed
  <2>2. Len(args) = p /\ b = Sent(p) /\ p + 1 < Sends(op) /\ p \notin 3..(Sends(op) - 1)
    BY <1>2, <1>6, <2>1 DEF Parsed
  <2> QED
    BY <1>6, <2>2 DEF Advance
<1>7. ASSUME NEW o \in Ops, NEW cell \in Cells,
             owed = <<>>, Len(args) \in 2..(Sends(o) - 1),
             args # <<>>, o = OpOf(args[1]),
             cell = Where[<<args[2], Append(args, b)[3]>>],
             mem' = IF Len(args) >= 3
                    THEN [mem EXCEPT ![cell] = [@ EXCEPT ![Len(args) - 3] = b]] ELSE mem,
             IF Len(args) + 1 < Sends(o)
             THEN args' = Append(args, b) /\ UNCHANGED owed
             ELSE /\ args' = <<>>
                  /\ owed' = [n \in 1..Answers(o) |->
                                IF n = Answers(o) THEN Ack ELSE mem[cell][n - 1]]
      PROVE  Advance(p)
  <2>1. p < Sends(op)
    BY <1>2, <1>7 DEF Parsed
  <2>2. /\ Len(args) = p /\ p >= 2 /\ b = Sent(p)
        /\ \A n \in 1..p : args[n] = Sent(n - 1)
    BY <1>2, <1>7, <2>1 DEF Parsed
  <2>3. args[1] = Code[op] /\ args[2] = addr[1]
    <3>1. 1 \in 1..p /\ 2 \in 1..p
      BY <2>2
    <3>2. args[1] = Sent(1 - 1) /\ args[2] = Sent(2 - 1)
      BY <2>2, <3>1
    <3> QED
      BY <3>2 DEF Sent
  <2>4. o = op
    BY <1>1, <1>7, <2>3, CodeFound
  <2>5. Append(args, b)[3] = addr[2]
    <3>1. CASE p = 2
      <4>1. b = addr[2] /\ Len(args) + 1 = 3
        BY <2>2, <3>1 DEF Sent
      <4> QED
        BY <1>1, <4>1, AppendProperties
    <3>2. CASE p >= 3
      <4>1. 3 \in 1..p /\ args[3] = Sent(3 - 1)
        BY <2>2, <3>2
      <4> QED
        BY <1>1, <2>2, <4>1, AppendProperties DEF Sent
    <3> QED
      BY <2>2, <3>1, <3>2
  <2>6. cell = Where[addr]
    BY <1>1, <1>7, <2>3, <2>5, AddressBytes
  <2>7. mem' = IF p \in 3..(Sends(op) - 1)
               THEN [mem EXCEPT ![Where[addr]] = [@ EXCEPT ![p - 3] = data[p - 3]]]
               ELSE mem
    <3>1. CASE p >= 3
      <4>1. b = data[p - 3] /\ p \in 3..(Sends(op) - 1)
        BY <1>2, <2>1, <2>2, <3>1 DEF Sent
      <4> QED
        BY <1>7, <2>2, <2>6, <3>1, <4>1
    <3>2. CASE ~(p >= 3)
      BY <1>7, <2>2, <3>2
    <3> QED
      BY <3>1, <3>2
  <2>8. CASE p + 1 < Sends(op)
    <3>1. args' = Append(args, Sent(p)) /\ owed' = <<>>
      BY <1>7, <2>2, <2>4, <2>8
    <3> QED
      BY <2>7, <2>8, <3>1 DEF Advance
  <2>9. CASE ~(p + 1 < Sends(op))
    <3>1. /\ args' = <<>>
          /\ owed' = [n \in 1..Answers(op) |->
                        IF n = Answers(op) THEN Ack ELSE mem[Where[addr]][n - 1]]
      BY <1>7, <2>2, <2>4, <2>6, <2>9
    <3>2. p + 1 = Sends(op)
      BY <1>2, <2>1, <2>9
    <3>3. Len(owed') = Answers(op)
      BY <1>2, <3>1
    <3>4. \A n \in 1..Answers(op) : owed'[n] = Expected(p + n)
      <4> TAKE n \in 1..Answers(op)
      <4>1. p + n - Sends(op) = n - 1 /\ (p + n = Total - 1 <=> n = Answers(op))
        BY <1>2, <3>2
      <4>2. owed'[n] = IF n = Answers(op) THEN Ack ELSE mem[Where[addr]][n - 1]
        BY <3>1
      <4>3. Expected(p + n) = IF n = Answers(op) THEN Ack ELSE mem[Where[addr]][n - 1]
        <5>1. Expected(p + n) = IF p + n = Total - 1 THEN Ack
                                ELSE mem[Where[addr]][p + n - Sends(op)]
          BY <1>2 DEF Expected
        <5> QED
          BY <4>1, <5>1
      <4> QED
        BY <4>2, <4>3
    <3>5. owed' \in Seq(Byte)
      BY <1>1, <1>3, HearTyped DEF BoardTyped
    <3> QED
      BY <1>2, <2>7, <2>9, <3>1, <3>2, <3>3, <3>4, <3>5 DEF Advance
  <2> QED
    BY <2>8, <2>9
<1> QED
  BY <1>3, <1>4, <1>5, <1>6, <1>7, HearKinds

LEMMA TotalTyped ==
    ASSUME TypeInv, ~NoCommand
    PROVE  /\ op \in Ops /\ addr \in Addrs /\ data \in [Slots -> Byte]
           /\ Where[addr] \in Cells /\ mem \in [Cells -> [Slots -> Byte]]
           /\ Sends(op) \in Nat /\ Sends(op) >= 3 /\ Answers(op) \in Nat /\ Answers(op) >= 1
           /\ Total = Sends(op) + Answers(op) /\ Total \in Nat
           /\ pos \in Nat /\ pos < Total /\ up
           /\ Count(op) \in Nat /\ Count(op) <= Chunk
           /\ op \in Writes => Sends(op) = 3 + Count(op) /\ Answers(op) = 1
           /\ op \notin Writes => Sends(op) = 3 /\ Answers(op) = 1 + Count(op)
<1>1. /\ op \in Ops /\ addr \in Addrs /\ data \in [Slots -> Byte] /\ up
      /\ mem \in [Cells -> [Slots -> Byte]] /\ pos \in 0..(Sends(op) + Answers(op) - 1)
  BY DEF TypeInv, TypeOK, NoCommand
<1>2. /\ Count(op) \in 1..Chunk
      /\ Sends(op) \in 3..(3 + Chunk) /\ Answers(op) \in 1..(1 + Chunk)
      /\ op \in Writes => Sends(op) = 3 + Count(op) /\ Answers(op) = 1
      /\ op \notin Writes => Sends(op) = 3 /\ Answers(op) = 1 + Count(op)
  BY CountsTyped
<1>3. Where[addr] \in Cells
  BY <1>1, AddressBytes
<1> QED
  BY <1>1, <1>2, <1>3, NumbersTyped DEF Total

\* Only a read is answered with more than the status: with a byte for each slot.
LEMMA AnswerSlot ==
    ASSUME TypeInv, ~NoCommand, ~Sending, ~AtStatus
    PROVE  /\ op \notin Writes
           /\ pos - Sends(op) \in Slots /\ pos - Sends(op) < Count(op)
<1>1. pos >= Sends(op) /\ pos # Total - 1
  BY TotalTyped DEF Sending, AtStatus, Total
<1>2. op \notin Writes
  BY <1>1, TotalTyped
<1>3. /\ Total = 4 + Count(op) /\ Sends(op) = 3 /\ Count(op) \in Nat /\ Count(op) <= Chunk
      /\ pos < Total /\ pos \in Nat
  BY <1>2, TotalTyped
<1>4. pos - Sends(op) \in 0..(Chunk - 1) /\ pos - Sends(op) < Count(op)
  BY <1>1, <1>3, NumbersTyped
<1> QED
  BY <1>2, <1>4, NumbersTyped

\* The board is in the same place of the command when it has moved on by a byte.
LEMMA Advanced ==
    ASSUME TypeInv, ~NoCommand, NEW p \in Nat, p < Total, Parsed(p), Stored(p), Advance(p),
           op' = op, addr' = addr, data' = data
    PROVE  Parsed(p + 1)' /\ Stored(p + 1)'
<1>1. /\ Sends(op)' = Sends(op) /\ Answers(op)' = Answers(op) /\ Count(op)' = Count(op)
      /\ Total' = Total /\ \A n : Sent(n)' = Sent(n)
  BY DEF Sends, Answers, Count, Total, Sent
<1>2. args \in Seq(Byte) /\ \A n \in Nat : n < Sends(op) => Sent(n) \in Byte
  BY TotalTyped, SentTyped DEF TypeInv, TypeOK
<1>3. Parsed(p + 1)'
  <2>1. CASE p + 1 < Sends(op)
    <3>1. Len(args) = p /\ \A n \in 1..p : args[n] = Sent(n - 1)
      BY <2>1, TotalTyped DEF Parsed
    <3>2. args' = Append(args, Sent(p)) /\ owed' = <<>> /\ Sent(p) \in Byte
      BY <1>2, <2>1, TotalTyped DEF Advance
    <3>3. Len(args') = p + 1 /\ \A n \in 1..(p + 1) : args'[n] = Sent(n - 1)
      BY <1>2, <3>1, <3>2, AppendProperties
    <3> QED
      BY <1>1, <2>1, <3>2, <3>3 DEF Parsed
  <2>2. CASE ~(p + 1 < Sends(op))
    <3>1. /\ args' = <<>> /\ owed' \in Seq(Byte) /\ Len(owed') = Total - (p + 1)
          /\ \A n \in 1..Len(owed') : owed'[n] = Expected(p + n)
      BY <2>2 DEF Advance
    <3>2. \A n \in 1..Len(owed') : Expected(p + 1 + n - 1)' = Expected(p + n)
      <4> TAKE n \in 1..Len(owed')
      <4>1. p + 1 + n - 1 = p + n /\ p + n \in Nat
        BY <3>1, TotalTyped
      <4>2. CASE p + n = Total - 1
        BY <1>1, <4>1, <4>2, TotalTyped DEF Expected
      <4>3. CASE p + n # Total - 1
        <5>1. op \notin Writes
          BY <2>2, <3>1, <4>3, TotalTyped
        <5>2. mem' = mem
          BY <5>1, TotalTyped DEF Advance
        <5> QED
          BY <1>1, <4>1, <4>3, <5>2, TotalTyped DEF Expected
      <4> QED
        BY <4>2, <4>3
    <3> QED
      BY <1>1, <2>2, <3>1, <3>2 DEF Parsed
  <2> QED
    BY <2>1, <2>2
<1>4. Stored(p + 1)'
  <2> SUFFICES ASSUME op \in Writes, NEW s \in Slots, s < Count(op), 3 + s < p + 1
               PROVE  mem'[Where[addr]][s] = data[s]
    BY <1>1 DEF Stored
  <2>1. s \in Nat /\ mem[Where[addr]] \in [Slots -> Byte]
    BY NumbersTyped, TotalTyped
  <2>2. CASE 3 + s = p
    <3>1. p \in 3..(Sends(op) - 1) /\ p - 3 = s
      BY <2>1, <2>2, TotalTyped
    <3>2. mem' = [mem EXCEPT ![Where[addr]] = [@ EXCEPT ![p - 3] = data[p - 3]]]
      BY <3>1 DEF Advance
    <3>3. mem'[Where[addr]] = [mem[Where[addr]] EXCEPT ![p - 3] = data[p - 3]]
      BY <3>2, TotalTyped
    <3> QED
      BY <2>1, <3>1, <3>3
  <2>3. CASE 3 + s < p
    <3>1. mem[Where[addr]][s] = data[s] /\ p - 3 # s
      BY <2>1, <2>3 DEF Stored
    <3>2. CASE mem' = mem
      BY <3>1, <3>2
    <3>3. CASE mem' = [mem EXCEPT ![Where[addr]] = [@ EXCEPT ![p - 3] = data[p - 3]]]
      <4>1. mem'[Where[addr]] = [mem[Where[addr]] EXCEPT ![p - 3] = data[p - 3]]
        BY <3>3, TotalTyped
      <4> QED
        BY <2>1, <3>1, <4>1
    <3>4. \/ mem' = mem
          \/ mem' = [mem EXCEPT ![Where[addr]] = [@ EXCEPT ![p - 3] = data[p - 3]]]
      BY DEF Advance
    <3> QED
      BY <3>2, <3>3, <3>4
  <2> QED
    BY <2>1, <2>2, <2>3
<1> QED
  BY <1>3, <1>4

\* After its last byte the board waits for a command again.
LEMMA AdvancedToEnd ==
    ASSUME TypeInv, ~NoCommand, NEW p \in Nat, p = Total - 1, Advance(p)
    PROVE  args' = <<>> /\ owed' = <<>> /\ mem' = mem
<1>1. ~(p + 1 < Sends(op)) /\ p \notin 3..(Sends(op) - 1) /\ Total - (p + 1) = 0
  BY TotalTyped
<1> QED
  BY <1>1 DEF Advance

\* What the board shows is what the command asks for.
LEMMA AnswerInStep ==
    ASSUME TypeInv, ~NoCommand, NEW p \in Nat, p < Total, p >= Sends(op), Parsed(p)
    PROVE  Answer = Expected(p) /\ Expected(p) \in Byte
<1>1. Len(owed) = Total - p /\ owed[1] = Expected(p + 1 - 1) /\ p + 1 - 1 = p
  BY TotalTyped DEF Parsed
<1>2. owed \in Seq(Byte) /\ owed # <<>> /\ Head(owed) = owed[1] /\ Head(owed) \in Byte
  BY <1>1, TotalTyped, HeadTailProperties DEF TypeInv, TypeOK
<1> QED
  BY <1>1, <1>2 DEF Answer

----------------------------------------------------------------------------
(* A clock over pins. *)

LEMMA ClockedTyped ==
    ASSUME TypeInv
    PROVE  /\ Clocked \in Nat /\ Clocked <= Width
           /\ Clocked = IF clocked THEN Width - x ELSE Width - 1 - x
           /\ x \in Nat /\ x < Width
           /\ BytesHeard = IF clocked /\ x = 0 THEN pos + 1 ELSE pos
           /\ NoCommand \/ kind = "usb" => Clocked = 0 /\ BytesHeard = pos
<1>1. x \in 0..(Width - 1) /\ clocked \in BOOLEAN /\ Width \in Nat /\ Width > 0
  BY NumbersTyped DEF TypeInv, TypeOK
<1>2. Clocked = IF clocked THEN Width - x ELSE Width - 1 - x
  BY <1>1 DEF Clocked
<1>3. Clocked = Width <=> clocked /\ x = 0
  BY <1>1, <1>2
<1>4. BytesHeard = IF clocked /\ x = 0 THEN pos + 1 ELSE pos
  BY <1>3 DEF BytesHeard
<1> QED
  BY <1>1, <1>2, <1>4 DEF TypeInv, LoopInv

LEMMA OutgoingKept ==
    ASSUME op' = op, addr' = addr, data' = data, pos' = pos
    PROVE  /\ Outgoing' = Outgoing /\ Sending' = Sending /\ AtStatus' = AtStatus
           /\ Sends(op)' = Sends(op) /\ Count(op)' = Count(op) /\ Total' = Total
           /\ NoCommand' = NoCommand
BY DEF Outgoing, Sending, AtStatus, Sent, Sends, Answers, Count, Total, NoCommand

\* RESET stays when another pin is set.
LEMMA LevelKept ==
    ASSUME NEW k \in Kinds, NEW p \in [Outputs(k) -> BOOLEAN],
           NEW pin \in {"MOSI", "CLK"}, NEW v \in BOOLEAN
    PROVE  /\ SetPin(k, p, pin, v) \in [Outputs(k) -> BOOLEAN]
           /\ Level(k, SetPin(k, p, pin, v), pin) = v
           /\ Level(k, SetPin(k, p, pin, v), "RESET") = Level(k, p, "RESET")
<1>1. pin \in PinNames /\ "RESET" \in PinNames \ {pin}
  BY DEF PinNames
<1> QED
  BY <1>1, PinsSet

\* The port after a rise of the clock.
LEMMA PinsHigh ==
    ASSUME NEW k \in Kinds, NEW p \in [Outputs(k) -> BOOLEAN], NEW v \in BOOLEAN
    PROVE  /\ Level(k, SetPin(k, p, "MOSI", v), "MOSI") = v
           /\ Level(k, SetPin(k, SetPin(k, p, "MOSI", v), "CLK", TRUE), "CLK") = TRUE
           /\ Level(k, SetPin(k, SetPin(k, p, "MOSI", v), "CLK", TRUE), "RESET")
                 = Level(k, p, "RESET")
<1> DEFINE q == SetPin(k, p, "MOSI", v)
<1>1. /\ q \in [Outputs(k) -> BOOLEAN] /\ Level(k, q, "MOSI") = v
      /\ Level(k, q, "RESET") = Level(k, p, "RESET")
  BY LevelKept
<1> HIDE DEF q
<1>2. /\ Level(k, SetPin(k, q, "CLK", TRUE), "CLK") = TRUE
      /\ Level(k, SetPin(k, q, "CLK", TRUE), "RESET") = Level(k, q, "RESET")
  BY <1>1, LevelKept
<1> QED
  BY <1>1, <1>2 DEF q

\* In step, the board sees the rise, takes the bit and shows the one asked for.
LEMMA ClockHeard ==
    ASSUME TypeInv, StepInv, slipped = "no", ClockHigh(FALSE)
    PROVE  /\ ~NoCommand /\ kind # "usb" /\ ~pulled /\ ~clocked /\ clocked' = TRUE
           /\ Together /\ BytesHeard = pos /\ Clocked = Width - 1 - x
           /\ UNCHANGED <<kind, up, pulled, pos, x, told, slipped>>
           /\ UNCHANGED <<op, addr, data>>
           /\ Outgoing \in Byte
           /\ Clock(Outgoing[x]) /\ Len(heard) = Width - 1 - x
           /\ Store(miso') /\ miso' = Answer[x] /\ miso' \in BOOLEAN
           /\ Level(kind, port, "CLK")' = clocked' /\ Awake'
<1> DEFINE mosi == SetPin(kind, port, "MOSI", Outgoing[x])
<1>1. /\ ~NoCommand /\ kind # "usb" /\ ~pulled /\ ~clocked /\ clocked' = TRUE
      /\ UNCHANGED <<kind, up, pulled, pos, x, told, slipped>>
      /\ UNCHANGED <<op, addr, data>>
      /\ port' = SetPin(kind, mosi, "CLK", TRUE)
  BY DEF ClockHigh, OnPins, args4, TypeInv, LoopInv
<1>2. Together /\ Awake /\ ~Level(kind, port, "CLK") /\ BitsHeard
  BY <1>1, TotalTyped DEF StepInv, Together
<1>3. /\ BytesHeard = pos /\ Clocked = Width - 1 - x /\ Clocked < Width
      /\ x \in Bits /\ Len(heard) = Width - 1 - x
  BY <1>1, <1>2, ClockedTyped, NumbersTyped DEF BitsHeard
<1>4. Outgoing \in Byte /\ Outgoing[x] \in BOOLEAN
  BY <1>1, <1>3, OutgoingTyped DEF TypeInv, Byte
<1>5. /\ Level(kind, mosi, "MOSI") = Outgoing[x]
      /\ Level(kind, port, "CLK")' = TRUE /\ Awake' = Awake
  <2>1. kind \in Kinds /\ port \in [Outputs(kind) -> BOOLEAN]
    BY KindTyped DEF TypeInv, TypeOK
  <2>2. /\ Level(kind, mosi, "MOSI") = Outgoing[x]
        /\ Level(kind, SetPin(kind, mosi, "CLK", TRUE), "CLK") = TRUE
        /\ Level(kind, SetPin(kind, mosi, "CLK", TRUE), "RESET") = Level(kind, port, "RESET")
    BY <1>4, <2>1, PinsHigh
  <2> HIDE DEF mosi
  <2>3. Awake' = Level(kind, port', "RESET") /\ Level(kind, port, "CLK")' = Level(kind, port', "CLK")
    BY <1>1 DEF Awake, Level
  <2> QED
    BY <1>1, <2>2, <2>3 DEF Awake
<1>6. /\ Clock(Level(kind, mosi, "MOSI"))
      /\ Store(~GetPin(kind, InputBit(kind, miso')))
  <2> HIDE DEF mosi
  <2> QED
    BY <1>1, <1>2 DEF ClockHigh, mosi
<1>7. Clock(Outgoing[x])
  BY Zenon, <1>5, <1>6
<1>8. miso' \in BOOLEAN
  BY <1>4, <1>7, ClockTyped DEF TypeInv
<1>9. (~GetPin(kind, InputBit(kind, miso'))) = miso'
  BY <1>8, MisoRead, KindTyped DEF TypeInv
<1>10. Store(miso')
  BY Zenon, <1>6, <1>9
<1>11. miso' = Answer[x]
  <2>1. Width - 1 - Len(heard) = x
    BY <1>3, NumbersTyped
  <2> QED
    BY <1>7, <2>1 DEF Clock
<1> HIDE DEF mosi
<1> QED
  BY <1>1, <1>2, <1>3, <1>4, <1>5, <1>7, <1>8, <1>10, <1>11

\* A data byte of the command is stored.
Storing ==
    /\ op \in Writes
    /\ \E s \in Slots : /\ s < Count(op)
                        /\ mem' = [mem EXCEPT ![Where[addr]] = [@ EXCEPT ![s] = data[s]]]

LEMMA AdvanceStores ==
    ASSUME TypeInv, ~NoCommand, NEW p \in Nat, Advance(p)
    PROVE  /\ mem' = mem \/ Storing
           /\ op \notin Writes => mem' = mem
<1>1. CASE p \in 3..(Sends(op) - 1)
  <2>1. op \in Writes /\ p - 3 \in Slots /\ p - 3 < Count(op)
    BY <1>1, TotalTyped, NumbersTyped
  <2>2. mem' = [mem EXCEPT ![Where[addr]] = [@ EXCEPT ![p - 3] = data[p - 3]]]
    BY <1>1 DEF Advance
  <2> QED
    BY <2>1, <2>2 DEF Storing
<1>2. CASE p \notin 3..(Sends(op) - 1)
  BY <1>2 DEF Advance
<1> QED
  BY <1>1, <1>2

\* What the board does at a rise in step: one bit more, or the byte is through.
LEMMA BoardClocked ==
    ASSUME TypeInv, StepInv, slipped = "no", ClockHigh(FALSE)
    PROVE  /\ IF x = 0
              THEN heard' = <<>> /\ Advance(pos)
              ELSE /\ UNCHANGED <<args, owed, mem>>
                   /\ heard' = Append(heard, Outgoing[x])
           /\ mem' = mem \/ Storing
           /\ op \notin Writes => mem' = mem
<1>1. /\ ~NoCommand /\ Together /\ BytesHeard = pos /\ Clocked = Width - 1 - x
      /\ Clock(Outgoing[x]) /\ Len(heard) = Width - 1 - x /\ Outgoing \in Byte
  BY ClockHeard
<1>2. /\ x \in Nat /\ x < Width /\ Width \in Nat /\ heard \in Seq(BOOLEAN) /\ x \in Bits
  BY ClockedTyped, NumbersTyped DEF TypeInv, TypeOK
<1>3. CASE x = 0
  <2> DEFINE all == Append(heard, Outgoing[x])
             byte == [b \in Bits |-> all[Width - b]]
  <2>1. heard' = <<>> /\ Hear(byte)
    <3>1. ~(Len(heard) + 1 < Width)
      BY <1>1, <1>2, <1>3
    <3> QED
      BY <1>1, <3>1 DEF Clock
  <2>2. \A b \in Bits : all[Width - b] = Outgoing[b]
    <3> TAKE b \in Bits
    <3>1. b \in Nat /\ Width - b \in 1..Width /\ Outgoing[x] \in BOOLEAN
      BY <1>1, <1>2, NumbersTyped DEF Byte
    <3>2. \A n \in 1..Len(heard) : heard[n] = Outgoing[Width - n]
      BY <1>1 DEF Together, BitsHeard
    <3>3. CASE b = 0
      BY <1>1, <1>2, <1>3, <3>1, <3>3, AppendProperties
    <3>4. CASE b # 0
      <4>1. Width - b \in 1..Len(heard) /\ Width - (Width - b) = b
        BY <1>1, <1>2, <1>3, <3>1, <3>4
      <4>2. all[Width - b] = heard[Width - b]
        BY <1>2, <3>1, <4>1, AppendProperties
      <4> QED
        BY <3>2, <4>1, <4>2
    <3> QED
      BY <3>3, <3>4
  <2>3. byte = Outgoing
    <3> HIDE DEF all
    <3> QED
      BY <1>1, <2>2 DEF Byte
  <2>4. Advance(pos)
    <3>1. /\ pos \in Nat /\ pos < Total
          /\ Outgoing = IF pos < Sends(op) THEN Sent(pos) ELSE Zeros
          /\ Parsed(pos)
      BY <1>1, TotalTyped DEF Outgoing, Sending, Together, CommandInStep
    <3>2. Hear(Outgoing)
      BY <2>1, <2>3
    <3> QED
      BY <1>1, <3>1, <3>2, HearInStep
  <2> QED
    BY <1>1, <1>3, <2>1, <2>4, AdvanceStores, TotalTyped
<1>4. CASE x # 0
  <2>1. Len(heard) + 1 < Width
    BY <1>1, <1>2, <1>4
  <2> QED
    BY <1>1, <1>4, <2>1 DEF Clock
<1> QED
  BY <1>3, <1>4

\* The byte of an answer has one bit more.
LEMMA BitStored ==
    ASSUME TypeInv, StepInv, slipped = "no", ClockHigh(FALSE)
    PROVE  Shifting' /\ Fetched'
<1>1. /\ ~NoCommand /\ Together /\ BytesHeard = pos /\ Clocked = Width - 1 - x
      /\ Store(miso') /\ miso' = Answer[x] /\ clocked' = TRUE /\ x' = x
      /\ pos' = pos /\ op' = op /\ addr' = addr /\ data' = data
  BY ClockHeard
<1>2. /\ Outgoing' = Outgoing /\ Sending' = Sending /\ AtStatus' = AtStatus
      /\ Sends(op)' = Sends(op) /\ Count(op)' = Count(op) /\ Total' = Total
  BY <1>1, OutgoingKept
<1>3. op \notin Writes => mem' = mem
  BY BoardClocked
<1>4. /\ x \in Nat /\ x < Width /\ Width \in Nat /\ Bits = 0..(Width - 1)
      /\ Clocked' = Width - x
  BY <1>1, ClockedTyped, NumbersTyped DEF Clocked
<1>5. CASE Sending
  <2>1. got' = got /\ ret' = ret
    BY <1>1, <1>5 DEF Store
  <2>2. Fetched'
    BY <1>1, <1>2, <1>3, <2>1 DEF Together, CommandInStep, Fetched
  <2> QED
    BY <1>2, <1>5, <2>2 DEF Shifting
<1>6. CASE ~Sending
  <2>1. /\ pos \in Nat /\ pos < Total /\ pos >= Sends(op) /\ Sends(op) \in Nat
        /\ Parsed(pos) /\ Fetched /\ Shifting
    BY <1>1, <1>6, TotalTyped DEF Sending, Together, CommandInStep
  <2>2. miso' = Expected(pos)[x]
    BY <1>1, <2>1, AnswerInStep
  <2>3. Expected(pos)' = Expected(pos)
    <3>1. CASE pos = Total - 1
      BY <1>1, <1>2, <3>1 DEF Expected
    <3>2. CASE pos # Total - 1
      <4>1. op \notin Writes
        BY <1>1, <2>1, <3>2, TotalTyped
      <4> QED
        BY <1>1, <1>2, <1>3, <3>2, <4>1 DEF Expected
    <3> QED
      BY <3>1, <3>2
  <2>4. /\ Current' = Shifted(Current, miso')
        /\ \A s \in Slots : s # pos - Sends(op) => got'[s] = got[s]
    <3>1. CASE AtStatus
      BY <1>1, <1>2, <1>6, <3>1 DEF Store, Current
    <3>2. CASE ~AtStatus
      <4>1. got' = [got EXCEPT ![pos - Sends(op)] = Shifted(got[pos - Sends(op)], miso')]
        BY <1>1, <1>6, <3>2 DEF Store
      <4>2. pos - Sends(op) \in Slots /\ got \in [Slots -> Byte]
        BY <1>1, <1>6, <3>2, AnswerSlot DEF TypeInv, TypeOK
      <4> QED
        BY <1>1, <1>2, <3>2, <4>1, <4>2 DEF Current
    <3> QED
      BY <3>1, <3>2
  <2>5. Shifting'
    <3> SUFFICES ASSUME NEW b \in Bits, b < Clocked'
                 PROVE  Current'[b] = Expected(pos)[Width - Clocked' + b]
      BY <1>1, <2>3 DEF Shifting
    <3>1. b \in Nat /\ Width - Clocked' + b = x + b
      BY <1>4
    <3>2. CASE b = 0
      BY <1>4, <2>2, <2>4, <3>1, <3>2 DEF Shifted
    <3>3. CASE b # 0
      <4>1. /\ b - 1 \in Bits /\ b - 1 < Clocked /\ Width - Clocked + (b - 1) = x + b
        BY <1>1, <1>4, <3>1, <3>3
      <4>2. Current[b - 1] = Expected(pos)[x + b]
        BY <1>6, <2>1, <4>1 DEF Shifting
      <4> QED
        BY <2>4, <3>1, <3>3, <4>2 DEF Shifted
    <3> QED
      BY <3>2, <3>3
  <2>6. Fetched'
    <3> SUFFICES ASSUME op \notin Writes, NEW s \in Slots, s < Count(op), Sends(op) + s < pos
                 PROVE  got'[s] = mem[Where[addr]][s]
      BY <1>1, <1>2, <1>3 DEF Fetched
    <3>1. s # pos - Sends(op) /\ got[s] = mem[Where[addr]][s]
      BY <2>1, NumbersTyped DEF Fetched
    <3> QED
      BY <2>4, <3>1
  <2> QED
    BY <2>5, <2>6
<1> QED
  BY <1>5, <1>6

LEMMA ClockHighStep ==
    ASSUME TypeInv, StepInv, slipped = "no", NEW missed \in BOOLEAN, ClockHigh(missed),
           slipped' = "no"
    PROVE  /\ Together'
           /\ mem' = mem \/ Storing
           /\ op \notin Writes => mem' = mem
<1>1. missed = FALSE
  BY DEF ClockHigh, Slip
<1>2. ClockHigh(FALSE)
  BY <1>1
<1>3. /\ ~NoCommand /\ Together /\ BytesHeard = pos /\ Clocked = Width - 1 - x
      /\ clocked' = TRUE /\ x' = x /\ kind' = kind /\ kind # "usb"
      /\ pos' = pos /\ op' = op /\ addr' = addr /\ data' = data
      /\ Level(kind, port, "CLK")' = clocked' /\ Awake'
      /\ Len(heard) = Width - 1 - x /\ Outgoing \in Byte
  BY <1>2, ClockHeard
<1>4. /\ Outgoing' = Outgoing /\ Sends(op)' = Sends(op) /\ NoCommand' = NoCommand
      /\ Count(op)' = Count(op) /\ Total' = Total
  BY <1>3, OutgoingKept
<1>5. /\ x \in Nat /\ x < Width /\ Width \in Nat /\ Bits = 0..(Width - 1) /\ Clocked' = Width - x
      /\ BytesHeard' = IF x = 0 THEN pos + 1 ELSE pos
      /\ heard \in Seq(BOOLEAN)
  BY <1>3, ClockedTyped, NumbersTyped DEF Clocked, BytesHeard, TypeInv, TypeOK
<1>6. Shifting' /\ Fetched'
  BY <1>2, BitStored
<1>7. CASE x = 0
  <2>1. heard' = <<>> /\ Advance(pos)
    BY <1>2, <1>7, BoardClocked
  <2>2. BitsHeard'
    BY <1>5, <1>7, <2>1 DEF BitsHeard
  <2>3. pos \in Nat /\ pos < Total /\ Parsed(pos) /\ Stored(pos)
    BY <1>3, TotalTyped DEF Together, CommandInStep
  <2>4. Parsed(pos + 1)' /\ Stored(pos + 1)'
    BY <1>3, <2>1, <2>3, Advanced
  <2>5. Parsed(BytesHeard)' /\ Stored(BytesHeard)'
    BY <1>3, <1>5, <1>7, <2>4
  <2>6. Together'
    BY <1>3, <1>4, <1>6, <2>2, <2>5 DEF Together, CommandInStep
  <2> QED
    BY <1>2, <2>6, BoardClocked
<1>8. CASE x # 0
  <2>1. heard' = Append(heard, Outgoing[x]) /\ UNCHANGED <<args, owed, mem>>
    BY <1>2, <1>8, BoardClocked
  <2>2. BitsHeard'
    <3>1. /\ Outgoing[x] \in BOOLEAN /\ Len(heard') = Width - x /\ heard'[Width - x] = Outgoing[x]
          /\ \A n \in 1..(Width - 1 - x) : heard'[n] = heard[n]
      BY <1>3, <1>5, <2>1, AppendProperties DEF Byte
    <3>2. \A n \in 1..Len(heard) : heard[n] = Outgoing[Width - n]
      BY <1>3 DEF Together, BitsHeard
    <3>3. \A n \in 1..Len(heard') : heard'[n] = Outgoing[Width - n]
      <4> TAKE n \in 1..Len(heard')
      <4>1. CASE n = Width - x
        BY <1>5, <3>1, <4>1
      <4>2. CASE n # Width - x
        BY <1>3, <1>5, <3>1, <3>2, <4>2
      <4> QED
        BY <4>1, <4>2
    <3>4. Len(heard') = IF Clocked' = Width THEN 0 ELSE Clocked'
      BY <1>5, <1>8, <3>1
    <3> QED
      BY <1>4, <3>3, <3>4 DEF BitsHeard
  <2>3. BytesHeard' = pos /\ Parsed(pos) /\ Stored(pos)
    BY <1>3, <1>5, <1>8 DEF Together, CommandInStep
  <2>4. Parsed(BytesHeard)' /\ Stored(BytesHeard)'
    <3>1. Parsed(pos)' = Parsed(pos) /\ Stored(pos)' = Stored(pos)
      BY <1>3, <2>1 DEF Parsed, Stored, Sends, Answers, Count, Sent, Expected, Total
    <3> QED
      BY <1>3, <2>3, <3>1
  <2>5. Together'
    BY <1>3, <1>4, <1>6, <2>2, <2>4 DEF Together, CommandInStep
  <2> QED
    BY <2>1, <2>5
<1> QED
  BY <1>7, <1>8

\* The answer is all there when its last bit is.
LEMMA ByteFetched ==
    ASSUME TypeInv, ~NoCommand, ~Sending, Together, kind # "usb", clocked, x = 0
    PROVE  /\ AtStatus => ret = Ack
           /\ ~AtStatus => got[pos - Sends(op)] = mem[Where[addr]][pos - Sends(op)]
<1>1. /\ Clocked = Width /\ Width \in Nat /\ Bits = 0..(Width - 1)
  BY ClockedTyped, NumbersTyped
<1>2. \A b \in Bits : Current[b] = Expected(pos)[b]
  <2> TAKE b \in Bits
  <2>1. b < Clocked /\ Width - Clocked + b = b
    BY <1>1
  <2> QED
    BY <2>1 DEF Together, CommandInStep, Shifting
<1>3. CASE AtStatus
  <2>1. Expected(pos) = Ack /\ Current = ret /\ ret \in Byte
    <3>1. pos = Total - 1
      BY <1>3, TotalTyped DEF AtStatus, Total
    <3> QED
      BY <1>3, <3>1 DEF Expected, Current, TypeInv, TypeOK
  <2> QED
    BY <1>2, <1>3, <2>1, BytesTyped DEF Byte
<1>4. CASE ~AtStatus
  <2>1. /\ Expected(pos) = mem[Where[addr]][pos - Sends(op)]
        /\ Current = got[pos - Sends(op)]
    <3>1. pos # Total - 1 /\ pos \in Nat /\ Sends(op) \in Nat
      BY <1>4, TotalTyped DEF AtStatus, Total
    <3> QED
      BY <1>4, <3>1 DEF Expected, Current
  <2>2. got[pos - Sends(op)] \in Byte /\ mem[Where[addr]][pos - Sends(op)] \in Byte
    BY <1>4, AnswerSlot, TotalTyped DEF TypeInv, TypeOK
  <2> HIDE DEF Byte
  <2> QED
    BY <1>2, <1>4, <2>1, <2>2 DEF Byte
<1> QED
  BY <1>3, <1>4

\* A command that ends in step has been done.
Done ==
    /\ told' = "ok"
    /\ \A s \in Slots : s < Count(op) =>
          mem[Where[addr]][s] = IF op \in Writes THEN data[s] ELSE got'[s]

LEMMA AllDone ==
    ASSUME TypeInv, ~NoCommand, pos = Total - 1, Fetched, got' = got, told' = "ok",
           Stored(pos)
    PROVE  Done
<1>1. ASSUME NEW s \in Slots, s < Count(op)
      PROVE  mem[Where[addr]][s] = IF op \in Writes THEN data[s] ELSE got'[s]
  <2>1. s \in Nat
    BY NumbersTyped
  <2>2. CASE op \in Writes
    <3>1. 3 + s < pos
      BY <1>1, <2>1, <2>2, TotalTyped
    <3> QED
      BY <1>1, <2>2, <3>1 DEF Stored
  <2>3. CASE op \notin Writes
    <3>1. Sends(op) + s < pos
      BY <1>1, <2>1, <2>3, TotalTyped
    <3> QED
      BY <1>1, <2>3, <3>1 DEF Fetched
  <2> QED
    BY <2>2, <2>3
<1> QED
  BY <1>1 DEF Done

LEMMA ClockLowStep ==
    ASSUME TypeInv, StepInv, slipped = "no", ClockLow
    PROVE  /\ Together' /\ mem' = mem /\ UNCHANGED <<kind, up, slipped>>
           /\ \/ UNCHANGED <<op, addr, data, got, told>>
              \/ op' = "none" /\ addr' = addr /\ Done
<1>1. /\ ~NoCommand /\ kind # "usb" /\ clocked /\ clocked' = FALSE
      /\ port' = SetPin(kind, port, "CLK", FALSE)
      /\ UNCHANGED <<got, ret>> /\ UNCHANGED <<kind, up, slipped>>
      /\ UNCHANGED <<heard, args, owed, miso, mem>>
  BY DEF ClockLow, OnPins, board
<1>2. /\ Together /\ Parsed(BytesHeard) /\ Stored(BytesHeard) /\ Fetched /\ Shifting
      /\ Awake /\ BitsHeard
  BY <1>1, TotalTyped DEF StepInv, Together, CommandInStep
<1>3. Awake' /\ Level(kind, port, "CLK")' = clocked'
  <2>1. /\ Level(kind, port', "CLK") = FALSE
        /\ Level(kind, port', "RESET") = Level(kind, port, "RESET")
    BY <1>1, LevelKept, KindTyped DEF TypeInv, TypeOK
  <2> QED
    BY <1>1, <1>2, <2>1 DEF Awake, Level
<1>4. /\ x \in Nat /\ x < Width /\ Width \in Nat /\ Clocked = Width - x
      /\ BytesHeard = IF x = 0 THEN pos + 1 ELSE pos
  BY <1>1, ClockedTyped, NumbersTyped
<1>5. CASE x > 0
  <2>1. x' = x - 1 /\ UNCHANGED <<op, addr, data>> /\ UNCHANGED <<pos, told>>
    BY <1>5 DEF ClockLow, args4
  <2>2. op' = op /\ addr' = addr /\ data' = data /\ pos' = pos
    BY <2>1
  <2>3. /\ Outgoing' = Outgoing /\ Sending' = Sending /\ AtStatus' = AtStatus
        /\ Sends(op)' = Sends(op) /\ Count(op)' = Count(op) /\ Total' = Total
        /\ NoCommand' = NoCommand
    BY <2>2, OutgoingKept
  <2>4. Clocked' = Clocked /\ BytesHeard' = BytesHeard
    BY <1>1, <1>4, <1>5, <2>1 DEF Clocked, BytesHeard
  <2>5. BitsHeard'
    BY <1>1, <1>2, <2>3, <2>4 DEF BitsHeard
  <2>6. Parsed(BytesHeard)' /\ Stored(BytesHeard)'
    BY <1>1, <1>2, <2>2, <2>4 DEF Parsed, Stored, Sends, Answers, Count, Sent, Expected, Total
  <2>7. Fetched'
    BY <1>1, <1>2, <2>2 DEF Fetched, Sends, Count
  <2>8. Shifting'
    <3>1. Current' = Current /\ Expected(pos)' = Expected(pos)
      BY <1>1, <2>2, <2>3 DEF Current, Expected
    <3> QED
      BY <1>2, <2>3, <2>4, <3>1 DEF Shifting
  <2>9. Together'
    BY <1>1, <1>3, <2>3, <2>5, <2>6, <2>7, <2>8 DEF Together, CommandInStep
  <2> QED
    BY <1>1, <2>1, <2>9
<1>6. CASE ~(x > 0)
  <2>1. x = 0 /\ x' = Width - 1 /\ NextByte
    BY <1>4, <1>6 DEF ClockLow
  <2>2. Clocked' = 0 /\ Clocked = Width /\ Width # 0
    BY <1>1, <1>4, <2>1, NumbersTyped DEF Clocked
  <2>3. BitsHeard'
    BY <1>1, <1>2, <2>2 DEF BitsHeard
  <2>4. BytesHeard' = pos' /\ BytesHeard = pos + 1
    BY <1>4, <2>1, <2>2 DEF BytesHeard
  <2>5. CASE ~Sending /\ AtStatus
    <3>1. Return(IF ret' = Ack THEN "ok" ELSE "failed") /\ ret = Ack
      BY <1>1, <1>2, <2>1, <2>5, ByteFetched DEF NextByte
    <3>2. op' = "none" /\ addr' = addr /\ told' = "ok"
      BY <1>1, <3>1 DEF Return
    <3>3. pos = Total - 1 /\ ~(pos + 1 < Sends(op)) /\ pos \in Nat /\ Total - (pos + 1) = 0
      BY <1>1, <2>5, TotalTyped DEF AtStatus, Sending
    <3>4. args = <<>> /\ owed = <<>>
      BY <1>2, <2>4, <3>3 DEF Parsed, TypeInv, TypeOK
    <3>5. Stored(pos)
      BY <1>1, <1>2, <2>4, <3>3, NumbersTyped DEF Stored
    <3>6. Done
      BY <1>1, <1>2, <3>2, <3>3, <3>5, AllDone
    <3>7. Together'
      BY <1>1, <1>3, <2>3, <3>2, <3>4 DEF Together, NoCommand
    <3> QED
      BY <1>1, <3>2, <3>6, <3>7
  <2>6. CASE ~(~Sending /\ AtStatus)
    <3>1. pos' = pos + 1 /\ UNCHANGED <<op, addr, data>> /\ told' = told
      BY <2>1, <2>6 DEF NextByte, args4
    <3>2. op' = op /\ addr' = addr /\ data' = data
      BY <3>1
    <3>3. Parsed(BytesHeard)' /\ Stored(BytesHeard)'
      BY <1>1, <1>2, <2>4, <3>1, <3>2 DEF Parsed, Stored, Sends, Answers, Count, Sent, Expected, Total
    <3>4. Fetched'
      <4> SUFFICES ASSUME op \notin Writes, NEW s \in Slots, s < Count(op), Sends(op) + s < pos + 1
                   PROVE  got[s] = mem[Where[addr]][s]
        BY <1>1, <3>1, <3>2 DEF Fetched, Sends, Count
      <4>1. s \in Nat /\ pos \in Nat /\ Sends(op) \in Nat
        BY <1>1, NumbersTyped, TotalTyped
      <4>2. CASE Sends(op) + s < pos
        BY <1>2, <4>2 DEF Fetched
      <4>3. CASE Sends(op) + s = pos
        <5>1. ~Sending /\ s = pos - Sends(op)
          BY <4>1, <4>3 DEF Sending
        <5> QED
          BY <1>1, <1>2, <2>1, <2>6, <5>1, ByteFetched
      <4> QED
        BY <4>1, <4>2, <4>3
    <3>5. Shifting'
      BY <2>2, NumbersTyped DEF Shifting
    <3>6. NoCommand' = NoCommand
      BY <3>2 DEF NoCommand
    <3>7. Together'
      BY <1>1, <1>3, <2>3, <3>3, <3>4, <3>5, <3>6 DEF Together, CommandInStep
    <3> QED
      BY <1>1, <3>1, <3>7
  <2> QED
    BY <2>5, <2>6
<1> QED
  BY <1>5, <1>6

----------------------------------------------------------------------------
(* A transfer over USB: the board has heard it, or the ends slip. *)

LEMMA TransferHeard ==
    ASSUME TypeInv, StepInv, slipped = "no", NEW outcome \in Outcomes, Transfer(outcome),
           slipped' = "no"
    PROVE  /\ ~NoCommand /\ kind = "usb" /\ Together /\ Parsed(pos) /\ Stored(pos) /\ Fetched
           /\ outcome = "done" \/ (outcome = "unanswered" /\ (Sending \/ AtStatus))
           /\ Advance(pos)
           /\ ~Sending => (IF Awake THEN Answer ELSE Quiet) = Expected(pos)
           /\ Clocked' = 0 /\ BytesHeard' = pos' /\ BitsHeard' /\ Awake'
           /\ UNCHANGED <<kind, up, port, x, clocked>>
<1>1. ~NoCommand /\ kind = "usb" /\ UNCHANGED <<kind, up, port, x, clocked>>
  BY DEF Transfer
<1>2. ~Slips(outcome)
  BY DEF Transfer, Slip
<1>3. outcome = "done" \/ (outcome = "unanswered" /\ (Sending \/ AtStatus))
  BY <1>2 DEF Slips, Outcomes
<1>4. Together /\ Awake /\ BitsHeard /\ Clocked = 0 /\ BytesHeard = pos
  BY <1>1, ClockedTyped, TotalTyped DEF StepInv, Together
<1>5. Parsed(pos) /\ Stored(pos) /\ Fetched
  BY <1>1, <1>4 DEF Together, CommandInStep
<1>6. Hear(Outgoing) /\ heard' = heard
  BY <1>3, <1>4 DEF Transfer
<1>7. Advance(pos)
  <2>1. /\ pos \in Nat /\ pos < Total /\ Outgoing \in Byte
        /\ Outgoing = IF pos < Sends(op) THEN Sent(pos) ELSE Zeros
    BY <1>1, TotalTyped, OutgoingTyped DEF Outgoing, Sending, TypeInv
  <2> QED
    BY <1>1, <1>5, <1>6, <2>1, HearInStep
<1>8. ~Sending => Answer = Expected(pos)
  BY <1>1, <1>5, AnswerInStep, TotalTyped DEF Sending
<1>9. Clocked' = 0 /\ BytesHeard' = pos'
  BY <1>1, <1>4, NumbersTyped DEF Clocked, BytesHeard
<1>10. BitsHeard'
  BY <1>4, <1>6, <1>9, NumbersTyped DEF BitsHeard
<1>11. Awake'
  BY <1>1, <1>4 DEF Awake
<1> QED
  BY <1>1, <1>3, <1>4, <1>5, <1>7, <1>8, <1>9, <1>10, <1>11

LEMMA TransferStep ==
    ASSUME TypeInv, StepInv, slipped = "no", NEW outcome \in Outcomes, Transfer(outcome),
           slipped' = "no"
    PROVE  /\ Together' /\ UNCHANGED <<kind, up>> /\ addr' = addr
           /\ mem' = mem \/ Storing
           /\ op \notin Writes => mem' = mem
           /\ \/ UNCHANGED <<op, data, told>> /\ (op \in Writes => got' = got)
              \/ op' = "none" /\ mem' = mem /\ Done
              \/ op' = "none" /\ mem' = mem /\ told' = "failed" /\ calm' = -1
<1>1. /\ ~NoCommand /\ kind = "usb" /\ Together /\ Parsed(pos) /\ Stored(pos) /\ Fetched
      /\ outcome = "done" \/ (outcome = "unanswered" /\ (Sending \/ AtStatus))
      /\ Advance(pos)
      /\ ~Sending => (IF Awake THEN Answer ELSE Quiet) = Expected(pos)
      /\ Clocked' = 0 /\ BytesHeard' = pos' /\ BitsHeard' /\ Awake'
      /\ UNCHANGED <<kind, up, port, x, clocked>>
  BY TransferHeard
<1>2. /\ mem' = mem \/ Storing
      /\ op \notin Writes => mem' = mem
      /\ pos \in Nat /\ pos < Total
  BY <1>1, AdvanceStores, TotalTyped
<1>3. /\ got' = IF ~Sending /\ ~AtStatus /\ outcome = "done"
                THEN [got EXCEPT ![pos - Sends(op)] = Expected(pos)] ELSE got
      /\ ret' = IF ~Sending /\ AtStatus /\ outcome = "done" THEN Expected(pos) ELSE ret
  <2>1. /\ got' = IF ~Sending /\ ~AtStatus /\ outcome = "done"
                  THEN [got EXCEPT ![pos - Sends(op)] = IF Awake THEN Answer ELSE Quiet] ELSE got
        /\ ret' = IF ~Sending /\ AtStatus /\ outcome = "done"
                  THEN IF Awake THEN Answer ELSE Quiet ELSE ret
    BY DEF Transfer
  <2>2. CASE Sending
    BY <2>1, <2>2
  <2>3. CASE ~Sending
    BY <1>1, <2>1, <2>3
  <2> QED
    BY <2>2, <2>3
<1>4. CASE ~Sending /\ AtStatus
  <2>1. pos = Total - 1 /\ got' = got
    BY <1>1, <1>3, <1>4, TotalTyped DEF AtStatus
  <2>2. args' = <<>> /\ owed' = <<>> /\ mem' = mem
    BY <1>1, <1>2, <2>1, AdvancedToEnd
  <2>3. CASE outcome = "done"
    <3>1. ret' = Ack
      BY <1>3, <1>4, <2>1, <2>3 DEF Expected
    <3>2. Return("ok")
      BY <1>1, <1>4, <2>3, <3>1 DEF Transfer, NextByte, GivesUp
    <3>3. op' = "none" /\ addr' = addr /\ told' = "ok"
      BY <3>2 DEF Return
    <3>4. Done
      BY <1>1, <2>1, <3>3, AllDone
    <3>5. Together'
      BY <1>1, <2>2, <3>3 DEF Together, NoCommand
    <3> QED
      BY <1>1, <1>2, <2>2, <3>3, <3>4, <3>5
  <2>4. CASE outcome # "done"
    <3>1. Return("failed") /\ calm' = -1
      BY <1>4, <2>4 DEF Transfer, GivesUp
    <3>2. op' = "none" /\ addr' = addr /\ told' = "failed"
      BY <3>1 DEF Return
    <3>3. Together'
      BY <1>1, <2>2, <3>2 DEF Together, NoCommand
    <3> QED
      BY <1>1, <1>2, <2>2, <3>1, <3>2, <3>3
  <2> QED
    BY <2>3, <2>4
<1>5. CASE ~(~Sending /\ AtStatus)
  <2>1. pos' = pos + 1 /\ UNCHANGED <<op, addr, data>> /\ told' = told
    <3>1. pos' = pos + 1 /\ UNCHANGED args4 /\ told' = told
      <4>1. CASE outcome = "done"
        BY <1>5, <4>1 DEF Transfer, GivesUp, NextByte
      <4>2. CASE outcome # "done"
        BY <1>1, <1>5, <4>2 DEF Transfer, GivesUp
      <4> QED
        BY <4>1, <4>2
    <3> QED
      BY <3>1 DEF args4
  <2>2. op' = op /\ addr' = addr /\ data' = data
    BY <2>1
  <2>3. BytesHeard' = pos + 1
    BY <1>1, <2>1
  <2>4. Parsed(BytesHeard)' /\ Stored(BytesHeard)'
    BY <1>1, <1>2, <2>2, <2>3, Advanced
  <2>5. Fetched'
    <3> SUFFICES ASSUME op \notin Writes, NEW s \in Slots, s < Count(op), Sends(op) + s < pos + 1
                 PROVE  got'[s] = mem[Where[addr]][s]
      BY <1>2, <2>1, <2>2 DEF Fetched, Sends, Count
    <3>1. s \in Nat /\ Sends(op) \in Nat /\ got \in [Slots -> Byte]
      BY <1>1, NumbersTyped, TotalTyped DEF TypeInv, TypeOK
    <3>2. CASE Sends(op) + s < pos
      <4>1. got[s] = mem[Where[addr]][s] /\ s # pos - Sends(op)
        BY <1>1, <1>2, <3>1, <3>2 DEF Fetched
      <4> QED
        BY <1>3, <3>1, <4>1
    <3>3. CASE Sends(op) + s = pos
      <4>1. ~Sending /\ ~AtStatus /\ s = pos - Sends(op) /\ pos # Total - 1 /\ outcome = "done"
        BY <1>1, <1>2, <1>5, <3>1, <3>3, TotalTyped DEF Sending, AtStatus
      <4>2. Expected(pos) = mem[Where[addr]][s]
        BY <4>1 DEF Expected
      <4> QED
        BY <1>3, <3>1, <4>1, <4>2
    <3> QED
      BY <1>2, <3>1, <3>2, <3>3
  <2>6. Shifting'
    BY <1>1, NumbersTyped DEF Shifting
  <2>7. NoCommand' = NoCommand
    BY <2>2 DEF NoCommand
  <2>8. Together'
    BY <1>1, <2>4, <2>5, <2>6, <2>7 DEF Together, CommandInStep
  <2>9. op \in Writes => got' = got
    BY <1>1, <1>3, AnswerSlot
  <2> QED
    BY <1>1, <1>2, <2>1, <2>8, <2>9
<1> QED
  BY <1>4, <1>5

----------------------------------------------------------------------------
(* The other steps, and the invariant. *)

LEMMA StepInit == Init => StepInv
BY DEF Init, StepInv

\* A reset that the board has seen whole leaves it without a bit or a byte.
LEMMA PulseStep ==
    ASSUME TypeInv, NEW opened \in Opened(kind), NEW lowered \in BOOLEAN, NEW raised \in BOOLEAN,
           PulseReset(opened, lowered, raised), kind' = kind
    PROVE  /\ raised => Awake'
           /\ slipped' = "no" =>
                 /\ Awake' /\ heard' = <<>> /\ args' = <<>> /\ owed' = <<>>
                 /\ kind # "usb" => Level(kind, port, "CLK")' = FALSE
<1> DEFINE low  == IF lowered THEN SetPin(kind, opened, "RESET", FALSE) ELSE opened
           high == IF raised THEN SetPin(kind, low, "RESET", TRUE) ELSE low
           fresh == ~Level(kind, low, "RESET")
<1>1. opened \in [Outputs(kind) -> BOOLEAN]
  BY DEF Opened, AnyLevel
<1>2. low \in [Outputs(kind) -> BOOLEAN]
  BY <1>1, PinsSet, KindTyped DEF TypeInv, PinNames
<1>3. /\ high \in [Outputs(kind) -> BOOLEAN]
      /\ raised => Level(kind, high, "RESET") = TRUE
  <2> HIDE DEF low
  <2> QED
    BY <1>2, PinsSet, KindTyped DEF TypeInv, PinNames
<1>4. Level(kind, high, "CLK") \in BOOLEAN /\ Level(kind, high, "RESET") \in BOOLEAN
  <2> HIDE DEF high
  <2> QED
    BY <1>3, LevelTyped, KindTyped DEF TypeInv, PinNames
<1>5. /\ port' = high
      /\ fresh => heard' = <<>> /\ args' = <<>> /\ owed' = <<>>
      /\ slipped' = "no" =>
            fresh /\ Level(kind, high, "RESET") /\ (kind # "usb" => ~Level(kind, high, "CLK"))
  BY DEF PulseReset
<1> HIDE DEF low, high, fresh
<1>6. Awake' = Level(kind, port', "RESET") /\ Level(kind, port, "CLK")' = Level(kind, port', "CLK")
  BY DEF Awake, Level
<1> QED
  BY <1>3, <1>4, <1>5, <1>6

LEMMA ConnectStep ==
    ASSUME TypeInv, Connect
    PROVE  /\ StepInv'
           /\ NoCommand /\ op' = "none" /\ told' = "none"
           /\ UNCHANGED <<mem, addr, data, got>>
<1>1. PICK opened \in Opened(kind), lowered \in BOOLEAN, raised \in BOOLEAN :
        PulseReset(opened, lowered, raised) /\ (kind # "usb" => raised)
  <2>1. CASE \E opened \in Opened(kind) : PulseReset(opened, TRUE, TRUE)
    BY <2>1
  <2>2. CASE kind = "usb"
    BY <2>2 DEF Connect
  <2> QED
    BY <2>1, <2>2 DEF Connect
<1>2. /\ NoCommand /\ op' = "none" /\ told' = "none" /\ kind' = kind
      /\ UNCHANGED <<op, addr, data, got, pos, x, clocked>> /\ mem' = mem
  BY <1>1 DEF Connect, PulseReset, NoCommand
<1>3. /\ raised => Awake'
      /\ slipped' = "no" =>
            /\ Awake' /\ heard' = <<>> /\ args' = <<>> /\ owed' = <<>>
            /\ kind # "usb" => Level(kind, port, "CLK")' = FALSE
  BY <1>1, <1>2, PulseStep
<1>4. Clocked' = 0 /\ clocked' = FALSE
  BY <1>2, ClockedTyped DEF Clocked, TypeInv, LoopInv
<1>5. ASSUME slipped' = "no" PROVE Together'
  <2>1. /\ Awake' /\ heard' = <<>> /\ args' = <<>> /\ owed' = <<>>
        /\ kind # "usb" => Level(kind, port, "CLK")' = clocked'
    BY <1>3, <1>4, <1>5
  <2>2. BitsHeard'
    BY <1>4, <2>1, NumbersTyped DEF BitsHeard
  <2> QED
    BY <1>2, <2>1, <2>2 DEF Together, NoCommand
<1>6. StepInv'
  BY <1>1, <1>2, <1>3, <1>5 DEF StepInv
<1> QED
  BY <1>2, <1>6

LEMMA CallStep ==
    ASSUME TypeInv, StepInv, NEW o \in Ops, NEW a \in Addrs, NEW d \in [Slots -> Byte],
           Call(o, a, d)
    PROVE  StepInv'
<1>1. /\ up /\ NoCommand /\ op' = o /\ addr' = a /\ data' = d /\ pos' = 0 /\ op' # "none"
      /\ UNCHANGED <<kind, up, port, x, clocked>>
      /\ UNCHANGED <<heard, args, owed, miso, mem>>
      /\ slipped' = "no" => slipped = "no"
  BY DEF Call, board, Ops
<1>2. Awake' = Awake /\ Level(kind, port, "CLK")' = Level(kind, port, "CLK")
  BY <1>1 DEF Awake, Level
<1>3. ASSUME slipped' = "no"
      PROVE  Together'
  <2>1. Together /\ args = <<>> /\ owed = <<>> /\ Clocked = 0
    BY <1>1, <1>3, ClockedTyped DEF StepInv, Together
  <2>2. Clocked' = 0 /\ BytesHeard' = 0
    BY <1>1, <2>1, NumbersTyped DEF Clocked, BytesHeard
  <2>3. Sends(op)' >= 3 /\ Sends(op)' \in Nat
    BY <1>1, CountsTyped, NumbersTyped
  <2>4. BitsHeard'
    BY <1>1, <2>1, <2>2, NumbersTyped DEF Together, BitsHeard
  <2>5. Parsed(BytesHeard)'
    BY <1>1, <2>1, <2>2, <2>3 DEF Parsed
  <2>6. Stored(BytesHeard)' /\ Fetched' /\ Shifting'
    BY <1>1, <2>2, <2>3, NumbersTyped DEF Stored, Fetched, Shifting
  <2> QED
    BY <1>1, <1>2, <2>1, <2>4, <2>5, <2>6 DEF Together, CommandInStep, NoCommand
<1> QED
  BY <1>1, <1>2, <1>3 DEF StepInv

\* A link of pins that is up stays out of its reset, in step or not.
LEMMA StaysAwake ==
    ASSUME TypeInv, StepInv, Running
    PROVE  up' /\ kind' # "usb" => Awake'
<1>1. ASSUME NEW missed \in BOOLEAN, ClockHigh(missed)
      PROVE  Awake'
  <2>1. /\ ~NoCommand /\ kind # "usb" /\ kind' = kind
        /\ port' = SetPin(kind, SetPin(kind, port, "MOSI", Outgoing[x]), "CLK", TRUE)
    BY <1>1 DEF ClockHigh, OnPins
  <2>2. Outgoing[x] \in BOOLEAN /\ Awake
    BY <2>1, OutgoingTyped, TotalTyped DEF TypeInv, TypeOK, Byte, StepInv
  <2>3. Level(kind, port', "RESET") = Level(kind, port, "RESET")
    BY <2>1, <2>2, PinsHigh, KindTyped DEF TypeInv, TypeOK
  <2> QED
    BY <2>1, <2>2, <2>3 DEF Awake, Level
<1>2. CASE ClockLow
  <2>1. /\ ~NoCommand /\ kind # "usb" /\ kind' = kind
        /\ port' = SetPin(kind, port, "CLK", FALSE)
    BY <1>2 DEF ClockLow, OnPins
  <2>2. Level(kind, port', "RESET") = Level(kind, port, "RESET") /\ Awake
    BY <2>1, LevelKept, KindTyped, TotalTyped DEF TypeInv, TypeOK, StepInv
  <2> QED
    BY <2>1, <2>2 DEF Awake, Level
<1>3. CASE Exit
  BY <1>3 DEF Exit
<1>4. ASSUME NEW outcome \in Outcomes, Transfer(outcome)
      PROVE  kind' = "usb"
  BY <1>4 DEF Transfer
<1> QED
  BY <1>1, <1>2, <1>3, <1>4 DEF Running

\* A link slips and only a new connection takes that back.
LEMMA StaysSlipped ==
    ASSUME TypeInv, Running, slipped' = "no"
    PROVE  slipped = "no"
<1>1. ASSUME NEW missed \in BOOLEAN, ClockHigh(missed)
      PROVE  slipped = "no"
  BY <1>1 DEF ClockHigh, Slip
<1>2. ASSUME NEW outcome \in Outcomes, Transfer(outcome)
      PROVE  slipped = "no"
  BY <1>2 DEF Transfer, Slip
<1>3. CASE ClockLow
  BY <1>3 DEF ClockLow
<1>4. CASE Exit
  BY <1>4 DEF Exit, history
<1> QED
  BY <1>1, <1>2, <1>3, <1>4 DEF Running

LEMMA StepNext == TypeInv /\ StepInv /\ [Next]_vars => StepInv'
<1> SUFFICES ASSUME TypeInv, StepInv, [Next]_vars PROVE StepInv'
  OBVIOUS
<1>1. CASE Connect
  BY <1>1, ConnectStep
<1>2. CASE Disconnect
  BY <1>2 DEF Disconnect, StepInv
<1>3. CASE Pull
  <2>1. slipped' # "no" /\ up' = up /\ kind' = kind /\ port' = port
    BY <1>3 DEF Pull, Slip
  <2> QED
    BY <2>1 DEF StepInv, Awake, Level
<1>4. ASSUME NEW o \in Ops, NEW a \in Addrs,
             NEW d \in IF o \in Writes THEN Blanks(o) ELSE {Blank}, Call(o, a, d)
      PROVE  StepInv'
  BY <1>4, DataTyped, CallStep DEF TypeInv
<1>5. CASE Running
  <2>1. ASSUME up', slipped' = "no" PROVE Together'
    <3>1. slipped = "no"
      BY <1>5, <2>1, StaysSlipped
    <3>2. CASE Exit
      BY <2>1, <3>2 DEF Exit
    <3> QED
      BY <1>5, <2>1, <3>1, <3>2, ClockHighStep, ClockLowStep, TransferStep DEF Running
  <2> QED
    BY <1>5, <2>1, StaysAwake DEF StepInv
<1>6. CASE UNCHANGED vars
  <2>1. /\ UNCHANGED <<kind, up, port, op, addr, data, got, ret, pos, x, clocked>>
        /\ UNCHANGED <<heard, args, owed, miso, mem>> /\ slipped' = slipped
    BY <1>6 DEF vars, host, board, history
  <2> QED
    BY <2>1 DEF StepInv, Together, CommandInStep, Awake, Level, BitsHeard, Parsed, Stored,
                Fetched, Shifting, Current, Expected, Total, Clocked, BytesHeard, NoCommand,
                Outgoing, Sending, AtStatus, Sent, Sends, Answers, Count
<1> QED
  BY <1>1, <1>2, <1>3, <1>4, <1>5, <1>6 DEF Next

LEMMA StepAlways == Spec => [](TypeInv /\ StepInv)
<1>1. Init => TypeInv /\ StepInv
  BY TypesInit, StepInit
<1>2. TypeInv /\ StepInv /\ [Next]_vars => (TypeInv /\ StepInv)'
  BY TypesNext, StepNext
<1> QED
  BY <1>1, <1>2, PTL DEF Spec

\* What is left of a number of bits beyond whole bytes.
LEMMA BitsLeft ==
    ASSUME NEW n \in Nat, n <= Width
    PROVE  n % Width = IF n = Width THEN 0 ELSE n
BY NumbersTyped

\* Until a fault takes them out of step the two ends agree on the bits and bytes
\* of the command: the board is out of its reset, has what was clocked, and owes
\* what the command is still going to ask for.
THEOREM LinkInStep == Spec => []InStep
<1>1. ASSUME TypeInv, StepInv PROVE InStep
  <2>1. up /\ kind # "usb" => Awake
    BY <1>1 DEF StepInv
  <2>2. ASSUME up, slipped = "no"
        PROVE  /\ Len(heard) = Clocked % Width
               /\ IF NoCommand \/ BytesHeard >= Sends(op)
                  THEN args = <<>>
                  ELSE args = [n \in 1..BytesHeard |-> Sent(n - 1)]
               /\ Len(owed) = IF NoCommand \/ BytesHeard < Sends(op) THEN 0
                              ELSE Sends(op) + Answers(op) - BytesHeard
    <3>1. Together
      BY <1>1, <2>2 DEF StepInv
    <3>2. Len(heard) = Clocked % Width
      BY <1>1, <3>1, ClockedTyped, BitsLeft DEF Together, BitsHeard
    <3>3. CASE NoCommand
      BY <3>1, <3>2, <3>3 DEF Together
    <3>4. CASE ~NoCommand
      <4>1. /\ Parsed(BytesHeard) /\ BytesHeard \in Nat /\ Sends(op) \in Nat
            /\ args \in Seq(Byte)
        BY <1>1, <3>1, <3>4, ClockedTyped, TotalTyped DEF Together, CommandInStep, TypeInv, TypeOK
      <4>2. CASE BytesHeard < Sends(op)
        <5>1. /\ Len(args) = BytesHeard /\ \A n \in 1..BytesHeard : args[n] = Sent(n - 1)
              /\ owed = <<>>
          BY <4>1, <4>2 DEF Parsed
        <5>2. args = [n \in 1..BytesHeard |-> args[n]]
          BY <4>1, <5>1, LenProperties
        <5>3. args = [n \in 1..BytesHeard |-> Sent(n - 1)]
          BY <5>1, <5>2
        <5> QED
          BY <3>2, <3>4, <4>1, <4>2, <5>1, <5>3
      <4>3. CASE ~(BytesHeard < Sends(op))
        <5>1. args = <<>> /\ Len(owed) = Total - BytesHeard
          BY <4>1, <4>3 DEF Parsed
        <5>2. Len(owed) = Sends(op) + Answers(op) - BytesHeard
          BY <1>1, <3>4, <4>1, <5>1, TotalTyped
        <5>3. BytesHeard >= Sends(op)
          BY <4>1, <4>3
        <5> QED
          BY <3>2, <3>4, <4>3, <5>1, <5>2, <5>3
      <4> QED
        BY <4>2, <4>3
    <3> QED
      BY <3>3, <3>4
  <2> QED
    BY <2>1, <2>2 DEF InStep
<1> QED
  BY <1>1, StepAlways, PTL

\* A command fails only when something was lost.
THEOREM LinkWorks == Spec => Works
<1>1. ASSUME TypeInv, StepInv, [Next]_vars,
             op # "none", op' = "none", up', slipped' = "no", calm' # -1
      PROVE  told' = "ok"
  <2>1. Running
    <3>1. ~Connect /\ ~Disconnect /\ \A o, a, d : ~Call(o, a, d)
      BY <1>1 DEF Connect, Disconnect, Call, NoCommand
    <3>2. ~Pull /\ ~UNCHANGED vars
      BY <1>1 DEF Pull, vars, host
    <3> QED
      BY <1>1, <3>1, <3>2 DEF Next
  <2>2. slipped = "no"
    BY <1>1, <2>1, StaysSlipped
  <2>3. ASSUME NEW missed \in BOOLEAN, ClockHigh(missed) PROVE FALSE
    BY <1>1, <2>3 DEF ClockHigh, args4
  <2>4. CASE ClockLow
    BY <1>1, <2>2, <2>4, ClockLowStep DEF Done
  <2>5. CASE Exit
    BY <1>1, <2>5 DEF Exit
  <2>6. ASSUME NEW outcome \in Outcomes, Transfer(outcome) PROVE told' = "ok"
    BY <1>1, <2>2, <2>6, TransferStep DEF Done
  <2> QED
    BY <2>1, <2>3, <2>4, <2>5, <2>6 DEF Running
<1>2. TypeInv /\ StepInv /\ [Next]_vars =>
         [op # "none" /\ op' = "none" /\ up' /\ slipped' = "no" /\ calm' # -1 => told' = "ok"]_vars
  BY <1>1
<1> QED
  BY <1>2, StepAlways, PTL DEF Spec, Works

----------------------------------------------------------------------------
(* Each step is one of Commands. *)

Trust == up /\ slipped = "no"

LEMMA UsedSlots ==
    ASSUME NEW o \in Ops
    PROVE  Promise!Used(o) = {s \in Slots : s < Count(o)}
BY NumbersTyped DEF Promise!Used, Count, Ops

LEMMA PromiseSteps ==
    ASSUME TypeInv, TypeInv', ~NoCommand, Trust, addr' = addr
    PROVE  /\ Trust' /\ Storing /\ UNCHANGED <<op, data, got, told>> => Promise!Next
           /\ Trust' /\ mem' = mem /\ UNCHANGED <<op, data, told>> /\ op \notin Writes => Promise!Next
           /\ Trust' /\ mem' = mem /\ op' = "none" /\ Done => Promise!Next
           /\ Trust' /\ mem' = mem /\ op' = "none" /\ told' = "failed" => Promise!Next
           /\ ~Trust' /\ mem' = mem /\ UNCHANGED <<op, data, told>> => Promise!Next
           /\ ~Trust' /\ mem' = mem /\ op' = "none" /\ told' = "failed" => Promise!Next
<1>1. /\ op \in Ops /\ op # "none" /\ got' \in [Slots -> Byte] /\ data' \in [Slots -> Byte]
      /\ mem \in [Cells -> [Slots -> Byte]] /\ Where[addr] \in Cells
  BY TotalTyped DEF TypeInv, TypeOK, NoCommand
<1>2. ASSUME Trust', Storing, UNCHANGED <<op, data, got, told>> PROVE Promise!Next
  <2>1. PICK s \in Slots :
          /\ s < Count(op)
          /\ mem' = [mem EXCEPT ![Where[addr]] = [@ EXCEPT ![s] = data[s]]]
    BY <1>2 DEF Storing
  <2>2. s \in Promise!Used(op)
    BY <1>1, <2>1, UsedSlots
  <2>3. mem' = [mem EXCEPT ![Where[addr]][s] = data[s]]
    BY <2>1
  <2>4. Promise!Store
    BY <1>2, <2>2, <2>3 DEF Promise!Store, Promise!Writes, Storing, Writes, Trust
  <2> QED
    BY <2>4 DEF Promise!Next
<1>3. ASSUME Trust', mem' = mem, UNCHANGED <<op, data, told>>, op \notin Writes PROVE Promise!Next
  <2>1. Promise!Receive
    BY <1>1, <1>3 DEF Promise!Receive, Promise!Ops, Promise!Writes, Ops, Writes, Trust
  <2> QED
    BY <2>1 DEF Promise!Next
<1>4. ASSUME Trust', mem' = mem, op' = "none", Done PROVE Promise!Next
  <2>1. \A s \in Promise!Used(op) :
           mem[Where[addr]][s] = IF op \in Promise!Writes THEN data[s] ELSE got'[s]
    BY <1>1, <1>4, UsedSlots DEF Done, Promise!Writes, Writes
  <2>2. Promise!Succeed
    BY <1>1, <1>4, <2>1 DEF Promise!Succeed, Promise!Return, Done, Trust
  <2> QED
    BY <2>2 DEF Promise!Next
<1>5. ASSUME Trust', mem' = mem, op' = "none", told' = "failed" PROVE Promise!Next
  <2>1. Promise!Fail
    BY <1>1, <1>5 DEF Promise!Fail, Promise!Return, Trust
  <2> QED
    BY <2>1 DEF Promise!Next
<1>6. ASSUME ~Trust', mem' = mem, UNCHANGED <<op, data, told>> PROVE Promise!Next
  <2>1. Promise!Lose
    BY <1>1, <1>6 DEF Promise!Lose, Trust
  <2> QED
    BY <2>1 DEF Promise!Next
<1>7. ASSUME ~Trust', mem' = mem, op' = "none", told' = "failed" PROVE Promise!Next
  <2>1. Promise!Lose
    BY <1>1, <1>7 DEF Promise!Lose, Promise!Return, Trust
  <2> QED
    BY <2>1 DEF Promise!Next
<1> QED
  BY <1>2, <1>3, <1>4, <1>5, <1>6, <1>7

\* Out of step, a connection does not come back into it by a command.
LEMMA StrayStep ==
    ASSUME TypeInv, Running, ~Trust
    PROVE  Promise!Next
<1>1. up
  BY TotalTyped DEF Running, ClockHigh, ClockLow, Exit, Transfer, OnPins
<1>2. ~Trust'
  BY <1>1, StaysSlipped DEF Trust
<1> QED
  BY <1>2 DEF Promise!Next, Promise!Stray, Trust

LEMMA ClockHighPromised ==
    ASSUME TypeInv, TypeInv', StepInv, Trust, NEW missed \in BOOLEAN, ClockHigh(missed)
    PROVE  Promise!Next \/ UNCHANGED Promise!vars
<1>1. /\ ~NoCommand /\ UNCHANGED <<op, addr, data>> /\ told' = told /\ up' = up
      /\ slipped = "no" /\ ~pulled
  BY DEF ClockHigh, OnPins, args4, Trust, TypeInv, LoopInv
<1>2. op \in Writes => got' = got
  BY <1>1, AnswerSlot DEF ClockHigh, Store
<1>3. CASE missed
  <2>1. ~Trust' /\ mem' = mem
    BY <1>1, <1>3 DEF ClockHigh, board, Slip, Trust
  <2> QED
    BY <1>1, <2>1, PromiseSteps
<1>4. CASE ~missed
  <2>1. slipped' = "no" /\ Trust'
    BY <1>1, <1>4 DEF ClockHigh, Trust
  <2>2. /\ mem' = mem \/ Storing
        /\ op \notin Writes => mem' = mem
    BY <1>1, <2>1, ClockHighStep
  <2>3. CASE op \notin Writes
    BY <1>1, <2>1, <2>2, <2>3, PromiseSteps
  <2>4. CASE op \in Writes /\ Storing
    BY <1>1, <1>2, <2>1, <2>4, PromiseSteps
  <2>5. CASE op \in Writes /\ mem' = mem
    BY <1>1, <1>2, <2>1, <2>5 DEF Promise!vars, Trust
  <2> QED
    BY <2>2, <2>3, <2>4, <2>5
<1> QED
  BY <1>3, <1>4

LEMMA ClockLowPromised ==
    ASSUME TypeInv, TypeInv', StepInv, Trust, ClockLow
    PROVE  Promise!Next \/ UNCHANGED Promise!vars
<1>1. /\ slipped = "no" /\ ~NoCommand
  BY DEF Trust, ClockLow, OnPins
<1>2. /\ mem' = mem /\ UNCHANGED <<kind, up, slipped>>
      /\ \/ UNCHANGED <<op, addr, data, got, told>>
         \/ op' = "none" /\ addr' = addr /\ Done
  BY <1>1, ClockLowStep
<1>3. Trust' = Trust
  BY <1>2 DEF Trust
<1>4. CASE UNCHANGED <<op, addr, data, got, told>>
  BY <1>2, <1>3, <1>4 DEF Promise!vars, Trust
<1>5. CASE op' = "none" /\ addr' = addr /\ Done
  BY <1>1, <1>2, <1>3, <1>5, PromiseSteps
<1> QED
  BY <1>2, <1>4, <1>5

LEMMA TransferPromised ==
    ASSUME TypeInv, TypeInv', StepInv, Trust, NEW outcome \in Outcomes, Transfer(outcome)
    PROVE  Promise!Next \/ UNCHANGED Promise!vars
<1>1. ~NoCommand /\ kind = "usb" /\ up' = up /\ up /\ slipped = "no"
  BY DEF Transfer, Trust
<1>2. CASE slipped' = "no"
  <2>1. Trust'
    BY <1>1, <1>2 DEF Trust
  <2>2. /\ addr' = addr
        /\ mem' = mem \/ Storing
        /\ op \notin Writes => mem' = mem
        /\ \/ UNCHANGED <<op, data, told>> /\ (op \in Writes => got' = got)
           \/ op' = "none" /\ mem' = mem /\ Done
           \/ op' = "none" /\ mem' = mem /\ told' = "failed" /\ calm' = -1
    BY <1>1, <1>2, TransferStep
  <2>3. CASE UNCHANGED <<op, data, told>> /\ op \notin Writes
    BY <1>1, <2>1, <2>2, <2>3, PromiseSteps
  <2>4. CASE UNCHANGED <<op, data, told>> /\ op \in Writes /\ got' = got /\ Storing
    BY <1>1, <2>1, <2>2, <2>4, PromiseSteps
  <2>5. CASE UNCHANGED <<op, data, told>> /\ op \in Writes /\ got' = got /\ mem' = mem
    BY <1>1, <2>1, <2>2, <2>5, <1>2 DEF Promise!vars, Trust
  <2>6. CASE op' = "none" /\ mem' = mem /\ Done
    BY <1>1, <2>1, <2>2, <2>6, PromiseSteps
  <2>7. CASE op' = "none" /\ mem' = mem /\ told' = "failed"
    BY <1>1, <2>1, <2>2, <2>7, PromiseSteps
  <2> QED
    BY <2>2, <2>3, <2>4, <2>5, <2>6, <2>7
<1>3. CASE slipped' # "no"
  <2>1. Slips(outcome) /\ ~Trust' /\ outcome # "done"
    BY <1>1, <1>3 DEF Transfer, Trust, Slips
  <2>2. mem' = mem
    <3>1. CASE outcome = "unheard"
      BY <3>1 DEF Transfer, board
    <3>2. CASE outcome = "unanswered"
      <4>1. ~Sending
        BY <2>1, <3>2 DEF Slips
      <4>2. Together /\ BytesHeard = pos
        BY <1>1, ClockedTyped DEF StepInv
      <4>3. Len(owed) = Total - pos /\ pos < Total /\ Total \in Nat /\ pos \in Nat
        BY <1>1, <4>1, <4>2, TotalTyped DEF Together, CommandInStep, Parsed, Sending
      <4>4. owed # <<>>
        BY <4>3
      <4> QED
        BY <3>2, <4>4 DEF Transfer, Hear, board
    <3> QED
      BY <2>1, <3>1, <3>2 DEF Outcomes
  <2>3. CASE GivesUp(outcome)
    <3>1. op' = "none" /\ addr' = addr /\ told' = "failed"
      BY <2>3 DEF Transfer, Return
    <3> QED
      BY <1>1, <2>1, <2>2, <3>1, PromiseSteps
  <2>4. CASE ~GivesUp(outcome)
    <3>1. UNCHANGED <<op, addr, data>> /\ told' = told
      BY <2>1, <2>4 DEF Transfer, args4
    <3> QED
      BY <1>1, <2>1, <2>2, <3>1, PromiseSteps
  <2> QED
    BY <2>3, <2>4
<1> QED
  BY <1>2, <1>3

LEMMA PromiseNext ==
    ASSUME TypeInv, TypeInv', StepInv, [Next]_vars
    PROVE  Promise!Next \/ UNCHANGED Promise!vars
<1>1. CASE Connect
  <2>1. /\ op = "none" /\ op' = "none" /\ told' = "none"
        /\ UNCHANGED <<mem, addr, data, got>>
    BY <1>1, ConnectStep DEF NoCommand
  <2>2. Promise!Renew
    BY <2>1 DEF Promise!Renew, TypeInv, TypeOK
  <2> QED
    BY <2>2 DEF Promise!Next
<1>2. CASE Disconnect
  <2>1. Promise!Renew
    BY <1>2 DEF Promise!Renew, Disconnect, NoCommand, board, TypeInv, TypeOK
  <2> QED
    BY <2>1 DEF Promise!Next
<1>3. CASE Pull
  <2>1. /\ slipped' # "no" /\ UNCHANGED <<op, addr, data, got, told>> /\ mem' = mem
    BY <1>3 DEF Pull, Slip, board
  <2>2. CASE Trust
    <3>1. Promise!Lose
      BY <2>1, <2>2 DEF Promise!Lose, Trust, TypeInv, TypeOK
    <3> QED
      BY <3>1 DEF Promise!Next
  <2>3. CASE ~Trust
    <3>1. Promise!Stray
      BY <2>1, <2>3 DEF Promise!Stray, Trust
    <3> QED
      BY <3>1 DEF Promise!Next
  <2> QED
    BY <2>2, <2>3
<1>4. ASSUME NEW o \in Ops, NEW a \in Addrs,
             NEW d \in IF o \in Writes THEN Blanks(o) ELSE {Blank}, Call(o, a, d)
      PROVE  Promise!Next
  <2>1. /\ op = "none" /\ op' \in Ops /\ addr' \in Addrs /\ data' \in [Slots -> Byte]
        /\ got' \in [Slots -> Byte] /\ told' = "none" /\ mem' = mem /\ up' = up
        /\ (slipped' = "no") = (slipped = "no")
    BY <1>4 DEF Call, NoCommand, board, TypeInv, TypeOK
  <2>2. Promise!Call
    BY <2>1 DEF Promise!Call, Promise!Ops, Ops
  <2> QED
    BY <2>2 DEF Promise!Next
<1>5. CASE Running
  <2>1. CASE ~Trust
    BY <1>5, <2>1, StrayStep
  <2>2. CASE Trust
    <3>1. ~Exit
      BY <2>2 DEF Exit, Trust, TypeInv, LoopInv
    <3> QED
      BY <1>5, <2>2, <3>1, ClockHighPromised, ClockLowPromised, TransferPromised DEF Running
  <2> QED
    BY <2>1, <2>2
<1>6. CASE UNCHANGED vars
  BY <1>6 DEF vars, host, board, history, Promise!vars
<1> QED
  BY <1>1, <1>2, <1>3, <1>4, <1>5, <1>6 DEF Next

\* The link down to its pins implements Commands: from a connection whose reset
\* went through until something is lost, a command that returns true has been
\* done and one that returns false has stored nothing but its own bytes.
THEOREM LinkPromised == Spec => Promised
<1>1. Init => Promise!Init
  <2> SUFFICES ASSUME Init PROVE Promise!Init
    OBVIOUS
  <2>1. TypeInv
    BY TypesInit
  <2>2. op = "none" /\ told = "none" /\ ~up
    BY DEF Init
  <2> QED
    BY <2>1, <2>2 DEF Promise!Init, TypeInv, TypeOK
<1>2. TypeInv /\ TypeInv' /\ StepInv /\ [Next]_vars => [Promise!Next]_(Promise!vars)
  BY PromiseNext
<1> QED
  BY <1>1, <1>2, StepAlways, PTL DEF Spec, Promised, Promise!Spec

============================================================================
