--------------------------- MODULE SpiSlipProofs ---------------------------
(***************************************************************************)
(* SpiLink over USB once a transfer was lost: the status tells of it, and  *)
(* reads bring the two ends back into step.                                *)
(***************************************************************************)
EXTENDS SpiStepProofs

----------------------------------------------------------------------------
(* The board behind the program.  From a lost transfer to the end of the   *)
(* command it has missed its beginning, or has too few of its bytes, or    *)
(* answers too late.                                                       *)

Plain == \A s \in Slots : data[s] \notin Codes

LaggingAt(p) ==
    \/ args = <<>> /\ owed = <<>> /\ p >= 1
    \/ /\ args # <<>> /\ owed = <<>> /\ args[1] = Code[op]
       /\ Len(args) < p /\ Len(args) < Sends(op)
    \/ args = <<>> /\ owed # <<>> /\ op \notin Writes /\ Len(owed) > Total - p

\* All but the last byte of an answer are bytes of the memory.
OwedFromMem ==
    \A n \in 1..(Len(owed) - 1) : \E c \in Cells, s \in Slots : owed[n] = mem[c][s]

SlipInv ==
    kind = "usb" =>
       /\ OwedFromMem
       /\ ~NoCommand /\ slipped = "now" /\ Plain => Awake /\ LaggingAt(pos)

LEMMA HearOwed ==
    ASSUME BoardTyped, BoardInv, OwedFromMem, NEW b \in Byte, Hear(b)
    PROVE  OwedFromMem'
<1>1. CASE /\ owed # <<>> /\ args = <<>>
           /\ owed' = Tail(owed) /\ UNCHANGED <<args, mem>>
  <2>1. /\ owed' \in Seq(Byte) /\ Len(owed') = Len(owed) - 1 /\ Len(owed) \in Nat
        /\ \A n \in 1..Len(owed') : owed'[n] = owed[n + 1]
    BY <1>1, HeadTailProperties, LenProperties DEF BoardTyped
  <2> SUFFICES ASSUME NEW n \in 1..(Len(owed') - 1)
               PROVE  \E c \in Cells, s \in Slots : owed'[n] = mem'[c][s]
    BY DEF OwedFromMem
  <2>2. n + 1 \in 1..(Len(owed) - 1) /\ n \in 1..Len(owed')
    BY <2>1
  <2> QED
    BY <1>1, <2>1, <2>2 DEF OwedFromMem
<1>2. CASE owed' = <<>>
  BY <1>2 DEF OwedFromMem
<1>3. CASE UNCHANGED <<args, owed, mem>>
  BY <1>3 DEF OwedFromMem
<1>4. ASSUME NEW o \in Ops, NEW cell \in Cells,
             owed = <<>>, Len(args) \in 2..(Sends(o) - 1),
             args # <<>>, o = OpOf(args[1]),
             mem' = IF Len(args) >= 3
                    THEN [mem EXCEPT ![cell] = [@ EXCEPT ![Len(args) - 3] = b]] ELSE mem,
             IF Len(args) + 1 < Sends(o)
             THEN args' = Append(args, b) /\ UNCHANGED owed
             ELSE /\ args' = <<>>
                  /\ owed' = [n \in 1..Answers(o) |->
                                IF n = Answers(o) THEN Ack ELSE mem[cell][n - 1]]
      PROVE  OwedFromMem'
  <2>1. /\ Sends(o) \in Nat /\ Answers(o) \in Nat /\ Answers(o) <= Chunk + 1
        /\ o \in Writes => Answers(o) = 1
        /\ o \notin Writes => Sends(o) = 3
    BY CountsTyped, NumbersTyped
  <2>2. CASE Len(args) + 1 < Sends(o)
    BY <1>2, <1>4, <2>2
  <2>3. CASE ~(Len(args) + 1 < Sends(o))
    <3>1. owed' = [n \in 1..Answers(o) |->
                     IF n = Answers(o) THEN Ack ELSE mem[cell][n - 1]]
      BY <1>4, <2>3
    <3>2. Len(owed') = Answers(o)
      BY <2>1, <3>1
    <3> SUFFICES ASSUME NEW n \in 1..(Len(owed') - 1)
                 PROVE  \E c \in Cells, s \in Slots : owed'[n] = mem'[c][s]
      BY DEF OwedFromMem
    <3>3. o \notin Writes /\ Len(args) = 2
      <4>1. Answers(o) # 1
        BY <2>1, <3>2
      <4>2. o \notin Writes /\ Sends(o) = 3
        BY <2>1, <4>1
      <4> QED
        BY <1>4, <4>2
    <3>4. mem' = mem
      BY <1>4, <3>3
    <3>5. n - 1 \in Slots /\ owed'[n] = mem[cell][n - 1]
      BY <2>1, <3>1, <3>2, NumbersTyped
    <3> QED
      BY <3>4, <3>5
  <2> QED
    BY <2>2, <2>3
<1>5. CASE owed = <<>> /\ UNCHANGED <<owed, mem>>
  BY <1>5, <1>2
<1> QED
  BY <1>1, <1>3, <1>4, <1>5, HearKinds

\* What is sent after the code, and what is clocked out for an answer, is no
\* code: a board that waits for a command goes on waiting.
LEMMA NoCodeSent ==
    ASSUME TypeInv, ~NoCommand, Plain \/ op \notin Writes, pos >= 1
    PROVE  Outgoing \notin Codes
<1>1. /\ addr \in Addrs /\ pos \in Nat /\ Sends(op) \in Nat
      /\ op \in Writes => Sends(op) = 3 + Count(op)
      /\ op \notin Writes => Sends(op) = 3
      /\ Count(op) \in Nat /\ Count(op) <= Chunk
  BY TotalTyped
<1>2. CASE ~Sending
  BY <1>2, BytesTyped DEF Outgoing
<1>3. CASE Sending /\ pos < 3
  <2>1. Outgoing = addr[pos] /\ pos \in {1, 2}
    BY <1>1, <1>3 DEF Outgoing, Sent
  <2> QED
    BY <1>1, <2>1, AddressBytes
<1>4. CASE Sending /\ pos >= 3
  <2>1. op \in Writes /\ pos - 3 \in Slots
    BY <1>1, <1>4, NumbersTyped DEF Sending
  <2>2. Outgoing = data[pos - 3]
    BY <1>1, <1>4 DEF Outgoing, Sent
  <2> QED
    BY <2>1, <2>2 DEF Plain
<1> QED
  BY <1>1, <1>2, <1>3, <1>4

LEMMA HearLate ==
    ASSUME TypeInv, ~NoCommand, Plain, NEW p \in Nat, p = pos, p < Total - 1, LaggingAt(p),
           Hear(Outgoing), op' = op
    PROVE  LaggingAt(p + 1)'
<1>1. /\ BoardTyped /\ BoardInv /\ Outgoing \in Byte
      /\ args \in Seq(Byte) /\ owed \in Seq(Byte) /\ Len(args) \in Nat /\ Len(owed) \in Nat
  BY OutgoingTyped, LenProperties DEF TypeInv, TypeOK, BoardTyped
<1>2. /\ op \in Ops /\ Sends(op) \in Nat /\ Sends(op) >= 3 /\ Answers(op) \in Nat
      /\ Answers(op) >= 1 /\ Total = Sends(op) + Answers(op)
      /\ op \in Writes => Answers(op) = 1
      /\ Total' = Total /\ Sends(op)' = Sends(op)
  BY TotalTyped DEF Total, Sends, Answers, Count
<1>3. CASE args = <<>> /\ owed = <<>> /\ p >= 1
  <2>1. Outgoing \notin Codes
    BY <1>3, NoCodeSent
  <2>2. UNCHANGED <<args, owed, mem>>
    BY <1>3, <2>1 DEF Hear
  <2> QED
    BY <1>3, <2>2 DEF LaggingAt
<1>4. CASE /\ args # <<>> /\ owed = <<>> /\ args[1] = Code[op]
           /\ Len(args) < p /\ Len(args) < Sends(op)
  <2> DEFINE a == Append(args, Outgoing)
             answer == [n \in 1..Answers(op) |->
                          IF n = Answers(op) THEN Ack ELSE mem[Where[<<a[2], a[3]>>]][n - 1]]
  <2>1. a # <<>> /\ a[1] = args[1] /\ Len(a) = Len(args) + 1
    BY <1>1, <1>4, AppendProperties
  <2>2. OpOf(a[1]) = op
    BY <1>2, <1>4, <2>1, CodeFound
  <2>3. \/ args' = a /\ owed' = owed /\ (Len(a) < 3 \/ Len(a) < Sends(op))
        \/ args' = <<>> /\ owed' = answer /\ ~(Len(a) < Sends(op))
    <3>1. IF Len(a) < 3
          THEN args' = a /\ owed' = owed
          ELSE IF Len(a) < Sends(OpOf(a[1]))
               THEN args' = a /\ owed' = owed
               ELSE /\ args' = <<>>
                    /\ owed' = [n \in 1..Answers(OpOf(a[1])) |->
                                  IF n = Answers(OpOf(a[1])) THEN Ack
                                  ELSE mem[Where[<<a[2], a[3]>>]][n - 1]]
      BY <1>4 DEF Hear
    <3> HIDE DEF a
    <3> QED
      BY <2>2, <3>1
  <2>4. CASE args' = a /\ owed' = owed /\ (Len(a) < 3 \/ Len(a) < Sends(op))
    <3> HIDE DEF a
    <3> QED
      BY <1>1, <1>2, <1>4, <2>1, <2>4 DEF LaggingAt
  <2>5. CASE args' = <<>> /\ owed' = answer /\ ~(Len(a) < Sends(op))
    <3>1. p >= Sends(op) /\ op \notin Writes
      BY <1>1, <1>2, <1>4, <2>1, <2>5
    <3>2. Len(owed') = Answers(op) /\ owed' # <<>>
      BY <1>2, <2>5
    <3>3. Len(owed') > Total' - (p + 1)
      BY <1>2, <3>1, <3>2
    <3> QED
      BY <1>2, <2>5, <3>1, <3>2, <3>3 DEF LaggingAt
  <2> QED
    BY <2>3, <2>4, <2>5
<1>5. CASE args = <<>> /\ owed # <<>> /\ op \notin Writes /\ Len(owed) > Total - p
  <2>1. args' = <<>> /\ owed' = Tail(owed)
    BY <1>5 DEF Hear
  <2>2. Len(owed') = Len(owed) - 1
    BY <1>1, <1>5, <2>1, HeadTailProperties
  <2>3. Len(owed') > Total' - (p + 1) /\ Len(owed') > 0
    BY <1>1, <1>2, <1>5, <2>2
  <2> QED
    BY <1>5, <2>1, <2>3 DEF LaggingAt
<1> QED
  BY <1>3, <1>4, <1>5 DEF LaggingAt

\* At the end of the command the board does not show the status.
LEMMA StatusTells ==
    ASSUME TypeInv, ~NoCommand, OwedFromMem, LaggingAt(pos), AtStatus, Telling
    PROVE  Answer # Ack
<1>1. CASE owed = <<>>
  BY <1>1, BytesTyped DEF Answer
<1>2. CASE owed # <<>>
  <2>1. Len(owed) > Total - pos /\ pos = Total - 1 /\ Total \in Nat /\ owed \in Seq(Byte)
    BY <1>2, TotalTyped DEF LaggingAt, AtStatus, TypeInv, TypeOK
  <2>2. Len(owed) \in Nat /\ 1 \in 1..(Len(owed) - 1)
    BY <2>1, LenProperties
  <2>3. PICK c \in Cells, s \in Slots : owed[1] = mem[c][s]
    BY <2>2 DEF OwedFromMem
  <2> QED
    BY <1>2, <2>1, <2>3, HeadTailProperties DEF Answer, Telling
<1> QED
  BY <1>1, <1>2

\* What a transfer does to the board, and to the command.
LEMMA TransferCases ==
    ASSUME TypeInv, NEW outcome \in Outcomes, Transfer(outcome)
    PROVE  /\ ~NoCommand /\ kind = "usb" /\ Awake' = Awake
           /\ UNCHANGED <<kind, up, x, clocked>>
           /\ \/ Awake /\ outcome # "unheard" /\ Hear(Outgoing)
              \/ ~(Awake /\ outcome # "unheard") /\ UNCHANGED <<args, owed, mem>>
           /\ slipped' = IF Slips(outcome) THEN Slip ELSE slipped
           /\ \/ /\ ~(~Sending /\ AtStatus) /\ (outcome # "done" => Sending)
                 /\ pos' = pos + 1 /\ UNCHANGED <<op, addr, data, told>>
                 /\ pos < Total - 1
                 /\ calm' = IF outcome = "done" THEN calm ELSE -1
              \/ /\ op' = "none" /\ told' = "failed" /\ calm' = -1
                 /\ outcome # "done" /\ ~Sending
              \/ /\ op' = "none" /\ outcome = "done" /\ ~Sending /\ AtStatus
                 /\ ret' = IF Awake THEN Answer ELSE Quiet
                 /\ told' = IF ret' = Ack THEN "ok" ELSE "failed"
                 /\ CalmAfter
<1>1. /\ ~NoCommand /\ kind = "usb" /\ UNCHANGED <<kind, up, port, x, clocked>>
      /\ slipped' = IF Slips(outcome) THEN Slip ELSE slipped
      /\ \/ Awake /\ outcome # "unheard" /\ Hear(Outgoing)
         \/ ~(Awake /\ outcome # "unheard") /\ UNCHANGED <<args, owed, mem>>
  BY DEF Transfer, board
<1>2. Awake' = Awake
  BY <1>1 DEF Awake, Level
<1>3. CASE ~(~Sending /\ AtStatus) /\ (outcome # "done" => Sending)
  <2>1. /\ pos' = pos + 1 /\ UNCHANGED <<args4, told>>
        /\ calm' = IF outcome = "done" THEN calm ELSE -1
    <3>1. CASE outcome = "done"
      BY <1>3, <3>1 DEF Transfer, GivesUp, NextByte
    <3>2. CASE outcome # "done"
      BY <1>3, <3>2 DEF Transfer, GivesUp
    <3> QED
      BY <3>1, <3>2
  <2>2. pos < Total - 1
    BY <1>1, <1>3, TotalTyped DEF Sending, AtStatus
  <2> QED
    BY <1>1, <1>2, <1>3, <2>1, <2>2 DEF args4
<1>4. CASE outcome # "done" /\ ~Sending
  <2>1. op' = "none" /\ told' = "failed" /\ calm' = -1
    BY <1>4 DEF Transfer, GivesUp, Return
  <2> QED
    BY <1>1, <1>2, <1>4, <2>1
<1>5. CASE outcome = "done" /\ ~Sending /\ AtStatus
  <2>1. Return(IF ret' = Ack THEN "ok" ELSE "failed") /\ CalmAfter
    BY <1>5 DEF Transfer, GivesUp, NextByte
  <2>2. ret' = IF Awake THEN Answer ELSE Quiet
    BY <1>5 DEF Transfer
  <2> QED
    BY <1>1, <1>2, <1>5, <2>1, <2>2 DEF Return
<1> QED
  BY <1>3, <1>4, <1>5

LEMMA TransferSlips ==
    ASSUME TypeInv, StepInv, SlipInv, NEW outcome \in Outcomes, Transfer(outcome)
    PROVE  /\ SlipInv'
           /\ slipped' = "now" /\ op' = "none" /\ Telling => told' # "ok"
<1>1. /\ ~NoCommand /\ kind = "usb" /\ kind' = kind /\ Awake' = Awake /\ OwedFromMem /\ up
      /\ slipped = "now" /\ Plain => Awake /\ LaggingAt(pos)
  BY TransferCases, TotalTyped DEF SlipInv
<1>2. OwedFromMem'
  <2>1. BoardTyped /\ BoardInv /\ Outgoing \in Byte
    BY <1>1, OutgoingTyped DEF TypeInv, TypeOK, BoardTyped
  <2>2. CASE Hear(Outgoing)
    BY <1>1, <2>1, <2>2, HearOwed
  <2>3. CASE UNCHANGED <<args, owed, mem>>
    BY <1>1, <2>3 DEF OwedFromMem
  <2> QED
    BY <2>2, <2>3, TransferCases
<1>3. ASSUME ~NoCommand', slipped' = "now", Plain'
      PROVE  Awake' /\ LaggingAt(pos)'
  <2>1. /\ ~(~Sending /\ AtStatus) /\ (outcome # "done" => Sending)
        /\ pos' = pos + 1 /\ UNCHANGED <<op, addr, data, told>> /\ pos < Total - 1
    BY <1>3, TransferCases DEF NoCommand
  <2>2. /\ Plain /\ op' = op /\ Total' = Total /\ Sends(op)' = Sends(op)
        /\ pos \in Nat /\ Total \in Nat /\ Sends(op) \in Nat
    BY <1>1, <1>3, <2>1, TotalTyped DEF Plain, Total, Sends, Answers, Count
  <2>3. CASE slipped = "now"
    <3>1. Awake /\ LaggingAt(pos)
      BY <1>1, <2>2, <2>3
    <3>2. CASE Hear(Outgoing)
      BY <1>1, <2>1, <2>2, <3>1, <3>2, HearLate
    <3>3. CASE UNCHANGED <<args, owed, mem>>
      <4>1. Len(args) \in Nat /\ Len(owed) \in Nat
        BY LenProperties DEF TypeInv, TypeOK
      <4> QED
        BY <1>1, <2>1, <2>2, <3>1, <3>3, <4>1 DEF LaggingAt
    <3> QED
      BY <1>1, <3>1, <3>2, <3>3, TransferCases
  <2>4. CASE slipped # "now"
    <3>1. slipped = "no" /\ Slips(outcome)
      BY <1>3, <2>4, TransferCases DEF Slip
    <3>2. outcome = "unheard" /\ Sending
      BY <2>1, <3>1 DEF Slips
    <3>3. UNCHANGED <<args, owed, mem>>
      BY <3>2, TransferCases
    <3>4. Together /\ Awake /\ Parsed(pos)
      BY <1>1, <3>1, ClockedTyped DEF StepInv, Together, CommandInStep
    <3>5. owed = <<>> /\ Len(args) = pos /\ \A n \in 1..pos : args[n] = Sent(n - 1)
      BY <3>2, <3>4 DEF Parsed, Sending
    <3>6. CASE pos = 0
      <4>1. args = <<>>
        BY <3>5, <3>6 DEF TypeInv, TypeOK
      <4> QED
        BY <1>1, <2>1, <2>2, <3>3, <3>4, <3>5, <3>6, <4>1 DEF LaggingAt
    <3>7. CASE pos # 0
      <4>1. 1 \in 1..pos /\ args # <<>>
        BY <2>2, <3>5, <3>7
      <4>2. args[1] = Sent(1 - 1)
        BY <3>5, <4>1
      <4>3. args[1] = Code[op] /\ Len(args) < pos + 1 /\ Len(args) < Sends(op)
        BY <2>2, <3>2, <3>5, <4>2 DEF Sent, Sending
      <4> QED
        BY <1>1, <2>1, <2>2, <3>3, <3>4, <3>5, <4>1, <4>3 DEF LaggingAt
    <3> QED
      BY <3>6, <3>7
  <2> QED
    BY <2>3, <2>4
<1>4. ASSUME slipped' = "now", op' = "none", Telling, told' = "ok"
      PROVE  FALSE
  <2>1. /\ outcome = "done" /\ ~Sending /\ AtStatus
        /\ ret' = IF Awake THEN Answer ELSE Quiet
        /\ told' = IF ret' = Ack THEN "ok" ELSE "failed"
    BY <1>1, <1>4, TransferCases DEF NoCommand
  <2>2. slipped = "now" /\ Plain
    BY <1>4, <2>1, TransferCases DEF Slips, Plain, Telling
  <2>3. Answer # Ack /\ Awake
    BY <1>1, <1>4, <2>1, <2>2, StatusTells
  <2> QED
    BY <1>4, <2>1, <2>3
<1> QED
  BY <1>2, <1>3, <1>4 DEF SlipInv

LEMMA SlipNext == TypeInv /\ StepInv /\ SlipInv /\ [Next]_vars => SlipInv'
<1> SUFFICES ASSUME TypeInv, StepInv, SlipInv, [Next]_vars, kind' = "usb" PROVE SlipInv'
  BY DEF SlipInv
<1>1. CASE Connect
  <2>1. PICK opened \in Opened(kind), lowered \in BOOLEAN, raised \in BOOLEAN :
          PulseReset(opened, lowered, raised)
    BY <1>1 DEF Connect
  <2>2. mem' = mem /\ (owed' = <<>> \/ owed' = owed)
    BY <2>1 DEF PulseReset
  <2>3. NoCommand' /\ kind' = kind
    BY <1>1 DEF Connect, NoCommand
  <2>4. CASE owed' = <<>>
    BY <2>3, <2>4 DEF SlipInv, OwedFromMem
  <2>5. CASE owed' = owed
    BY <2>2, <2>3, <2>5 DEF SlipInv, OwedFromMem
  <2> QED
    BY <2>2, <2>4, <2>5
<1>2. CASE Disconnect
  BY <1>2 DEF Disconnect, SlipInv, OwedFromMem, NoCommand, board
<1>3. CASE Pull
  BY <1>3 DEF Pull, SerialKinds
<1>4. ASSUME NEW o \in Ops, NEW a \in Addrs,
             NEW d \in IF o \in Writes THEN Blanks(o) ELSE {Blank}, Call(o, a, d)
      PROVE  SlipInv'
  <2>1. UNCHANGED <<args, owed, mem>> /\ kind' = kind /\ slipped' # "now"
    BY <1>4 DEF Call, board
  <2> QED
    BY <2>1 DEF SlipInv, OwedFromMem
<1>5. ASSUME NEW missed \in BOOLEAN, ClockHigh(missed) PROVE FALSE
  BY <1>5 DEF ClockHigh, OnPins
<1>6. CASE ClockLow
  BY <1>6 DEF ClockLow, OnPins
<1>7. CASE Exit
  BY <1>7 DEF Exit
<1>8. ASSUME NEW outcome \in Outcomes, Transfer(outcome) PROVE SlipInv'
  BY <1>8, TransferSlips
<1>9. CASE UNCHANGED vars
  <2>1. /\ UNCHANGED <<kind, port, op, data, pos>>
        /\ UNCHANGED <<args, owed, mem>> /\ slipped' = slipped
    BY <1>9 DEF vars, host, board, history
  <2> QED
    BY <2>1 DEF SlipInv, OwedFromMem, NoCommand, Plain, Awake, Level, LaggingAt, Total, Sends,
                Answers, Count
<1> QED
  BY <1>1, <1>2, <1>3, <1>4, <1>5, <1>6, <1>7, <1>8, <1>9 DEF Next, Running

\* The status byte catches the transfer that is lost in a command over USB,
\* unless a byte of the memory looks like the status or one that is written
\* looks like a code.
THEOREM LinkSlipNoticed == Spec => SlipNoticed
<1>1. Init => SlipInv
  BY DEF Init, SlipInv, OwedFromMem, NoCommand
<1>2. ASSUME TypeInv, StepInv, SlipInv, [Next]_vars,
             slipped' = "now", op # "none", op' = "none", kind = "usb", Telling
      PROVE  told' # "ok"
  <2>1. Running
    <3>1. ~Connect /\ ~Disconnect /\ \A o, a, d : ~Call(o, a, d)
      BY <1>2 DEF Connect, Disconnect, Call, NoCommand
    <3>2. ~Pull /\ ~UNCHANGED vars
      BY <1>2 DEF Pull, vars, host
    <3> QED
      BY <1>2, <3>1, <3>2 DEF Next
  <2>2. PICK outcome \in Outcomes : Transfer(outcome)
    BY <1>2, <2>1 DEF Running, ClockHigh, ClockLow, Exit, OnPins
  <2> QED
    BY <1>2, <2>2, TransferSlips
<1>3. TypeInv /\ StepInv /\ SlipInv /\ [Next]_vars =>
         [slipped' = "now" /\ op # "none" /\ op' = "none" /\ kind = "usb" /\ Telling =>
            told' # "ok"]_vars
  BY <1>2
<1> QED
  BY <1>1, <1>3, SlipNext, StepAlways, PTL DEF Spec, SlipNoticed

----------------------------------------------------------------------------
(* Bytes that the board has yet to be clocked through before it waits for  *)
(* a command: each byte it hears takes one off, and what a read clocks     *)
(* cannot begin a command but with its own code.                           *)

Debt ==
    IF owed # <<>> THEN Len(owed)
    ELSE IF args = <<>> THEN 0
    ELSE Sends(OpOf(args[1])) + Answers(OpOf(args[1])) - Len(args)

\* Reads without a fault have worked the debt off, or a command of the board's
\* own that is through before the read is.
DebtInv ==
    kind = "usb" /\ up /\ Awake /\ calm # -1 =>
       /\ NoCommand => Debt = 0 \/ Debt + 5 * calm <= Chunk + 3
       /\ op = "read" => Debt <= 5 - pos \/ Debt + pos + 5 * calm <= Chunk + 3

LEMMA DebtTyped ==
    ASSUME BoardTyped, BoardInv
    PROVE  /\ Debt \in Nat /\ Debt <= Chunk + 3
           /\ Debt = 0 <=> args = <<>> /\ owed = <<>>
<1>1. /\ args \in Seq(Byte) /\ owed \in Seq(Byte) /\ Len(args) \in Nat /\ Len(owed) \in Nat
      /\ Len(owed) <= 1 + Chunk /\ Chunk \in Nat
  BY NumbersTyped, LenProperties DEF BoardTyped
<1>2. CASE owed # <<>>
  <2>1. Debt = Len(owed) /\ Len(owed) # 0
    BY <1>1, <1>2 DEF Debt
  <2> QED
    BY <1>1, <1>2, <2>1
<1>3. CASE owed = <<>> /\ args = <<>>
  BY <1>1, <1>3 DEF Debt
<1>4. CASE owed = <<>> /\ args # <<>>
  <2> DEFINE o == OpOf(args[1])
  <2>1. Debt = Sends(o) + Answers(o) - Len(args)
    BY <1>4 DEF Debt
  <2>2. Len(args) < Sends(o) /\ Len(args) >= 1
    BY <1>1, <1>4 DEF BoardInv
  <2>3. /\ Sends(o) \in Nat /\ Answers(o) \in Nat /\ Answers(o) >= 1
        /\ Sends(o) + Answers(o) <= Chunk + 4
    <3> HIDE DEF o
    <3>1. /\ Count(o) \in 1..Chunk
          /\ o \in Writes => Sends(o) = 3 + Count(o) /\ Answers(o) = 1
          /\ o \notin Writes => Sends(o) = 3 /\ Answers(o) = 1 + Count(o)
      BY CountsTyped
    <3> QED
      BY <1>1, <3>1
  <2> HIDE DEF o
  <2> QED
    BY <1>1, <1>4, <2>1, <2>2, <2>3
<1> QED
  BY <1>2, <1>3, <1>4

LEMMA DebtBounded == TypeInv => Debt \in Nat /\ Debt <= Chunk + 3
BY DebtTyped DEF TypeInv, TypeOK, BoardTyped

LEMMA HearDebt ==
    ASSUME BoardTyped, BoardInv, NEW b \in Byte, Hear(b)
    PROVE  /\ Debt > 0 => Debt' = Debt - 1
           /\ Debt = 0 /\ b \notin Codes => Debt' = 0
           /\ \A o \in Ops : Debt = 0 /\ b = Code[o] => Debt' = Sends(o) + Answers(o) - 1
<1>1. /\ args \in Seq(Byte) /\ owed \in Seq(Byte) /\ Len(args) \in Nat /\ Len(owed) \in Nat
      /\ Debt \in Nat /\ (Debt = 0 <=> args = <<>> /\ owed = <<>>)
  BY DebtTyped, LenProperties DEF BoardTyped
<1>2. /\ Append(args, b) # <<>> /\ Len(Append(args, b)) = Len(args) + 1
      /\ Append(args, b)[1] = IF args = <<>> THEN b ELSE args[1]
  BY <1>1, AppendProperties
<1>3. CASE /\ owed # <<>> /\ args = <<>>
           /\ owed' = Tail(owed) /\ UNCHANGED <<args, mem>>
  <2>1. Len(owed') = Len(owed) - 1 /\ owed' \in Seq(Byte) /\ args' = <<>>
    BY <1>1, <1>3, HeadTailProperties
  <2>2. Debt' = Len(owed) - 1
    BY <1>1, <2>1 DEF Debt
  <2> QED
    BY <1>1, <1>3, <2>2 DEF Debt
<1>4. CASE /\ owed = <<>> /\ args = <<>> /\ b \notin Codes
           /\ UNCHANGED <<args, owed, mem>>
  <2>1. Debt = 0 /\ Debt' = 0
    BY <1>4 DEF Debt
  <2> QED
    BY <1>4, <2>1, BytesTyped
<1>5. CASE owed = <<>> /\ owed' = <<>> /\ args' = Append(args, b) /\ (args = <<>> => b \in Codes)
  <2>1. CASE args = <<>>
    <3>1. Debt' = Sends(OpOf(b)) + Answers(OpOf(b)) - 1
      BY <1>2, <1>5, <2>1 DEF Debt
    <3>2. Debt = 0 /\ b \in Codes
      BY <1>5, <2>1 DEF Debt
    <3> QED
      BY <3>1, <3>2, CodeFound
  <2>2. CASE args # <<>>
    <3> DEFINE o == OpOf(args[1])
    <3>1. Debt = Sends(o) + Answers(o) - Len(args)
      BY <1>5, <2>2 DEF Debt
    <3>2. Debt' = Sends(o) + Answers(o) - (Len(args) + 1)
      BY <1>2, <1>5, <2>2 DEF Debt
    <3>3. Sends(o) \in Nat /\ Answers(o) \in Nat
      BY CountsTyped, NumbersTyped
    <3> HIDE DEF o
    <3> QED
      BY <1>1, <2>2, <3>1, <3>2, <3>3
  <2> QED
    BY <2>1, <2>2
<1>6. ASSUME NEW o \in Ops, NEW cell \in Cells,
             owed = <<>>, Len(args) \in 2..(Sends(o) - 1),
             args # <<>>, o = OpOf(args[1]),
             mem' = IF Len(args) >= 3
                    THEN [mem EXCEPT ![cell] = [@ EXCEPT ![Len(args) - 3] = b]] ELSE mem,
             IF Len(args) + 1 < Sends(o)
             THEN args' = Append(args, b) /\ UNCHANGED owed
             ELSE /\ args' = <<>>
                  /\ owed' = [n \in 1..Answers(o) |->
                                IF n = Answers(o) THEN Ack ELSE mem[cell][n - 1]]
      PROVE  Debt > 0 /\ Debt' = Debt - 1
  <2>1. Sends(o) \in Nat /\ Answers(o) \in Nat /\ Answers(o) >= 1
    BY CountsTyped, NumbersTyped
  <2>2. Debt = Sends(o) + Answers(o) - Len(args)
    BY <1>6 DEF Debt
  <2>3. CASE Len(args) + 1 < Sends(o)
    <3>1. args' = Append(args, b) /\ owed' = <<>>
      BY <1>6, <2>3
    <3>2. Debt' = Sends(o) + Answers(o) - (Len(args) + 1)
      BY <1>2, <1>6, <3>1 DEF Debt
    <3> QED
      BY <1>1, <1>6, <2>1, <2>2, <3>2
  <2>4. CASE ~(Len(args) + 1 < Sends(o))
    <3>1. owed' = [n \in 1..Answers(o) |->
                     IF n = Answers(o) THEN Ack ELSE mem[cell][n - 1]]
      BY <1>6, <2>4
    <3>2. Len(owed') = Answers(o) /\ owed' # <<>>
      BY <2>1, <3>1
    <3>3. Debt' = Answers(o)
      BY <3>2 DEF Debt
    <3> QED
      BY <1>1, <1>6, <2>1, <2>2, <2>4, <3>3
  <2> QED
    BY <2>3, <2>4
<1> QED
  BY <1>1, <1>3, <1>4, <1>5, <1>6, HearKinds

\* A read clocks five bytes.
LEMMA ReadCounts == Sends("read") = 3 /\ Answers("read") = 2
BY DEF Sends, Answers, Count, Writes

LEMMA TransferPays ==
    ASSUME TypeInv, DebtInv, NEW outcome \in Outcomes, Transfer(outcome)
    PROVE  DebtInv'
<1> SUFFICES ASSUME Awake', calm' # -1
             PROVE  /\ NoCommand' => Debt' = 0 \/ Debt' + 5 * calm' <= Chunk + 3
                    /\ op' = "read" => \/ Debt' <= 5 - pos'
                                       \/ Debt' + pos' + 5 * calm' <= Chunk + 3
  BY DEF DebtInv
<1>1. /\ ~NoCommand /\ kind = "usb" /\ Awake /\ up /\ outcome = "done"
      /\ op \in Ops /\ pos \in Nat /\ pos < Total
  BY TransferCases, TotalTyped
<1>2. /\ BoardTyped /\ BoardInv /\ Outgoing \in Byte /\ Hear(Outgoing)
      /\ calm \in Int /\ calm >= -1 /\ calm <= Enough /\ Enough \in Nat /\ Chunk \in Nat
  <2>1. /\ BoardTyped /\ BoardInv /\ Outgoing \in Byte
        /\ calm \in -1..Enough
    BY <1>1, OutgoingTyped DEF TypeInv, TypeOK, BoardTyped
  <2>2. Hear(Outgoing)
    BY <1>1, TransferCases
  <2> QED
    BY <2>1, <2>2, NumbersTyped
<1>3. /\ Debt \in Nat
      /\ Debt > 0 => Debt' = Debt - 1
      /\ Debt = 0 /\ Outgoing \notin Codes => Debt' = 0
      /\ \A o \in Ops : Debt = 0 /\ Outgoing = Code[o] => Debt' = Sends(o) + Answers(o) - 1
  BY <1>2, DebtTyped, HearDebt
<1>4. Debt' \in Nat /\ Debt' <= Chunk + 3
  <2>1. BoardTyped' /\ BoardInv'
    BY <1>2, HearTyped
  <2>3. (BoardTyped /\ BoardInv => Debt \in Nat /\ Debt <= Chunk + 3)'
    BY DebtTyped, PTL
  <2> QED
    BY <2>1, <2>3
<1>5. CASE op # "read"
  <2>1. op' # "read"
    BY <1>5, TransferCases
  <2>2. ASSUME NoCommand' PROVE calm' = 0
    BY <1>1, <1>5, <2>2, TransferCases DEF CalmAfter, NoCommand
  <2> QED
    BY <1>4, <2>1, <2>2, NumbersTyped
<1>6. CASE op = "read"
  <2>1. Total = 5 /\ op \notin Writes /\ calm # -1
    <3>1. Total = 5
      BY <1>6, ReadCounts DEF Total
    <3>2. op \notin Writes
      BY <1>6 DEF Writes
    <3>3. calm # -1
      BY <1>1, TransferCases DEF CalmAfter
    <3> QED
      BY <3>1, <3>2, <3>3
  <2>2. Debt <= 5 - pos \/ Debt + pos + 5 * calm <= Chunk + 3
    BY <1>1, <1>6, <2>1 DEF DebtInv
  <2>3. Debt = 0 => Debt' = 0 \/ (pos = 0 /\ Debt' = 4)
    <3>1. CASE pos = 0
      <4>1. Outgoing = Code["read"]
        BY <1>6, <3>1, ReadCounts DEF Outgoing, Sending, Sent
      <4> QED
        BY <1>3, <3>1, <4>1, ReadCounts DEF Ops
    <3>2. CASE pos # 0
      <4>1. Outgoing \notin Codes
        BY <1>1, <2>1, <3>2, NoCodeSent
      <4> QED
        BY <1>3, <4>1
    <3> QED
      BY <3>1, <3>2
  <2>4. CASE op' = op
    <3>1. pos' = pos + 1 /\ pos < Total - 1 /\ calm' = calm
      BY <1>1, <1>6, <2>4, TransferCases
    <3>2. Debt' <= 5 - pos' \/ Debt' + pos' + 5 * calm' <= Chunk + 3
      BY <1>1, <1>2, <1>3, <2>1, <2>2, <2>3, <3>1
    <3> QED
      BY <1>6, <2>4, <3>2 DEF NoCommand
  <2>5. CASE op' # op
    <3>1. /\ op' = "none" /\ pos = 4 /\ CalmAfter
      <4>1. op' = "none" /\ AtStatus /\ CalmAfter
        BY <1>1, <2>5, TransferCases
      <4>2. pos = 4
        BY <1>6, <4>1, ReadCounts DEF AtStatus
      <4> QED
        BY <4>1, <4>2
    <3>2. calm' = IF calm < Enough THEN calm + 1 ELSE calm
      BY <1>6, <2>1, <3>1 DEF CalmAfter
    <3>3. 5 * Enough >= Chunk + 3
      BY EnoughReads
    <3>4. Debt' = 0 \/ Debt' + 5 * calm' <= Chunk + 3
      <4>1. CASE Debt = 0
        BY <2>3, <3>1, <4>1
      <4>2. CASE Debt > 0 /\ Debt <= 5 - pos
        BY <1>3, <3>1, <4>2
      <4>3. CASE Debt > 0 /\ Debt + pos + 5 * calm <= Chunk + 3
        <5>1. Debt' = Debt - 1 /\ calm < Enough
          BY <1>2, <1>3, <3>1, <3>3, <4>3
        <5> QED
          BY <1>2, <1>3, <3>1, <3>2, <4>3, <5>1
      <4> QED
        BY <1>3, <2>2, <4>1, <4>2, <4>3
    <3> QED
      BY <3>1, <3>4
  <2> QED
    BY <2>4, <2>5
<1> QED
  BY <1>5, <1>6

LEMMA DebtNext == TypeInv /\ DebtInv /\ [Next]_vars => DebtInv'
<1> SUFFICES ASSUME TypeInv, DebtInv, [Next]_vars PROVE DebtInv'
  OBVIOUS
<1>1. Debt \in Nat /\ Debt <= Chunk + 3 /\ Chunk \in Nat
  BY DebtTyped, NumbersTyped DEF TypeInv, TypeOK, BoardTyped
<1>2. CASE Connect
  <2>1. /\ NoCommand' /\ op' # "read" /\ calm' = 0
    BY <1>2 DEF Connect, NoCommand
  <2>2. TypeInv'
    BY <1>2, ConnectTyped
  <2>3. (TypeInv => Debt \in Nat /\ Debt <= Chunk + 3)'
    BY DebtBounded, PTL
  <2> QED
    BY <1>1, <2>1, <2>2, <2>3 DEF DebtInv
<1>3. CASE Disconnect
  BY <1>3 DEF Disconnect, DebtInv
<1>4. CASE Pull
  BY <1>4 DEF Pull, SerialKinds, DebtInv
<1>5. ASSUME NEW o \in Ops, NEW a \in Addrs,
             NEW d \in IF o \in Writes THEN Blanks(o) ELSE {Blank}, Call(o, a, d)
      PROVE  DebtInv'
  <2>1. /\ UNCHANGED <<args, owed, mem>> /\ UNCHANGED <<kind, up, port>> /\ NoCommand
        /\ op' = o /\ pos' = 0 /\ calm' = IF calm = -1 THEN 0 ELSE calm
        /\ op' # "none"
    BY <1>5 DEF Call, board, Ops
  <2>2. Debt' = Debt /\ Awake' = Awake
    BY <2>1 DEF Debt, Awake, Level, Sends, Answers, Count, OpOf
  <2>3. calm \in Int /\ calm' \in Int
    BY <2>1 DEF TypeInv, TypeOK
  <2>4. ASSUME kind = "usb", up, Awake
        PROVE  Debt <= 5 \/ Debt + 5 * calm' <= Chunk + 3
    <3>1. CASE calm = -1
      BY <1>1, <2>1, <3>1
    <3>2. CASE calm # -1
      BY <1>1, <2>1, <2>3, <2>4, <3>2 DEF DebtInv
    <3> QED
      BY <3>1, <3>2
  <2> QED
    BY <1>1, <2>1, <2>2, <2>3, <2>4 DEF DebtInv, NoCommand
<1>6. ASSUME NEW missed \in BOOLEAN, ClockHigh(missed) PROVE DebtInv'
  BY <1>6 DEF ClockHigh, OnPins, DebtInv
<1>7. CASE ClockLow
  BY <1>7 DEF ClockLow, OnPins, DebtInv
<1>8. CASE Exit
  BY <1>8 DEF Exit, DebtInv
<1>9. ASSUME NEW outcome \in Outcomes, Transfer(outcome) PROVE DebtInv'
  BY <1>9, TransferPays
<1>10. CASE UNCHANGED vars
  <2>1. UNCHANGED <<kind, up, port, op, pos, calm>> /\ UNCHANGED <<args, owed, mem>>
    BY <1>10 DEF vars, host, board, history
  <2> QED
    BY <2>1 DEF DebtInv, Debt, Awake, Level, NoCommand, Sends, Answers, Count, OpOf
<1> QED
  BY <1>2, <1>3, <1>4, <1>5, <1>6, <1>7, <1>8, <1>9, <1>10 DEF Next, Running

\* Over USB, after Enough reads without a fault the board waits for a command
\* again, however the two ends lost each other.
THEOREM LinkCured == Spec => []Cured
<1>1. Init => DebtInv
  BY DEF Init, DebtInv
<1>2. TypeInv /\ DebtInv => Cured
  <2> SUFFICES ASSUME TypeInv, DebtInv, kind = "usb", up, Awake, NoCommand, calm = Enough
               PROVE  args = <<>> /\ owed = <<>>
    BY DEF Cured
  <2>1. Debt \in Nat /\ (Debt = 0 <=> args = <<>> /\ owed = <<>>)
    BY DebtTyped DEF TypeInv, TypeOK, BoardTyped
  <2>2. Debt = 0 \/ Debt + 5 * Enough <= Chunk + 3
    BY NumbersTyped DEF DebtInv
  <2>3. Debt = 0
    BY <2>1, <2>2, EnoughReads, NumbersTyped
  <2> QED
    BY <2>1, <2>3
<1> QED
  BY <1>1, <1>2, DebtNext, TypesAlways, PTL DEF Spec

============================================================================
