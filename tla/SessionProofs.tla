--------------------------- MODULE SessionProofs ---------------------------
(***************************************************************************)
(* What Session promises for every number of probes and chunks, every set  *)
(* of boards and contents, with and without faults.                        *)
(***************************************************************************)
EXTENDS Session, TLAPS

----------------------------------------------------------------------------
(* The values of 1 << k, and bank numbers that wrap. *)

LEMMA ShiftValues ==
    /\ Shift(0) = 1 /\ Shift(1) = 2 /\ Shift(2) = 4
    /\ Shift(3) = 8 /\ Shift(4) = 16 /\ Shift(5) = 32
BY DEF Shift

LEMMA ShiftNat == \A k \in 0..5 : Shift(k) \in {1, 2, 4, 8, 16, 32}
BY ShiftValues

LEMMA ShiftDouble == \A k \in 0..4 : Shift(k + 1) = 2 * Shift(k)
BY ShiftValues

LEMMA ShiftMonotone == \A k, l \in 0..5 : k <= l => Shift(k) <= Shift(l)
BY ShiftValues

\* There is no power of two strictly between 1 << k and 1 << (k + 1).
LEMMA ShiftNext ==
    \A k \in 0..4, l \in 0..5 : Shift(k) < Shift(l) => Shift(k + 1) <= Shift(l)
BY ShiftValues

\* An address that is a multiple of the memory's size is address 0 again.
LEMMA ShiftWraps ==
    \A k, l \in 0..5 : Shift(l) <= Shift(k) => Shift(k) % Shift(l) = 0
<1> SUFFICES ASSUME NEW k \in 0..5, NEW l \in 0..5, Shift(l) <= Shift(k)
             PROVE  Shift(k) % Shift(l) = 0
    OBVIOUS
<1>1. CASE l = 0 BY <1>1, ShiftValues
<1>2. CASE l = 1 BY <1>2, ShiftValues
<1>3. CASE l = 2 BY <1>3, ShiftValues
<1>4. CASE l = 3 BY <1>4, ShiftValues
<1>5. CASE l = 4 BY <1>5, ShiftValues
<1>6. CASE l = 5 BY <1>6, ShiftValues
<1> QED BY <1>1, <1>2, <1>3, <1>4, <1>5, <1>6

\* A bank number always wraps to a bank of the board, and one that the board
\* has wraps to itself.
LEMMA PhysInBoard ==
    ASSUME NEW d \in {1, 2, 4, 8, 16, 32}, NEW b \in Nat
    PROVE  /\ b % d \in 0..(d - 1)
           /\ b < d => b % d = b
BY SMT

----------------------------------------------------------------------------
(* Types.  To be inductive the type invariant needs to know that a page can *)
(* be selected only while connected.                                        *)

ConnectSteps == {"probe", "invert", "check", "restore", "pages"}

TypeInv ==
    /\ TypeOK
    /\ pc \in ConnectSteps => label = "Connect"
    /\ label = "Connect" => page = NoPage
    /\ pc = "idle" => i = 0

LEMMA ConstantsTyped ==
    /\ Probes \in 1..6 /\ ChunkIds \subseteq Nat /\ 0 \in ChunkIds
    /\ ProbeIds \subseteq 0..5 /\ Byte \subseteq Nat /\ 0 \in Byte
    /\ Blank \in Image
    /\ \A b \in Byte : Compl(b) \in Byte /\ Compl(b) # b
    /\ Boards \subseteq {Shift(k) : k \in ProbeIds}
    /\ \A k \in ProbeIds : Shift(k) \in {1, 2, 4, 8, 16, 32}
BY SessionAssumption, ShiftNat
   DEF ChunkIds, ProbeIds, Byte, Blank, Image, Compl

\* The board is always there to answer.
LEMMA BoardTyped ==
    ASSUME TypeOK
    PROVE  /\ devBanks \in {1, 2, 4, 8, 16, 32}
           /\ \A b \in Nat : Phys(b) \in 0..(devBanks - 1)
           /\ \A b \in Nat : Peek(b) \in Byte
           /\ \A v \in Byte : Poke0(v) \in [0..(devBanks - 1) -> Image]
<1>1. devBanks \in {1, 2, 4, 8, 16, 32}
      BY ConstantsTyped DEF TypeOK
<1>2. \A b \in Nat : Phys(b) \in 0..(devBanks - 1)
      BY <1>1, PhysInBoard DEF Phys
<1>3. \A b \in Nat : Peek(b) \in Byte
      BY <1>2, ConstantsTyped DEF Peek, TypeOK, Image, Registers
<1>4. \A v \in Byte : Poke0(v) \in [0..(devBanks - 1) -> Image]
      BY ConstantsTyped DEF Poke0, TypeOK, Image
<1> QED BY <1>1, <1>2, <1>3, <1>4

LEMMA TypeInit == Init => TypeInv
<1> SUFFICES ASSUME Init PROVE TypeInv
    OBVIOUS
<1>1. mem \in [0..(devBanks - 1) -> Image] /\ reg \in [Registers -> Byte]
      BY SessionAssumption DEF Init, Image, Byte
<1> QED BY <1>1, ConstantsTyped
        DEF Init, TypeInv, TypeOK, Handlers, Messages, NoPage, ConnectSteps

LEMMA TypeNext == TypeInv /\ [Next]_vars => TypeInv'
<1> SUFFICES ASSUME TypeInv, [Next]_vars PROVE TypeInv'
    OBVIOUS
<1> USE DEF TypeInv, TypeOK, Handlers, Messages, ConnectSteps, board, locals, ui, history
<1>a. 0 \in Byte /\ 0 \in ChunkIds /\ Blank \in Image
      BY ConstantsTyped
<1>b. /\ byte0 \in Byte /\ Compl(byte0) \in Byte
      /\ \A v \in Byte : Poke0(v) \in [0..(devBanks - 1) -> Image]
      BY ConstantsTyped, BoardTyped
<1>c. \A r, v : r \in Registers /\ v \in Byte => Stored(r, v) \in [Registers -> Byte]
      BY DEF Stored
<1>d. Probes \in 1..6 /\ 0 \in ProbeIds /\ banks \in {0, 1, 2, 4, 8, 16, 32}
      BY ConstantsTyped, SessionAssumption DEF ProbeIds
<1>e. Shift(0) = 1 /\ Peek(Shift(0)) \in Byte
      BY BoardTyped, ShiftValues
<1>1. CASE OpenPort BY <1>1, <1>d DEF OpenPort, Ready
<1>2. CASE Probe BY <1>2, <1>a, <1>d, <1>e DEF Probe, GiveUp, Return, NextProbe, ProbeIds
<1>3. CASE Invert BY <1>3, <1>b DEF Invert
<1>4. CASE Check BY <1>4, <1>a DEF Check, GiveUp, Return
<1>5. CASE Restore BY <1>5, <1>a, <1>b, <1>d DEF Restore, GiveUp, Return, NextProbe, ProbeIds
<1>6. CASE MakePages
      <2>1. /\ model' \in [0..(banks' - 1) -> Image] /\ banks' = banks
            BY <1>6, <1>a DEF MakePages
      <2>2. page' \in {NoPage} \cup 0..(banks' - 1)
            BY <1>6, <1>d DEF MakePages
      <2>3. mirrorSel' \in {-1, 0, 1} /\ doubt' \in BOOLEAN
            BY <1>6 DEF MakePages
      <2>4. /\ pc' = "idle" /\ said' = "none" /\ i' = 0 /\ byte0' \in Byte
            /\ buf' \in Image /\ label' = "Disconnect" /\ UNCHANGED <<board, comm, missed>>
            BY <1>6, <1>a DEF MakePages, Return
      <2> QED BY <2>1, <2>2, <2>3, <2>4
<1>7. CASE Disconnect BY <1>7 DEF Disconnect, ConnectedReady, Ready
<1>8. CASE Dismiss BY <1>8 DEF Dismiss
<1>9. ASSUME NEW p \in 0..(banks - 1), SelectPage(p) PROVE TypeInv'
      BY <1>9 DEF SelectPage, ConnectedReady, Ready
<1>10. ASSUME NEW c \in ChunkIds, NEW v \in Drawn, Edit(c, v) PROVE TypeInv'
      <2>1. page \in 0..(banks - 1) /\ v \in Byte
            BY <1>10, SessionAssumption DEF Edit
      <2> QED BY <1>10, <2>1 DEF Edit, ConnectedReady, Ready, Image
<1>11. CASE StartWrite \/ StartRead \/ StartVerify
      <2>1. page # NoPage => model[page] \in Image
            BY <1>11 DEF StartWrite, StartRead, StartVerify, Start, ConnectedReady
      <2> QED BY <1>11, <2>1, <1>a
              DEF StartWrite, StartRead, StartVerify, Start, ConnectedReady, Ready
<1>f. /\ pc \in {"write", "read", "verify"} =>
           PageBank \in 0..(devBanks - 1) /\ page \in 0..(banks - 1)
      /\ Chunks \in Nat \ {0}
      BY BoardTyped, <1>d, SessionAssumption DEF PageBank
<1>12. CASE WriteChunk
      <2>1. mem' \in [0..(devBanks - 1) -> Image]
            <3>1. \A v \in Byte :
                    [mem EXCEPT ![PageBank][i] = v] \in [0..(devBanks - 1) -> Image]
                  BY <1>12, <1>f DEF WriteChunk, Image
            <3>2. buf[i] \in Byte
                  BY <1>12 DEF WriteChunk, Image
            <3> QED BY <1>12, <3>1, <3>2 DEF WriteChunk
      <2>2. pc' = "write" => i' \in ChunkIds
            BY <1>12, <1>f DEF WriteChunk, Return, ChunkIds, LastChunk
      <2>3. /\ pc' \in {"write", "idle"} /\ i' \in Nat /\ (pc' = "idle" => i' = 0)
            /\ byte0' \in Byte /\ buf' \in Image /\ said' \in Messages
            BY <1>12, <1>a DEF WriteChunk, Return
      <2> QED BY <1>12, <2>1, <2>2, <2>3 DEF WriteChunk
<1>13. CASE ReadChunk
      <2>1. /\ mem[PageBank] \in Image /\ label = "Disconnect"
            BY <1>13, <1>f DEF ReadChunk
      <2>2. [buf EXCEPT ![i] = mem[PageBank][i]] \in Image
            BY <1>13, <2>1 DEF ReadChunk, Image
      <2>3. /\ pc' = "read" => i' \in ChunkIds
            /\ buf' \in Image /\ model' \in [0..(banks - 1) -> Image]
            BY <1>13, <1>a, <1>f, <2>1, <2>2 DEF ReadChunk, Return, ChunkIds, LastChunk
      <2>4. /\ pc' \in {"read", "idle"} /\ i' \in Nat /\ (pc' = "idle" => i' = 0)
            /\ byte0' \in Byte /\ said' \in Messages
            BY <1>13, <1>a DEF ReadChunk, Return
      <2> QED BY <1>13, <2>3, <2>4 DEF ReadChunk
<1>14. CASE VerifyChunk
      BY <1>14, <1>a, <1>f DEF VerifyChunk, Return, ChunkIds, LastChunk
<1>15. ASSUME NEW m \in {0, 1}, ChooseMirror(m) PROVE TypeInv'
      <2>1. m \in Byte
            BY <1>15, SessionAssumption DEF Byte
      <2> QED BY <1>15, <2>1, <1>a, <1>c
              DEF ChooseMirror, WriteSetting, ConnectedReady, Ready, Return, Registers
<1>16. ASSUME NEW r \in {"rot", "anim"}, AskSetting(r) PROVE TypeInv'
      BY <1>16, <1>a DEF AskSetting, ConnectedReady, Ready, Return
<1>17. ASSUME NEW v \in Settings, EnterSetting(v) PROVE TypeInv'
      BY <1>17, <1>a, <1>c, SessionAssumption
         DEF EnterSetting, WriteSetting, Return, Registers
<1>18. CASE CancelSetting BY <1>18, <1>a DEF CancelSetting, Return
<1>19. CASE TestOpen BY <1>19 DEF TestOpen, Ready, TestPins
<1>20. CASE TestYes
      <2>1. held' \in BOOLEAN
            BY <1>20 DEF TestYes, SetTestPin
      <2>2. Len(TestPins) \in Nat
            BY DEF TestPins
      <2> QED BY <1>20, <1>a, <2>1, <2>2 DEF TestYes, Return
<1>21. CASE TestStop BY <1>21, <1>a DEF TestStop, Return
<1>22. CASE UNCHANGED vars BY <1>22 DEF vars
<1> QED
      BY <1>1, <1>2, <1>3, <1>4, <1>5, <1>6, <1>7, <1>8, <1>9, <1>10, <1>11, <1>12, <1>13,
         <1>14, <1>15, <1>16, <1>17, <1>18, <1>19, <1>20, <1>21, <1>22
         DEF Next, Running, User

\* Every variable keeps its type.
THEOREM SessionTypes == Spec => []TypeOK
<1>1. TypeInv => TypeOK
      BY DEF TypeInv
<1> QED BY <1>1, TypeInit, TypeNext, PTL DEF Spec

----------------------------------------------------------------------------
(* Detection.  While no inversion was missed, a loop index is reached only  *)
(* if the board is larger than the half of what it stands for: had the      *)
(* address before it wrapped to 0, it would have shown the inversion.       *)

DetectInv ==
    /\ label = "Connect" /\ pc # "pages" => banks = 0
    /\ ~missed =>
          /\ banks <= devBanks
          /\ pc \in {"invert", "check"} => i = 0 \/ Shift(i - 1) < devBanks
          /\ pc = "check" => mem[0][0] = Compl(byte0)
          /\ pc = "restore" => (i + 1 < Probes => Shift(i) < devBanks)

\* The actions that detection and its result depend on.
Detection ==
    OpenPort \/ Probe \/ Invert \/ Check \/ Restore \/ MakePages \/ Disconnect

\* Every other step leaves a connected session, or an idle frame, as it is.
LEMMA OutsideDetection ==
    ASSUME TypeInv, [Next]_vars, ~Detection
    PROVE  /\ UNCHANGED <<devBanks, missed, banks, label>>
           /\ (pc \notin ConnectSteps /\ pc' \notin ConnectSteps) \/ UNCHANGED vars
<1> USE DEF TypeInv, ConnectSteps, board, locals, ui, history, Return
<1>1. CASE Dismiss BY <1>1 DEF Dismiss
<1>2. ASSUME NEW p \in 0..(banks - 1), SelectPage(p)
      PROVE  UNCHANGED <<devBanks, missed, banks, label>> /\ pc \notin ConnectSteps /\ pc' \notin ConnectSteps
      BY <1>2 DEF SelectPage, ConnectedReady, Ready
<1>3. ASSUME NEW c \in ChunkIds, NEW v \in Drawn, Edit(c, v)
      PROVE  UNCHANGED <<devBanks, missed, banks, label>> /\ pc \notin ConnectSteps /\ pc' \notin ConnectSteps
      BY <1>3 DEF Edit, ConnectedReady, Ready
<1>4. CASE StartWrite \/ StartRead \/ StartVerify
      BY <1>4 DEF StartWrite, StartRead, StartVerify, Start, ConnectedReady, Ready
<1>5. CASE WriteChunk BY <1>5 DEF WriteChunk
<1>6. CASE ReadChunk BY <1>6 DEF ReadChunk
<1>7. CASE VerifyChunk BY <1>7 DEF VerifyChunk
<1>8. ASSUME NEW m \in {0, 1}, ChooseMirror(m)
      PROVE  UNCHANGED <<devBanks, missed, banks, label>> /\ pc \notin ConnectSteps /\ pc' \notin ConnectSteps
      BY <1>8 DEF ChooseMirror, WriteSetting, ConnectedReady, Ready
<1>9. ASSUME NEW r \in {"rot", "anim"}, AskSetting(r)
      PROVE  UNCHANGED <<devBanks, missed, banks, label>> /\ pc \notin ConnectSteps /\ pc' \notin ConnectSteps
      BY <1>9 DEF AskSetting, ConnectedReady, Ready
<1>10. ASSUME NEW v \in Settings, EnterSetting(v)
      PROVE  UNCHANGED <<devBanks, missed, banks, label>> /\ pc \notin ConnectSteps /\ pc' \notin ConnectSteps
      BY <1>10 DEF EnterSetting, WriteSetting
<1>11. CASE CancelSetting BY <1>11 DEF CancelSetting
<1>12. CASE TestOpen BY <1>12 DEF TestOpen, Ready
<1>13. CASE TestYes BY <1>13 DEF TestYes
<1>14. CASE TestStop BY <1>14 DEF TestStop
<1>15. CASE UNCHANGED vars BY <1>15 DEF vars
<1> QED
      BY <1>1, <1>2, <1>3, <1>4, <1>5, <1>6, <1>7, <1>8, <1>9, <1>10, <1>11, <1>12,
         <1>13, <1>14, <1>15 DEF Next, Running, User, Detection

Transfers == {"write", "read", "verify"}

\* While a transfer runs no other handler does, and no event is taken.
LEMMA TransferActions ==
    ASSUME [Next]_vars, pc \in Transfers
    PROVE  WriteChunk \/ ReadChunk \/ VerifyChunk \/ UNCHANGED vars
BY DEF Transfers, Next, Running, User, Dismiss, SelectPage, Edit, StartWrite, StartRead,
       StartVerify, Start, ChooseMirror, AskSetting, EnterSetting, CancelSetting, TestOpen,
       TestYes, TestStop, ConnectedReady, Ready, OpenPort, Probe, Invert, Check, Restore,
       MakePages, Disconnect

\* What the loop's test tells: a match stands for at most the board's size, and
\* without one the board is larger.
LEMMA CheckTells ==
    ASSUME TypeInv, DetectInv, pc = "check", ~missed
    PROVE  /\ Shift(i) <= devBanks
           /\ Peek(Shift(i)) # Compl(byte0) => (i + 1 < Probes => Shift(i) < devBanks)
<1>1. i \in ProbeIds /\ i \in 0..5 /\ Probes \in 1..6
      BY ConstantsTyped DEF TypeInv, TypeOK
<1>2. PICK l \in ProbeIds : devBanks = Shift(l)
      BY ConstantsTyped DEF TypeInv, TypeOK
<1>3. l \in 0..5 /\ Shift(l) \in Nat /\ Shift(i) \in Nat
      BY <1>1, <1>2, ConstantsTyped
<1>4. Shift(i) <= devBanks
      <2>1. CASE i = 0
            BY <2>1, <1>2, <1>3, ShiftMonotone
      <2>2. CASE i # 0
            <3>1. i - 1 \in 0..4 /\ Shift(i - 1) < Shift(l)
                  BY <2>2, <1>1, <1>2 DEF DetectInv
            <3> QED BY <3>1, <1>1, <1>2, <1>3, ShiftNext
      <2> QED BY <2>1, <2>2
<1>5. ASSUME i + 1 < Probes, ~(Shift(i) < devBanks)
      PROVE  Peek(Shift(i)) = Compl(byte0)
      <2>1. Phys(Shift(i)) = 0
            BY <1>1, <1>2, <1>3, <1>5, ShiftWraps DEF Phys
      <2>2. Probes - 1 \in 0..5 /\ i <= Probes - 2 /\ Probes - 2 \in 0..4
            BY <1>1, <1>5
      <2>3. Shift(i) # RegBank
            <3>1. Shift(i) <= Shift(Probes - 2)
                  BY <1>1, <2>2, ShiftMonotone
            <3>2. Shift(Probes - 1) = 2 * Shift(Probes - 2)
                  BY <2>2, ShiftDouble
            <3>3. Shift(Probes - 2) \in {1, 2, 4, 8, 16, 32}
                  BY <2>2, ShiftNat
            <3> QED BY <3>1, <3>2, <3>3, <1>3 DEF RegBank
      <2> QED BY <2>1, <2>3 DEF Peek, DetectInv
<1> QED BY <1>4, <1>5

LEMMA DetectInit == Init => DetectInv
<1> SUFFICES ASSUME Init PROVE DetectInv
    OBVIOUS
<1>1. devBanks \in Nat
      BY ConstantsTyped DEF Init
<1> QED BY <1>1 DEF Init, DetectInv

LEMMA DetectNext == TypeInv /\ DetectInv /\ [Next]_vars => DetectInv'
<1> SUFFICES ASSUME TypeInv, DetectInv, [Next]_vars PROVE DetectInv'
    OBVIOUS
<1>a. /\ devBanks \in {1, 2, 4, 8, 16, 32} /\ 0 \in 0..(devBanks - 1)
      /\ Probes \in 1..6 /\ 0 \in ChunkIds /\ i \in Nat
      /\ mem \in [0..(devBanks - 1) -> [ChunkIds -> Byte]]
      <2>1. devBanks \in {1, 2, 4, 8, 16, 32}
            BY BoardTyped DEF TypeInv
      <2>2. 0 \in 0..(devBanks - 1)
            BY <2>1
      <2>3. Probes \in 1..6 /\ 0 \in ChunkIds
            BY ConstantsTyped
      <2> QED BY <2>1, <2>2, <2>3 DEF TypeInv, TypeOK, Image
<1> USE DEF board, locals, ui, history
<1>1. CASE OpenPort
      BY <1>1, <1>a DEF OpenPort, Ready, DetectInv
<1>2. CASE Probe
      <2>1. banks = 0 /\ pc = "probe" /\ pc' # "pages" /\ pc' # "check" /\ pc' # "restore"
            BY <1>2 DEF Probe, GiveUp, Return, DetectInv, TypeInv, ConnectSteps
      <2>2. banks' = 0 /\ devBanks' = devBanks /\ (pc' = "invert" => i' = 0)
            BY <1>2, <2>1 DEF Probe, GiveUp, Return
      <2> QED BY <2>1, <2>2, <1>a DEF DetectInv
<1>3. CASE Invert
      <2>1. ~missed' => mem'[0][0] = Compl(byte0)
            BY <1>3, <1>a DEF Invert, Poke0
      <2> QED BY <1>3, <2>1 DEF Invert, DetectInv
<1>4. CASE Check
      <2>1. CASE pc' = "pages"
            BY <1>4, <2>1, CheckTells DEF Check, GiveUp, Return, DetectInv
      <2>2. CASE pc' = "restore"
            BY <1>4, <2>2, CheckTells DEF Check, GiveUp, Return, DetectInv
      <2>3. CASE pc' = "idle"
            BY <1>4, <2>3 DEF Check, GiveUp, Return, DetectInv
      <2> QED BY <1>4, <2>1, <2>2, <2>3 DEF Check, GiveUp, Return
<1>5. CASE Restore
      <2>1. i' - 1 = i \/ pc' = "idle"
            BY <1>5, <1>a DEF Restore, GiveUp, Return, NextProbe
      <2> QED BY <1>5, <2>1 DEF Restore, GiveUp, Return, NextProbe, DetectInv
<1>6. CASE MakePages
      BY <1>6 DEF MakePages, Return, DetectInv
<1>7. CASE Disconnect
      BY <1>7, <1>a DEF Disconnect, ConnectedReady, Ready, DetectInv
<1>8. CASE ~Detection
      BY <1>8, OutsideDetection DEF DetectInv, ConnectSteps, vars
<1> QED BY <1>1, <1>2, <1>3, <1>4, <1>5, <1>6, <1>7, <1>8 DEF Detection

LEMMA PagesDistinctFromDetection == TypeInv /\ DetectInv => PagesDistinct
<1> SUFFICES ASSUME TypeInv, DetectInv, ~missed,
                    NEW p \in 0..(banks - 1), NEW q \in 0..(banks - 1), Phys(p) = Phys(q)
             PROVE  p = q
    BY DEF PagesDistinct
<1>1. /\ devBanks \in {1, 2, 4, 8, 16, 32} /\ banks <= devBanks
      /\ banks \in {0, 1, 2, 4, 8, 16, 32}
      BY BoardTyped, ConstantsTyped DEF DetectInv, TypeInv, TypeOK
<1>2. p \in Nat /\ q \in Nat /\ p < devBanks /\ q < devBanks
      BY <1>1
<1> QED BY <1>1, <1>2, PhysInBoard DEF Phys

\* No two pages ever stand for the same memory while no inversion was missed.
THEOREM SessionPagesDistinct == Spec => []PagesDistinct
<1> QED BY TypeInit, TypeNext, DetectInit, DetectNext, PagesDistinctFromDetection,
           PTL DEF Spec

\* A write touches what no other page would read.
THEOREM SessionWriteIsolation == Spec => WriteIsolation
<1>1. TypeInv /\ DetectInv /\ [Next]_vars =>
        [pc = "write" /\ ~missed =>
           \A p \in 0..(banks - 1) : OtherPage(p) => mem'[Phys(p)] = mem[Phys(p)]]_vars
      <2> SUFFICES ASSUME TypeInv, DetectInv, [Next]_vars, pc = "write", ~missed,
                          NEW p \in 0..(banks - 1), OtherPage(p)
                   PROVE  mem'[Phys(p)] = mem[Phys(p)]
          OBVIOUS
      <2>1. page \in 0..(banks - 1) /\ Phys(p) # PageBank
            BY PagesDistinctFromDetection
               DEF PagesDistinct, OtherPage, PageBank, TypeInv, TypeOK
      <2>2. \A v : [mem EXCEPT ![PageBank][i] = v][Phys(p)] = mem[Phys(p)]
            <3>1. Phys(p) \in 0..(devBanks - 1) /\ mem \in [0..(devBanks - 1) -> Image]
                  BY BoardTyped, ConstantsTyped DEF TypeInv, TypeOK
            <3> QED BY <2>1, <3>1
      <2>3. CASE WriteChunk
            <3>1. mem' = mem \/ \E v : mem' = [mem EXCEPT ![PageBank][i] = v]
                  BY <2>3 DEF WriteChunk
            <3> QED BY <3>1, <2>2
      <2>4. CASE UNCHANGED vars
            BY <2>4 DEF vars, board
      <2>5. ~WriteChunk => UNCHANGED vars
            BY TransferActions DEF Transfers, ReadChunk, VerifyChunk
      <2> QED BY <2>3, <2>4, <2>5
<1> QED BY <1>1, TypeInit, TypeNext, DetectInit, DetectNext, PTL DEF Spec, WriteIsolation

----------------------------------------------------------------------------
(* Images.  While a bank is written, read or verified, the chunks dealt     *)
(* with so far are the same in the board and in the handler's buffer.       *)

ImageInv ==
    /\ pc # "idle" => said = "none"
    /\ pc \in {"write", "verify"} => buf = model[page]
    /\ pc \in Transfers => \A c \in 0..(i - 1) : mem[PageBank][c] = buf[c]
    /\ VerdictRight

\* The facts about types that the steps of a transfer rely on.
LEMMA TransferTyped ==
    ASSUME TypeInv, pc \in Transfers
    PROVE  /\ i \in ChunkIds /\ i \in Nat /\ Chunks \in Nat
           /\ buf \in [ChunkIds -> Byte] /\ label = "Disconnect"
           /\ page \in 0..(banks - 1) /\ model[page] \in [ChunkIds -> Byte]
           /\ PageBank \in 0..(devBanks - 1) /\ mem[PageBank] \in [ChunkIds -> Byte]
           /\ mem \in [0..(devBanks - 1) -> [ChunkIds -> Byte]]
<1>1. /\ i \in ChunkIds /\ i \in Nat /\ Chunks \in Nat /\ buf \in [ChunkIds -> Byte]
      /\ mem \in [0..(devBanks - 1) -> [ChunkIds -> Byte]]
      BY SessionAssumption DEF TypeInv, TypeOK, Transfers, Image
<1>2. page \in 0..(banks - 1) /\ label = "Disconnect"
      BY DEF TypeInv, TypeOK, Transfers
<1>3. model[page] \in [ChunkIds -> Byte]
      BY <1>2 DEF TypeInv, TypeOK, Image
<1>4. PageBank \in 0..(devBanks - 1)
      <2>1. page \in Nat
            BY <1>2, ConstantsTyped DEF TypeInv, TypeOK
      <2> QED BY <2>1, BoardTyped DEF PageBank, TypeInv
<1> QED BY <1>1, <1>2, <1>3, <1>4

\* The last chunk completes the image.
LEMMA LastChunkCompletes ==
    ASSUME Chunks \in Nat, NEW k \in ChunkIds, k + 1 = Chunks,
           NEW f \in [ChunkIds -> Byte], NEW g \in [ChunkIds -> Byte],
           \A c \in 0..(k - 1) : f[c] = g[c], f[k] = g[k]
    PROVE  f = g
<1>1. \A c \in ChunkIds : f[c] = g[c]
      BY DEF ChunkIds
<1> QED BY <1>1

\* A step of a transfer keeps the invariant, and the last one delivers.
LEMMA TransferSteps ==
    ASSUME TypeInv, ImageInv, pc \in Transfers, [Next]_vars
    PROVE  /\ ImageInv'
           /\ pc = "write" /\ pc' = "idle" /\ said' = "none" => mem'[PageBank] = model[page]
           /\ pc = "read" /\ pc' = "idle" =>
                \/ said' = "none" /\ model' = [model EXCEPT ![page] = mem[PageBank]]
                \/ said' = "readFailed" /\ model' = model
<1> USE TransferTyped DEF board, locals, ui, history
<1>1. CASE WriteChunk
      <2>1. /\ pc = "write" /\ UNCHANGED <<page, devBanks, model>> /\ PageBank' = PageBank
            /\ buf = model[page]
            BY <1>1 DEF WriteChunk, PageBank, Phys, ImageInv
      <2>2. CASE pc' = "write"
            <3>1. /\ mem' = [mem EXCEPT ![PageBank][i] = buf[i]]
                  /\ i' = i + 1 /\ buf' = buf /\ said' = said
                  BY <1>1, <2>2 DEF WriteChunk, Return
            <3>2. mem'[PageBank] = [mem[PageBank] EXCEPT ![i] = buf[i]]
                  BY <3>1, <2>1
            <3>3. \A c \in 0..(i' - 1) : mem'[PageBank][c] = buf[c]
                  BY <3>1, <3>2, <2>1 DEF ImageInv, ChunkIds, Transfers
            <3> QED BY <2>1, <2>2, <3>1, <3>3 DEF ImageInv, VerdictRight, Transfers
      <2>3. CASE pc' = "idle"
            <3>1. ImageInv'
                  BY <1>1, <2>3 DEF WriteChunk, Return, ImageInv, VerdictRight, Transfers
            <3>2. ASSUME said' = "none" PROVE mem'[PageBank] = model[page]
                  <4>1. mem' = [mem EXCEPT ![PageBank][i] = buf[i]] /\ i + 1 = Chunks
                        BY <1>1, <2>3, <3>2 DEF WriteChunk, Return, LastChunk
                  <4>2. /\ mem'[PageBank] = [mem[PageBank] EXCEPT ![i] = buf[i]]
                        /\ buf[i] \in Byte
                        BY <4>1, <2>1
                  <4>3. /\ mem'[PageBank] \in [ChunkIds -> Byte] /\ mem'[PageBank][i] = buf[i]
                        /\ \A c \in 0..(i - 1) : mem'[PageBank][c] = buf[c]
                        BY <4>2, <2>1 DEF ImageInv, ChunkIds, Transfers
                  <4> DEFINE now == mem'[PageBank]
                  <4>4. /\ now \in [ChunkIds -> Byte] /\ now[i] = buf[i]
                        /\ \A c \in 0..(i - 1) : now[c] = buf[c]
                        BY <4>3
                  <4> HIDE DEF now
                  <4>5. now = buf
                        BY <4>1, <4>4, LastChunkCompletes
                  <4> QED BY <4>5, <2>1 DEF now
            <3> QED BY <2>1, <2>3, <3>1, <3>2
      <2> QED BY <1>1, <2>1, <2>2, <2>3 DEF WriteChunk, Return
<1>2. CASE ReadChunk
      <2>1. /\ pc = "read" /\ UNCHANGED <<page, devBanks, mem>> /\ PageBank' = PageBank
            BY <1>2 DEF ReadChunk, PageBank, Phys
      <2>2. CASE pc' = "read"
            <3>1. /\ buf' = [buf EXCEPT ![i] = mem[PageBank][i]]
                  /\ i' = i + 1 /\ said' = said
                  BY <1>2, <2>2 DEF ReadChunk, Return
            <3>2. \A c \in 0..(i' - 1) : mem[PageBank][c] = buf'[c]
                  BY <3>1, <2>1 DEF ImageInv, ChunkIds, Transfers
            <3> QED BY <2>1, <2>2, <3>1, <3>2 DEF ImageInv, VerdictRight, Transfers
      <2>3. CASE pc' = "idle"
            <3>1. ImageInv'
                  BY <1>2, <2>3 DEF ReadChunk, Return, ImageInv, VerdictRight, Transfers
            <3>2. CASE CanFail /\ Return("readFailed") /\ UNCHANGED model
                  BY <2>1, <3>1, <3>2 DEF Return
            <3>3. CASE /\ LastChunk /\ Return("none")
                       /\ model' = [model EXCEPT ![page] =
                                       [buf EXCEPT ![i] = mem[PageBank][i]]]
                  <4> DEFINE got == [buf EXCEPT ![i] = mem[PageBank][i]]
                  <4>1. /\ got \in [ChunkIds -> Byte] /\ got[i] = mem[PageBank][i]
                        /\ \A c \in 0..(i - 1) : got[c] = mem[PageBank][c]
                        BY <2>1 DEF ImageInv, ChunkIds, Transfers
                  <4>2. i + 1 = Chunks
                        BY <3>3 DEF LastChunk
                  <4> HIDE DEF got
                  <4>3. got = mem[PageBank]
                        BY <4>1, <4>2, LastChunkCompletes
                  <4> QED BY <2>1, <3>1, <3>3, <4>3 DEF got, Return
            <3> QED BY <1>2, <2>3, <3>2, <3>3 DEF ReadChunk
      <2> QED BY <1>2, <2>1, <2>2, <2>3 DEF ReadChunk, Return
<1>3. CASE VerifyChunk
      <2>1. /\ pc = "verify" /\ UNCHANGED <<page, devBanks, mem, model>> /\ PageBank' = PageBank
            /\ buf = model[page]
            BY <1>3 DEF VerifyChunk, PageBank, Phys, ImageInv
      <2>2. CASE pc' = "verify"
            <3>1. buf[i] = mem[PageBank][i] /\ i' = i + 1 /\ buf' = buf /\ said' = said
                  BY <1>3, <2>2 DEF VerifyChunk, Return
            <3> QED BY <2>1, <2>2, <3>1 DEF ImageInv, VerdictRight, ChunkIds, Transfers
      <2>3. CASE pc' = "idle"
            <3>1. CASE said' = "verifyFailed"
                  <4>1. buf[i] # mem[PageBank][i]
                        BY <1>3, <2>3, <3>1 DEF VerifyChunk, Return
                  <4> QED BY <2>1, <2>3, <3>1, <4>1 DEF ImageInv, VerdictRight, Transfers
            <3>2. CASE said' = "verifySucceeded"
                  <4>1. buf[i] = mem[PageBank][i] /\ i + 1 = Chunks
                        BY <1>3, <2>3, <3>2 DEF VerifyChunk, Return, LastChunk
                  <4> DEFINE there == mem[PageBank]
                  <4>2. /\ there \in [ChunkIds -> Byte] /\ there[i] = buf[i]
                        /\ \A c \in 0..(i - 1) : there[c] = buf[c]
                        BY <4>1, <2>1 DEF ImageInv, Transfers
                  <4> HIDE DEF there
                  <4>3. there = buf
                        BY <4>1, <4>2, LastChunkCompletes
                  <4> QED BY <2>1, <2>3, <3>2, <4>3 DEF there, ImageInv, VerdictRight, Transfers
            <3>3. CASE said' = "readFailed"
                  BY <2>1, <2>3, <3>3 DEF ImageInv, VerdictRight, Transfers
            <3> QED BY <1>3, <2>3, <3>1, <3>2, <3>3 DEF VerifyChunk, Return
      <2> QED BY <1>3, <2>1, <2>2, <2>3 DEF VerifyChunk, Return
<1>4. CASE UNCHANGED vars
      BY <1>4 DEF vars, ImageInv, VerdictRight, PageBank, Phys, Transfers
<1> QED BY <1>1, <1>2, <1>3, <1>4, TransferActions

LEMMA ImageInit == Init => ImageInv
BY DEF Init, ImageInv, VerdictRight, Transfers

\* Outside the transfers a verdict is either on the screen, and nothing moves
\* until it is dismissed, or it is not.
LEMMA ImageNext == TypeInv /\ ImageInv /\ [Next]_vars => ImageInv'
<1> SUFFICES ASSUME TypeInv, ImageInv, [Next]_vars PROVE ImageInv'
    OBVIOUS
<1> USE DEF board, locals, ui, history, VerdictRight, Transfers, ImageInv, Return
<1>1. CASE pc \in Transfers BY <1>1, TransferSteps
<1>2. CASE OpenPort BY <1>2 DEF OpenPort, Ready
<1>3. CASE Probe BY <1>3 DEF Probe, GiveUp
<1>4. CASE Invert BY <1>4 DEF Invert
<1>5. CASE Check BY <1>5 DEF Check, GiveUp
<1>6. CASE Restore BY <1>6 DEF Restore, GiveUp
<1>7. CASE MakePages BY <1>7 DEF MakePages
<1>8. CASE Disconnect BY <1>8 DEF Disconnect, ConnectedReady, Ready
<1>9. CASE Dismiss BY <1>9 DEF Dismiss
<1>10. ASSUME NEW p \in 0..(banks - 1), SelectPage(p) PROVE ImageInv'
       BY <1>10 DEF SelectPage, ConnectedReady, Ready
<1>11. ASSUME NEW c \in ChunkIds, NEW v \in Drawn, Edit(c, v) PROVE ImageInv'
       BY <1>11 DEF Edit, ConnectedReady, Ready
<1>12. CASE StartWrite \/ StartRead \/ StartVerify
       BY <1>12 DEF StartWrite, StartRead, StartVerify, Start, ConnectedReady, Ready
<1>13. ASSUME NEW m \in {0, 1}, ChooseMirror(m) PROVE ImageInv'
       BY <1>13 DEF ChooseMirror, WriteSetting, ConnectedReady, Ready
<1>14. ASSUME NEW r \in {"rot", "anim"}, AskSetting(r) PROVE ImageInv'
       BY <1>14 DEF AskSetting, ConnectedReady, Ready
<1>15. ASSUME NEW v \in Settings, EnterSetting(v) PROVE ImageInv'
       BY <1>15 DEF EnterSetting, WriteSetting
<1>16. CASE CancelSetting BY <1>16 DEF CancelSetting
<1>17. CASE TestOpen BY <1>17 DEF TestOpen, Ready
<1>18. CASE TestYes BY <1>18 DEF TestYes
<1>19. CASE TestStop BY <1>19 DEF TestStop
<1>20. CASE UNCHANGED vars BY <1>20 DEF vars, PageBank, Phys
<1>21. CASE WriteChunk \/ ReadChunk \/ VerifyChunk
       BY <1>1, <1>21 DEF WriteChunk, ReadChunk, VerifyChunk
<1> QED
      BY <1>2, <1>3, <1>4, <1>5, <1>6, <1>7, <1>8, <1>9, <1>10, <1>11, <1>12, <1>13,
         <1>14, <1>15, <1>16, <1>17, <1>18, <1>19, <1>20, <1>21 DEF Next, Running, User

\* The verdict of a verification is right when the user reads it.
THEOREM SessionVerdictRight == Spec => []VerdictRight
<1>1. ImageInv => VerdictRight
      BY DEF ImageInv
<1> QED BY <1>1, TypeInit, TypeNext, ImageInit, ImageNext, PTL DEF Spec

\* While a write runs, the bank holds the part of the image already sent.
THEOREM SessionWritePrefix == Spec => []WritePrefix
<1>1. ImageInv => WritePrefix
      BY DEF ImageInv, WritePrefix, Transfers
<1> QED BY <1>1, TypeInit, TypeNext, ImageInit, ImageNext, PTL DEF Spec

\* A write that ends without a message has written the page's whole image.
THEOREM SessionWriteOrMessage == Spec => WriteOrMessage
<1>1. TypeInv /\ ImageInv /\ [Next]_vars =>
        [pc = "write" /\ pc' = "idle" /\ said' = "none" =>
           mem'[PageBank] = model[page]]_vars
      BY TransferSteps DEF Transfers
<1> QED BY <1>1, TypeInit, TypeNext, ImageInit, ImageNext, PTL DEF Spec, WriteOrMessage

\* A read changes the page's image to the bank's, or says that it did not.
THEOREM SessionReadAllOrNothing == Spec => ReadAllOrNothing
<1>1. TypeInv /\ ImageInv /\ [Next]_vars =>
        [pc = "read" /\ pc' = "idle" =>
           IF said' = "none"
           THEN model' = [model EXCEPT ![page] = mem[PageBank]]
           ELSE said' = "readFailed" /\ model' = model]_vars
      BY TransferSteps DEF Transfers
<1> QED BY <1>1, TypeInit, TypeNext, ImageInit, ImageNext, PTL DEF Spec, ReadAllOrNothing

----------------------------------------------------------------------------
(* The mirror choice and the link: inductive as they stand.                 *)

MirrorInv == label = "Disconnect" /\ ~doubt => mirrorSel = reg["mirror"]

LEMMA MirrorNext == TypeInv /\ MirrorInv /\ [Next]_vars => MirrorInv'
<1> SUFFICES ASSUME TypeInv, MirrorInv, [Next]_vars PROVE MirrorInv'
    OBVIOUS
<1> USE DEF board, locals, ui, history, MirrorInv, Return
<1>0. reg \in [Registers -> Byte] /\ "mirror" \in Registers
      BY DEF TypeInv, TypeOK, Registers
<1>1. CASE OpenPort BY <1>1 DEF OpenPort
<1>2. CASE Probe BY <1>2 DEF Probe, GiveUp
<1>3. CASE Invert BY <1>3 DEF Invert
<1>4. CASE Check BY <1>4 DEF Check, GiveUp
<1>5. CASE Restore BY <1>5 DEF Restore, GiveUp
<1>6. CASE MakePages BY <1>6 DEF MakePages
<1>7. CASE Disconnect BY <1>7 DEF Disconnect
<1>8. CASE Dismiss BY <1>8 DEF Dismiss
<1>9. ASSUME NEW p \in 0..(banks - 1), SelectPage(p) PROVE MirrorInv'
      BY <1>9 DEF SelectPage
<1>10. ASSUME NEW c \in ChunkIds, NEW v \in Drawn, Edit(c, v) PROVE MirrorInv'
       BY <1>10 DEF Edit
<1>11. CASE StartWrite \/ StartRead \/ StartVerify
       BY <1>11 DEF StartWrite, StartRead, StartVerify, Start
<1>12. CASE WriteChunk \/ ReadChunk \/ VerifyChunk
       BY <1>12 DEF WriteChunk, ReadChunk, VerifyChunk
<1>13. ASSUME NEW m \in {0, 1}, ChooseMirror(m) PROVE MirrorInv'
       BY <1>0, <1>13 DEF ChooseMirror, WriteSetting, Stored
<1>14. ASSUME NEW r \in {"rot", "anim"}, AskSetting(r) PROVE MirrorInv'
       BY <1>14 DEF AskSetting
<1>15. ASSUME NEW v \in Settings, EnterSetting(v) PROVE MirrorInv'
       BY <1>0, <1>15 DEF EnterSetting, WriteSetting, Stored
<1>16. CASE CancelSetting BY <1>16 DEF CancelSetting
<1>17. CASE TestOpen \/ TestYes \/ TestStop
       BY <1>17 DEF TestOpen, TestYes, TestStop
<1>18. CASE UNCHANGED vars BY <1>18 DEF vars
<1> QED
      BY <1>1, <1>2, <1>3, <1>4, <1>5, <1>6, <1>7, <1>8, <1>9, <1>10, <1>11, <1>12, <1>13,
         <1>14, <1>15, <1>16, <1>17, <1>18 DEF Next, Running, User

\* The mirror choice shows the board's flag unless a command about it failed.
THEOREM SessionMirrorShown == Spec => []MirrorShown
<1>1. Init => MirrorInv
      BY DEF Init, MirrorInv
<1>2. MirrorInv => MirrorShown
      BY DEF MirrorInv, MirrorShown
<1> QED BY <1>1, <1>2, TypeInit, TypeNext, MirrorNext, PTL DEF Spec

LEMMA LinkNext == TypeInv /\ LinkExists /\ [Next]_vars => LinkExists'
<1> SUFFICES ASSUME TypeInv, LinkExists, [Next]_vars PROVE LinkExists'
    OBVIOUS
<1> USE DEF TypeInv, board, locals, ui, history, LinkExists, Return
<1>1. CASE OpenPort BY <1>1 DEF OpenPort
<1>2. CASE Probe \/ Invert \/ Check \/ Restore
      BY <1>2 DEF Probe, Invert, Check, Restore, GiveUp
<1>3. CASE MakePages BY <1>3 DEF MakePages
<1>4. CASE Disconnect BY <1>4 DEF Disconnect, ConnectedReady, Ready
<1>5. CASE Dismiss BY <1>5 DEF Dismiss
<1>6. ASSUME NEW p \in 0..(banks - 1), SelectPage(p) PROVE LinkExists'
      BY <1>6 DEF SelectPage
<1>7. ASSUME NEW c \in ChunkIds, NEW v \in Drawn, Edit(c, v) PROVE LinkExists'
      BY <1>7 DEF Edit
<1>8. CASE StartWrite \/ StartRead \/ StartVerify
      BY <1>8 DEF StartWrite, StartRead, StartVerify, Start, ConnectedReady
<1>9. CASE WriteChunk \/ ReadChunk \/ VerifyChunk
      BY <1>9 DEF WriteChunk, ReadChunk, VerifyChunk
<1>10. ASSUME NEW m \in {0, 1}, ChooseMirror(m) PROVE LinkExists'
       BY <1>10 DEF ChooseMirror, WriteSetting
<1>11. ASSUME NEW r \in {"rot", "anim"}, AskSetting(r) PROVE LinkExists'
       BY <1>11 DEF AskSetting, ConnectedReady
<1>12. ASSUME NEW v \in Settings, EnterSetting(v) PROVE LinkExists'
       BY <1>12 DEF EnterSetting, WriteSetting
<1>13. CASE CancelSetting BY <1>13 DEF CancelSetting
<1>14. CASE TestOpen \/ TestYes \/ TestStop
       BY <1>14 DEF TestOpen, TestYes, TestStop
<1>15. CASE UNCHANGED vars BY <1>15 DEF vars
<1> QED
      BY <1>1, <1>2, <1>3, <1>4, <1>5, <1>6, <1>7, <1>8, <1>9, <1>10, <1>11, <1>12, <1>13,
         <1>14, <1>15 DEF Next, Running, User

\* No handler ever uses a deleted link, whatever the port test did to it.
THEOREM SessionLinkExists == Spec => []LinkExists
<1>1. Init => LinkExists
      BY DEF Init, LinkExists
<1> QED BY <1>1, TypeInit, TypeNext, LinkNext, PTL DEF Spec

----------------------------------------------------------------------------
(* The board's memory.  A page is selected whenever a transfer runs, and     *)
(* only a connected frame has one (TypeInv): so a write is always one of a   *)
(* session, and the two writes of Connect are never.                         *)

MemoryWriters == Invert \/ Restore \/ WriteChunk

\* Every other step leaves the memory as it is.
LEMMA OutsideMemory ==
    ASSUME [Next]_vars, ~MemoryWriters
    PROVE  mem' = mem
<1> USE DEF board, MemoryWriters
<1>1. CASE Probe \/ Check \/ MakePages
      BY <1>1 DEF Probe, Check, MakePages, GiveUp
<1>2. CASE ReadChunk \/ VerifyChunk
      BY <1>2 DEF ReadChunk, VerifyChunk
<1>3. CASE OpenPort \/ Disconnect \/ Dismiss
      BY <1>3 DEF OpenPort, Disconnect, Dismiss
<1>4. CASE \E p \in 0..(banks - 1) : SelectPage(p)
      BY <1>4 DEF SelectPage
<1>5. CASE \E c \in ChunkIds, v \in Drawn : Edit(c, v)
      BY <1>5 DEF Edit
<1>6. CASE StartWrite \/ StartRead \/ StartVerify
      BY <1>6 DEF StartWrite, StartRead, StartVerify, Start
<1>7. CASE \/ \E m \in {0, 1} : ChooseMirror(m)
           \/ \E r \in {"rot", "anim"} : AskSetting(r)
           \/ \E v \in Settings : EnterSetting(v)
           \/ CancelSetting
      BY <1>7 DEF ChooseMirror, AskSetting, EnterSetting, CancelSetting
<1>8. CASE TestOpen \/ TestYes \/ TestStop
      BY <1>8 DEF TestOpen, TestYes, TestStop
<1>9. CASE UNCHANGED vars
      BY <1>9 DEF vars
<1> QED BY <1>1, <1>2, <1>3, <1>4, <1>5, <1>6, <1>7, <1>8, <1>9 DEF Next, Running, User

\* Connect writes to address 0 and nowhere else.
LEMMA ConnectWrites ==
    ASSUME TypeInv, Invert \/ Restore
    PROVE  /\ label = "Connect"
           /\ \A b \in 0..(devBanks - 1), c \in ChunkIds :
                 <<b, c>> # <<0, 0>> => mem'[b][c] = mem[b][c]
<1>1. label = "Connect"
      BY DEF Invert, Restore, TypeInv, ConnectSteps
<1>2. mem' = mem \/ \E v : mem' = Poke0(v)
      BY DEF Invert, Restore
<1>3. ASSUME NEW v, NEW b \in 0..(devBanks - 1), NEW c \in ChunkIds, <<b, c>> # <<0, 0>>
      PROVE  Poke0(v)[b][c] = mem[b][c]
      <2>1. mem \in [0..(devBanks - 1) -> Image] /\ mem[b] \in [ChunkIds -> Byte]
            BY DEF TypeInv, TypeOK, Image
      <2>2. CASE b # 0 BY <2>1, <2>2 DEF Poke0
      <2>3. CASE b = 0
            <3>1. c # 0 BY <1>3, <2>3
            <3>2. Poke0(v)[0] = [mem[0] EXCEPT ![0] = v] BY <2>1, <2>3 DEF Poke0
            <3> QED BY <2>1, <2>3, <3>1, <3>2
      <2> QED BY <2>2, <2>3
<1> QED BY <1>1, <1>2, <1>3

\* Outside of a write no byte of the board changes but the first, and that one
\* only before the frame is connected.
THEOREM SessionMemoryOnlyBy == Spec => MemoryOnlyBy
<1>1. TypeInv /\ [Next]_vars =>
        [/\ label = "Connect" => \A b \in 0..(devBanks - 1), c \in ChunkIds :
                                   <<b, c>> # <<0, 0>> => mem'[b][c] = mem[b][c]
         /\ label = "Disconnect" /\ pc # "write" => mem' = mem]_vars
      <2> SUFFICES ASSUME TypeInv, [Next]_vars
                   PROVE  /\ label = "Connect" =>
                               \A b \in 0..(devBanks - 1), c \in ChunkIds :
                                  <<b, c>> # <<0, 0>> => mem'[b][c] = mem[b][c]
                          /\ label = "Disconnect" /\ pc # "write" => mem' = mem
          OBVIOUS
      <2>1. CASE Invert \/ Restore
            BY <2>1, ConnectWrites
      <2>2. CASE WriteChunk
            <3>1. pc = "write" BY <2>2 DEF WriteChunk
            <3>2. page # NoPage BY <3>1 DEF TypeInv, TypeOK
            <3>3. label # "Connect" BY <3>2 DEF TypeInv
            <3> QED BY <3>1, <3>3
      <2>3. CASE ~MemoryWriters
            BY <2>3, OutsideMemory
      <2> QED BY <2>1, <2>2, <2>3 DEF MemoryWriters
<1> QED BY <1>1, TypeInit, TypeNext, PTL DEF Spec, MemoryOnlyBy

============================================================================
