------------------------------ MODULE Session ------------------------------
(***************************************************************************)
(* A session of the SpokePOV frame with one board: connecting, finding how *)
(* many banks the EEPROM has, reading, writing and verifying the image of  *)
(* a bank, the mirror, rotation and animation settings, and the port test. *)
(*                                                                         *)
(* The frame is a single-threaded event handler: a handler runs to its end *)
(* before the next event is taken.  Each command a handler sends to the    *)
(* board is one step here, because a command may fail; pc names the place  *)
(* in the handler.  The board is external: only what the frame's commands  *)
(* rely on is modelled (an address beyond the memory wraps around, the     *)
(* addresses from EEPROM_ROTOFFSET on are registers).                      *)
(*                                                                         *)
(* An address is a pair <<bank, chunk>>: 1024 * bank + 16 * chunk.  A chunk*)
(* is represented by its first byte, the only one readbyte and writebyte   *)
(* ever touch; read16byte, write16byte and the comparison of OnButtonVerify*)
(* treat the sixteen bytes alike.                                          *)
(***************************************************************************)
EXTENDS Integers, Sequences

CONSTANTS
    Probes,     \* number of powers of two that Connect probes (6 in the code)
    Chunks,     \* 16-byte chunks of a bank (64 in the code)
    ByteMax,    \* largest byte (255 in the code)
    Boards,     \* numbers of banks the board at hand may have
    Contents,   \* bytes a chunk of the board may hold at first
    RegContents,\* bytes a register of the board may hold at first
    Drawn,      \* bytes that drawing or opening a file may put in an image
    Settings,   \* numbers the user may enter for rotation and animation
    Faults      \* TRUE: any command and any opening of a port may fail

(***************************************************************************)
(* 1 << k, for the six values of k in the code.                            *)
(***************************************************************************)
Shift(k) == <<1, 2, 4, 8, 16, 32>>[k + 1]

Byte == 0..ByteMax

ASSUME SessionAssumption ==
    /\ Probes \in 1..6
    /\ Boards \subseteq {Shift(k) : k \in 0..(Probes - 1)}
    /\ Chunks \in Nat \ {0}
    /\ ByteMax \in Nat /\ \A b \in Byte : ByteMax - b # b
    /\ Contents \subseteq Byte /\ Contents # {}
    /\ RegContents \subseteq Byte /\ RegContents # {}
    /\ Drawn \subseteq Byte /\ Settings \subseteq Byte
    /\ Faults \in BOOLEAN

Compl(b) == ByteMax - b              \* (unsigned char) ~b
ChunkIds == 0..(Chunks - 1)
ProbeIds == 0..(Probes - 1)
Image    == [ChunkIds -> Byte]
Blank    == [c \in ChunkIds |-> ByteMax]     \* GetModel of an all-off model
RegBank  == Shift(Probes - 1)        \* EEPROM_ROTOFFSET = RegBank * 1024
Registers == {"rot", "mirror", "anim"}
NoPage   == -1                       \* wxNOT_FOUND

VARIABLES
    devBanks,   \* board: number of 1024-byte banks of its EEPROM
    mem,        \* board: the banks
    reg,        \* board: rotation offset, mirror flag, animation time
    held,       \* board: its RESET line is low
    pc,         \* where the running handler stands, "idle" between events
    i,          \* the handler's loop index
    byte0,      \* Connect: byte[0]
    buf,        \* buff of the read, write and verify handlers
    said,       \* the message box on the screen
    comm,       \* the link: "null", "open" (IsOK) or "broken"
    label,      \* label of the connect button
    banks,      \* number of banks found, and of notebook pages
    page,       \* notebook->GetSelection()
    model,      \* the image of each page, as GetModel encodes it
    mirrorSel,  \* selection of the mirror choice
    missed,     \* history: an unchecked inversion of Connect had no effect
    doubt       \* history: the mirror flag was not read or not written

board == <<devBanks, mem, reg, held>>
locals == <<i, byte0, buf>>
ui == <<comm, label, banks, page, model, mirrorSel>>
history == <<missed, doubt>>
vars == <<board, pc, locals, said, ui, history>>

----------------------------------------------------------------------------
(* The board. *)

\* The EEPROM decodes only the address lines it has: a bank number wraps.
Phys(b) == b % devBanks

\* What the board answers to a read of the first byte of bank b; from RegBank
\* on the first register answers.
Peek(b) == IF b = RegBank THEN reg["rot"] ELSE mem[Phys(b)][0]

\* The bank that the page shown reads and writes: currbank * 1024 + i.
PageBankNextToIt == Phys(page + 1)      \* mutant: the number shown to the user
PageBank == Phys(page)

\* A command reaches the board, and its answer comes back.
Up == comm = "open" /\ ~held

CanFail == Faults \/ ~Up

\* Memory after a one-byte write of v to address 0.
PokeAt1024(v) == [mem EXCEPT ![Phys(1)][0] = v]     \* mutant
Poke0(v) == [mem EXCEPT ![0][0] = v]

----------------------------------------------------------------------------
(* Events are taken when no handler runs and no message box is open. *)

Ready == pc = "idle" /\ said = "none"

ConnectedReady == Ready /\ label = "Disconnect"

\* A handler returns, its locals go out of scope, m is left on the screen.
Return(m) ==
    /\ pc' = "idle"
    /\ said' = m
    /\ i' = 0
    /\ byte0' = 0
    /\ buf' = Blank

Dismiss ==
    /\ pc = "idle" /\ said # "none"
    /\ said' = "none"
    /\ UNCHANGED <<board, pc, locals, ui, history>>

Init ==
    /\ devBanks \in Boards
    /\ mem \in [0..(devBanks - 1) -> [ChunkIds -> Contents]]
    /\ reg \in [Registers -> RegContents]
    /\ held = FALSE
    /\ pc = "idle"
    /\ i = 0
    /\ byte0 = 0
    /\ buf = Blank
    /\ said = "none"
    /\ comm = "null"
    /\ label = "Connect"
    /\ banks = 0
    /\ page = NoPage
    /\ model = [p \in {} |-> Blank]
    /\ mirrorSel = -1
    /\ missed = FALSE
    /\ doubt = FALSE

----------------------------------------------------------------------------
(* Connect. *)

\* OnConnect, Connect: open the port and reset the board.
OpenPort ==
    /\ Ready /\ label = "Connect"
    /\ \/ /\ comm' = "open"
          /\ held' = FALSE
          /\ pc' = "probe"
          /\ UNCHANGED said
       \/ /\ Faults
          /\ comm' = "broken"
          /\ said' = "connectFailed"
          /\ UNCHANGED <<pc, held>>
    /\ missed' = FALSE
    /\ doubt' = FALSE
    /\ UNCHANGED <<devBanks, mem, reg, locals, label, banks, page, model, mirrorSel>>

\* Any of Connect's checked commands fails: the port stays open.
GiveUp ==
    /\ CanFail
    /\ Return("connectFailed")
    /\ UNCHANGED <<devBanks, reg, held, ui, history>>

\* i++ of the probing and of the detection loop.
NextProbeStuck == IF pc = "restore" THEN i ELSE i + 1    \* mutant: no j++
NextProbe == i + 1

\* Read byte[i] at 1024 * (1 << i).
Probe ==
    /\ pc = "probe"
    /\ \/ /\ Up
          /\ byte0' = IF i = 0 THEN Peek(Shift(0)) ELSE byte0
          /\ IF NextProbe < Probes
             THEN i' = NextProbe /\ UNCHANGED <<pc, banks>>
             ELSE i' = 0 /\ pc' = "invert" /\ banks' = 0
          /\ UNCHANGED <<board, buf, said, comm, label, page, model, mirrorSel, history>>
       \/ GiveUp /\ UNCHANGED mem

\* The detection loop, i is its j.  The result of this write is not looked at.
InvertForgotten ==                      \* mutant: the ~ is missing
    /\ pc = "invert" /\ Up
    /\ mem' = Poke0(byte0)
    /\ pc' = "check"
    /\ UNCHANGED <<devBanks, reg, held, locals, said, ui, history>>
Invert ==
    /\ pc = "invert"
    /\ \/ /\ Up
          /\ mem' = Poke0(Compl(byte0))
          /\ UNCHANGED missed
       \/ /\ CanFail
          /\ missed' = TRUE
          /\ UNCHANGED mem
    /\ pc' = "check"
    /\ UNCHANGED <<devBanks, reg, held, locals, said, ui, doubt>>

\* Does the byte at 1024 * (1 << i) show the inversion?
Check ==
    /\ pc = "check"
    /\ \/ /\ Up
          /\ IF Peek(Shift(i)) = Compl(byte0)
             THEN banks' = Shift(i) /\ pc' = "pages"
             ELSE pc' = "restore" /\ UNCHANGED banks
          /\ UNCHANGED <<board, locals, said, comm, label, page, model, mirrorSel, history>>
       \/ GiveUp /\ UNCHANGED mem

Restore ==
    /\ pc = "restore"
    /\ \/ /\ Up
          /\ mem' = Poke0(byte0)
          /\ i' = NextProbe
          /\ pc' = IF NextProbe < Probes THEN "invert" ELSE "pages"
          /\ UNCHANGED <<devBanks, reg, held, byte0, buf, said, ui, history>>
       \/ GiveUp /\ mem' \in {mem, Poke0(byte0)}

\* A page for every bank, then the unchecked read of the mirror flag: a failed
\* read leaves mir at its initial 0 or at a byte that came in before it failed.
MakePages ==
    /\ pc = "pages"
    /\ model' = [p \in 0..(banks - 1) |-> Blank]
    /\ page' = IF banks = 0 THEN NoPage ELSE 0
    /\ \E mir \in Byte :
          /\ \/ Up /\ mir = reg["mirror"] /\ doubt' = (mir \notin {0, 1})
             \/ CanFail /\ doubt' = TRUE
          /\ mirrorSel' = IF mir \in {0, 1} THEN mir ELSE mirrorSel
    /\ label' = "Disconnect"
    /\ Return("none")
    /\ UNCHANGED <<board, comm, banks, missed>>

DisconnectKeepsLabel ==                 \* mutant
    /\ ConnectedReady
    /\ model' = [p \in {} |-> Blank]
    /\ page' = NoPage
    /\ banks' = 0
    /\ comm' = "null"
    /\ UNCHANGED <<board, pc, locals, said, label, mirrorSel, history>>
Disconnect ==
    /\ ConnectedReady
    /\ label' = "Connect"
    /\ model' = [p \in {} |-> Blank]
    /\ page' = NoPage
    /\ banks' = 0
    /\ comm' = "null"
    /\ UNCHANGED <<board, pc, locals, said, mirrorSel, history>>

----------------------------------------------------------------------------
(* The pages. *)

SelectPage(p) ==
    /\ ConnectedReady
    /\ p \in 0..(banks - 1)
    /\ page' = p
    /\ UNCHANGED <<board, pc, locals, said, comm, label, banks, model, mirrorSel, history>>

\* Drawing on the page, or opening a file in it.
Edit(c, v) ==
    /\ ConnectedReady /\ page # NoPage
    /\ model' = [model EXCEPT ![page][c] = v]
    /\ UNCHANGED <<board, pc, locals, said, comm, label, banks, page, mirrorSel, history>>

Start(handler, b) ==
    /\ ConnectedReady /\ page # NoPage
    /\ pc' = handler
    /\ i' = 0
    /\ buf' = b
    /\ UNCHANGED <<board, byte0, said, ui, history>>

StartWriteUnread == Start("write", Blank)        \* mutant: no GetModel
StartWrite  == Start("write", model[page])
StartRead   == Start("read", Blank)
StartVerify == Start("verify", model[page])

\* The loops over the chunks of a bank end after this chunk.
OneChunkShort == i + 2 >= Chunks        \* mutants
OneChunkMore == i = Chunks
LastChunk == i + 1 = Chunks

\* write16byte(currbank * 1024 + i, buff + i); a failed one may have left
\* anything in the chunk if the board heard it.
WriteChunk ==
    /\ pc = "write"
    /\ \/ /\ Up
          /\ mem' = [mem EXCEPT ![PageBank][i] = buf[i]]
          /\ IF LastChunk
             THEN Return("none")
             ELSE i' = i + 1 /\ UNCHANGED <<pc, byte0, buf, said>>
       \/ /\ CanFail
          /\ \E v \in Byte :
                mem' = IF Up THEN [mem EXCEPT ![PageBank][i] = v] ELSE mem
          /\ Return("writeFailed")
    /\ UNCHANGED <<devBanks, reg, held, ui, history>>

\* read16byte into buff; SetModel only when all the chunks have come.
ReadChunk ==
    /\ pc = "read"
    /\ \/ /\ Up
          /\ LET got == [buf EXCEPT ![i] = mem[PageBank][i]]
             IN IF LastChunk
                THEN /\ model' = [model EXCEPT ![page] = got]
                     /\ Return("none")
                ELSE /\ i' = i + 1
                     /\ buf' = got
                     /\ UNCHANGED <<pc, byte0, said, model>>
       \/ /\ CanFail
          /\ Return("readFailed")
          /\ UNCHANGED model
    /\ UNCHANGED <<board, comm, label, banks, page, mirrorSel, history>>

\* read16byte into minibuff and compare; the first difference ends the loop.
VerifyChunk ==
    /\ pc = "verify"
    /\ \/ /\ Up
          /\ IF buf[i] # mem[PageBank][i]
             THEN Return("verifyFailed")
             ELSE IF LastChunk
                  THEN Return("verifySucceeded")
                  ELSE i' = i + 1 /\ UNCHANGED <<pc, byte0, buf, said>>
       \/ CanFail /\ Return("readFailed")
    /\ UNCHANGED <<board, ui, history>>

----------------------------------------------------------------------------
(* The settings. *)

\* The registers after a one-byte write of v to register r.
StoredInFirst(r, v) == [reg EXCEPT !["rot"] = v]     \* mutant
Stored(r, v) == [reg EXCEPT ![r] = v]

\* A one-byte write of v to register r, whose failure only shows a message.
WriteSetting(r, v) ==
    \/ /\ Up
       /\ reg' = Stored(r, v)
       /\ Return("none")
    \/ /\ CanFail
       /\ reg' \in {reg, IF Up THEN Stored(r, v) ELSE reg}
       /\ Return("settingFailed")

\* OnMirror: the choice shows the new selection before it is written.
ChooseMirror(m) ==
    /\ ConnectedReady
    /\ mirrorSel' = m
    /\ WriteSetting("mirror", m)
    /\ doubt' = (said' = "settingFailed")
    /\ UNCHANGED <<devBanks, mem, held, comm, label, banks, page, model, missed>>

\* OnRotation, OnAnimation: read the present value, ask for the new one.
AskSetting(r) ==
    /\ ConnectedReady
    /\ \/ Up /\ pc' = r /\ UNCHANGED <<locals, said>>
       \/ CanFail /\ Return("settingFailed")
    /\ UNCHANGED <<board, ui, history>>

EnterSetting(v) ==
    /\ pc \in {"rot", "anim"}
    /\ WriteSetting(pc, v)
    /\ UNCHANGED <<devBanks, mem, held, ui, history>>

CancelSetting ==
    /\ pc \in {"rot", "anim"}
    /\ Return("none")
    /\ UNCHANGED <<board, ui, history>>

----------------------------------------------------------------------------
(* Config > Test Port..., which may be chosen at any time. *)

\* The pin that each of the six questions is about, and the level it is set to.
TestPins == <<<<"MOSI", TRUE>>, <<"MOSI", FALSE>>, <<"RESET", TRUE>>,
              <<"RESET", FALSE>>, <<"CLK", TRUE>>, <<"CLK", FALSE>>>>

\* setpin of question q; RESET is the one the board's state depends on.
SetTestPin(q) ==
    held' = IF TestPins[q][1] = "RESET" THEN ~TestPins[q][2] ELSE held

\* The frame's link is replaced; opening a port leaves its pins at any level.
TestOpen ==
    /\ Ready
    /\ \/ comm' = "open" /\ pc' = "test" /\ held' \in BOOLEAN /\ UNCHANGED said
       \/ Faults /\ comm' = "broken" /\ said' = "portFailed" /\ UNCHANGED <<pc, held>>
    /\ UNCHANGED <<devBanks, mem, reg, locals, label, banks, page, model, mirrorSel, history>>

\* "Connect dongle" (i = 0, any button goes on), or Yes to question i.
TestYes ==
    /\ pc = "test"
    /\ IF i < Len(TestPins)
       THEN i' = i + 1 /\ SetTestPin(i + 1) /\ UNCHANGED <<pc, byte0, buf, said>>
       ELSE Return("testPassed") /\ UNCHANGED held
    /\ UNCHANGED <<devBanks, mem, reg, ui, history>>

\* No or Cancel to a question.
TestStop ==
    /\ pc = "test" /\ i > 0
    /\ Return("none")
    /\ UNCHANGED <<board, ui, history>>

----------------------------------------------------------------------------

\* Steps of a handler that no user is waited for.
Running ==
    \/ Probe \/ Invert \/ Check \/ Restore \/ MakePages
    \/ WriteChunk \/ ReadChunk \/ VerifyChunk

\* What the user does.
User ==
    \/ OpenPort \/ Disconnect \/ Dismiss
    \/ \E p \in 0..(banks - 1) : SelectPage(p)
    \/ \E c \in ChunkIds, v \in Drawn : Edit(c, v)
    \/ StartWrite \/ StartRead \/ StartVerify
    \/ \E m \in {0, 1} : ChooseMirror(m)
    \/ \E r \in {"rot", "anim"} : AskSetting(r)
    \/ \E v \in Settings : EnterSetting(v)
    \/ CancelSetting
    \/ TestOpen \/ TestYes \/ TestStop

Next == Running \/ User

Spec == Init /\ [][Next]_vars

\* A started handler goes on by itself.
FairSpec == Spec /\ WF_vars(Running)

----------------------------------------------------------------------------
(* Properties. *)

Handlers == {"idle", "probe", "invert", "check", "restore", "pages",
             "write", "read", "verify", "rot", "anim", "test"}
Messages == {"none", "connectFailed", "writeFailed", "readFailed", "verifyFailed",
             "verifySucceeded", "settingFailed", "portFailed", "testPassed"}

\* Every variable has its type, and the loop index its handler's range.
TypeOK ==
    /\ devBanks \in Boards
    /\ mem \in [0..(devBanks - 1) -> Image]
    /\ reg \in [Registers -> Byte]
    /\ held \in BOOLEAN
    /\ pc \in Handlers
    /\ i \in Nat
    /\ pc \in {"probe", "invert", "check", "restore"} => i \in ProbeIds
    /\ pc \in {"write", "read", "verify"} => i \in ChunkIds
    /\ pc = "test" => i \in 0..Len(TestPins)
    /\ byte0 \in Byte
    /\ buf \in Image
    /\ said \in Messages
    /\ comm \in {"null", "open", "broken"}
    /\ label \in {"Connect", "Disconnect"}
    /\ banks \in {0} \cup {Shift(k) : k \in ProbeIds}
    /\ page \in {NoPage} \cup 0..(banks - 1)
    /\ pc \in {"write", "read", "verify"} => page # NoPage
    /\ label = "Disconnect" => model \in [0..(banks - 1) -> Image]
    /\ mirrorSel \in {-1, 0, 1}
    /\ missed \in BOOLEAN
    /\ doubt \in BOOLEAN

\* Connect never finds more banks than the board has, so that no two pages
\* stand for the same memory, unless the unchecked inversion of its detection
\* loop failed (spokepov.cpp, Connect: writebyte(0, ~byte[0])).
PagesDistinct ==
    ~missed => \A p, q \in 0..(banks - 1) : Phys(p) = Phys(q) => p = q

\* Writing the image of one page leaves what every other page would read alone,
\* however the write ends.
OtherPage(p) == p \in 0..(banks - 1) /\ p # page
WriteIsolation ==
    [][pc = "write" /\ ~missed =>
         \A p \in 0..(banks - 1) : OtherPage(p) => mem'[Phys(p)] = mem[Phys(p)]]_vars

\* OnButtonWrite stops at the first chunk that fails and what came before it is
\* in the board: while it runs the bank holds a prefix of the page's image, and
\* if it ends without a message the whole of it.
WritePrefix ==
    pc = "write" => /\ buf = model[page]
                    /\ \A c \in 0..(i - 1) : mem[PageBank][c] = buf[c]
WriteOrMessage ==
    [][pc = "write" /\ pc' = "idle" /\ said' = "none" =>
         mem'[PageBank] = model[page]]_vars

\* OnButtonRead is all or nothing: the page's image becomes the bank's, or a
\* message says that it did not, and no other page's image changes.
ReadAllOrNothing ==
    [][pc = "read" /\ pc' = "idle" =>
         IF said' = "none"
         THEN model' = [model EXCEPT ![page] = mem[PageBank]]
         ELSE said' = "readFailed" /\ model' = model]_vars

\* The verdict of OnButtonVerify is right when the user sees it.
VerdictRight ==
    /\ said = "verifySucceeded" => mem[PageBank] = model[page]
    /\ said = "verifyFailed"    => mem[PageBank] # model[page]

\* The mirror choice shows what the board does, unless a command about the flag
\* failed or the flag was neither 0 nor 1.
MirrorShown ==
    label = "Disconnect" /\ ~doubt /\ pc = "idle" => mirrorSel = reg["mirror"]

\* No handler sends a command through a deleted link: whenever one runs, and
\* whenever the connected frame can take an event, comm is an object.
LinkExists == (label = "Disconnect" \/ pc # "idle") => comm # "null"

\* A session touches the board's memory only at address 0 until it is connected
\* (the detection), and afterwards only in a write.
MemoryOnlyBy ==
    [][/\ label = "Connect" => \A b \in 0..(devBanks - 1), c \in ChunkIds :
                                 <<b, c>> # <<0, 0>> => mem'[b][c] = mem[b][c]
       /\ label = "Disconnect" /\ pc # "write" => mem' = mem]_vars

\* Every handler that waits for no user comes to its end.
Unattended == {"probe", "invert", "check", "restore", "pages", "write", "read", "verify"}
HandlersReturn == (pc \in Unattended) ~> (pc = "idle")

============================================================================
