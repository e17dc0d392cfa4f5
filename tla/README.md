# SpokePOV in TLA+

SpokePOV is the desktop program that draws images for a SpokePOV board (LEDs on
the spokes of a bicycle wheel) and stores them in the board's EEPROM. This
directory holds TLA+ models of the program, TLC configurations that check them
on small instances, and TLAPS proofs about them.

## 1. Inventory

The program is a single-threaded wxWidgets application. Events are handled one
at a time; a handler that talks to the board blocks the window until it
returns. Nothing runs concurrently inside the program: what makes it hard is
the board on the other side of an unreliable link, modal dialogs and repaints
that come between handlers, and long sequences of menu commands whose effects
on the window's state overlap.

| component | source | state it keeps | operations |
|---|---|---|---|
| session (the frame) | `spokepov.cpp`, `spokepov.h`, `globals.h` | `comm`, the connect button's label, `banks`, `wheelpanel[]`, the notebook's pages, the mirror choice | `OnConnect`/`Connect`, `OnButtonRead/Write/Verify`, `OnMirror`, `OnRotation`, `OnAnimation`, `OnTestPort` |
| configuration and menus | `spokepov.cpp` | `num_leds`, `hub_size`, `comm_delay`, `commlink`, `commport_*`, the file behind `wxConfig`, the Port submenu | the constructor, `OnPort*`, `OnWheelSize*`, `OnHubSize`, `OnCommDelay` |
| wheel panel | `wheelpanel.cpp/.h` | `model`, `drawstate`, `origimg`, `currimg` and its position, `savedname`, the visible buttons | mouse handlers, `Draw`, `ImportBMP`, `LoadModel`, `SaveModel`, `setup*` |
| image codec | `wheelpanel.cpp` | none | `GetModel`, `SetModel`, the arcs of `Draw`, `getLEDForXYPoint` |
| command layer | `communication.cpp/.h` | `type`, `delay`, `fd` | `readbyte`, `read16byte`, `writebyte`, `write16byte`, `reset` |
| byte and bit layer | `communication.cpp` | pin levels | `spi_xfer`, `spi_get`, the USB, serial and parallel `setpin`/`getpin` |
| serial pins | `serbb_posix.cpp`, `serbb_win32.cpp` | `oldmode`, the cached `dtr`, `rts`, `txd` | `serbb_open/close/setpin/getpin` |
| parallel pins | `ppiwin.cpp`, `ppi.h` | none: the registers are read back | `ppi_open/close/set/clr/get` |
| picture dialog | `imagemessagebox.cpp/.h` | return code | `OnYes`, `OnNo` |

Interactions: a handler of the frame calls the command layer, which calls the
byte layer, which sets and reads pins; the answer comes back as a Boolean that
some callers ignore. Reading, writing and verifying copy images between the
board and the panel of the notebook's current page. The frame changes a panel's
`num_leds` and `hubsize` directly. Drawing is a callback of its own: `Refresh`
only asks for it.

What makes each component correct:

* session: pages never stand for the same memory; a transfer that stops half-way
  leaves what the message says; a verdict is right when it is read; the board's
  memory is touched by nothing but detection and writes; handlers return;
* configuration: the menus show what is in force, the next run finds what was
  chosen and flushed, a session runs with what the frame has;
* wheel panel: the buttons shown match what the mouse does, a picture that is
  adjusted is what is stored, a saved file brings its picture back;
* image codec and drawing: `SetModel` undoes `GetModel`, the arcs light exactly
  the lit rows, `Draw` ends, what the mouse draws is shown where the mouse was;
* byte, bit and pin layers: a command that says it was done was done; one that
  was disturbed says so; the two ends, once apart, come together again.

The hazards, each at its line, with the properties that cover it or the reason
why none does, are in `PROJECT.json`.

## 2. Modules

| module | models | checked by | proofs |
|---|---|---|---|
| `Session` | `SpokePOVFrame`'s connect, detection, transfers, settings, port test | `MCSession` | `SessionProofs` |
| `Config` | the constructor's configuration, the Config menu, the end of a run | `MCConfig` | `ConfigProofs` |
| `WheelPanel` | one `WheelPanel`: mouse, pictures, files | `MCWheelPanel` | `WheelPanelProofs` |
| `WheelImage` | `GetModel`, `SetModel`, the arc loop of `Draw` | `MCWheelImage` | `WheelImageProofs` |
| `WheelPoints` | `getLEDForXYPoint`, `getXYPointForLED` (operators only) | `MCWheelImage` | `WheelHandProofs` |
| `WheelHand` | drawing by hand on a `WheelImage`, from the mouse to the arcs | `MCWheelImage` | `WheelHandProofs` |
| `Commands` | what a command promises to its caller (abstract) | `MCSpiLink` | `SpiStepProofs` |
| `SpiLink` | the commands on the wire: bytes, bits, USB transfers, and the board | `MCSpiLink` | `SpiLinkProofs` (types), `SpiStepProofs` (ends in step), `SpiSlipProofs` (after a loss) |
| `Pins` | pin numbers and polarities of each port (operators only) | `MCSpiLink` | `SpiLinkProofs` |

`WheelHand` extends `WheelImage` and instantiates `WheelPoints`; `SpiLink` extends
`Pins` and is shown to implement `Commands`. Otherwise modules share no state but
through these seams: a page's `model` in `Session`
is what `GetModel` of `WheelImage` makes of a panel's model; `Read` of
`WheelPanel` is the end of `OnButtonRead`; `WheelSize` of `WheelPanel` is what
`OnWheelSize` of `Config` does to the panels of a session; a step of `Session` that
sends a command is a `Call` and a `Return` of `Commands`; a cell that the mouse hits
in `WheelPanel` is a point of `WheelHand`. The handlers of one module leave the
state of the others alone, apart from these.

### Session

Variables are named after the code's (`comm`, `banks`, `model`, the handler's
locals `i`, `buf`, and `byte0` for `byte[0]`). The window shows `label`, `page`
(the notebook's selection) and `mirrorSel`; `said` is the message box, and no
event is taken while it is up. `pc` names the place in the running handler.
`devBanks`, `mem`, `reg` and `held` are the board.

* A step is one command to the board, with what the handler does up to the next
  one. Between two commands the board may fail, which is where a handler can
  be cut short. Between events the handler is `"idle"`.
* The board is external: an EEPROM of `devBanks` banks whose address lines wrap
  (`Phys`), three registers from `EEPROM_ROTOFFSET` on, deaf while RESET is low.
* A chunk of 16 bytes stands as its first byte: `read16byte`, `write16byte` and
  the comparison loop treat the sixteen alike, and `readbyte`/`writebyte` touch
  only the first of a bank.
* Faults: a command arrives whole or fails. A failed read of a chunk gives
  nothing, a failed write of a chunk may leave any byte in it, a failed write of
  one byte may have been done or not. That is what `Commands` promises, and
  `SpiLink` keeps it until something is lost on the wire; what happens after that
  is described there. Without `Faults` no command fails while the board can hear.
* `missed` (an unchecked inversion had no effect) and `doubt` (a command about
  the mirror flag failed, or the flag is neither 0 nor 1) are history variables:
  they name the two places where the code does not look.

### Config

`file`, `cfg` and `frame` are three records with the keys of the configuration:
what survives, what `wxConfig` has in memory, and the frame's fields. `SetValue`
is `SetConfigValue`, `SetAndSave` adds `SaveConfiguration`. On Windows `wxConfig`
is the registry and there is nothing to flush. `entries` are the submenus of the
Config menu in their order, `checked` the radio items, `used` the settings that
the panels and the link of the running session were made with.

* A run ends with `Leave`, and the next one begins with its constructor, `Restart`,
  on what `file` holds. It makes no difference whether the program is left or
  killed: wxWidgets destroys, and so flushes, the global `wxConfig` in
  `wxApp::OnExit`, but `SpokePOV_App::OnExit` (`spokepov.cpp:66`) does not call it,
  and nobody else deletes `cfgFile`. A hub size or a delay that was entered on a
  posix build is therefore lost with the run, unless a later choice flushed it:
  `OnHubSize` and `OnCommDelay` only write. `unsaved` is a history variable with the
  keys for which this is so.
* A handler is one step. A kill between the two flushes of `OnPortSerial` leaves the
  old port with the new type, which the next start handles as it does any port that
  is not in the menu.
* The numbers in a file may be any integers: a `num_leds` that no wheel has stays
  from run to run, with BMX checked in the menu, until a size is chosen. What would
  be drawn of such a wheel is not modelled.
* `wild` is undefined behaviour: a build without `W32_NATIVE` never sets
  `portMenuP`, and `OnPortSerial` compares the submenus of all entries with it.
  If it is null, the entries that have no submenu match, so that Hub Size, Test
  Port and Comm Delay are replaced by a Port entry. Any other stray value
  matches nothing.
* `taken` and `tested` are history variables: the port types chosen in this run, with
  `"size"` if a wheel size was, and that a port test replaced the link of the
  session.

### WheelPanel

The model is the code's `model[row][column]`. Points of the window are replaced
by what they hit: a cell, the inside of the picture, a corner. The place and size
of a picture are replaced by `look`, the cells it lights; a drag may change them
to any of `Looks`. The four resize states differ only in geometry and are one.
`dirty` is a repaint that has been asked for and not come; `Paint` may come at
any time, as wxWidgets may repaint unasked. `disk` holds files as the header's
numbers (version, LEDs and rows) and the cells that follow, `kept` remembers what
was shown when a file was saved.

* A row has the `Width` cells it is allocated with, 30 in the code. A press one
  column past them, which `OnLeftDown` lets through on a road wheel, is
  `HandEditPast`: it may find anything there, and what it writes is not in the model.
  Which other object that write may hit is not followed.
* `ResizeNull` is the drag of a corner after Open has deleted the image: the code goes
  on to use the null `origimg` and the program ends. The panel of the next program is
  a new one, as is that of a new connection (`Reconnect`).
* `SaveModel` writes 30 as the size whatever the wheel's is, and `Loadable` compares it
  with the wheel's: a BMX wheel refuses every file that it saved itself. No text of the
  repository promises otherwise but the comment "basically the size"
  (`wheelpanel.cpp:218`). `RoadRoundTrip` is about the wheel where 30 is right.

### WheelImage

`GetModel` and `SetModel` are functions between pictures and 4 bytes a row, byte
and bit order as in the code. A row is allocated with 30 cells (`Width`) and its four
bytes have 32 bits: `GetModel` reads two cells past the row, where it may find any of
`Strays` (`WithPast`), and what `SetModel` writes there is no part of the model
(`RowsOf`). That the picture comes back whatever lies there is `RoundTrip`. The loop of `Draw` runs over one ring, a step for
each turn of its inner loops; `arcs` collects the rows covered by
`DrawEllipticArc`.

### WheelPoints and WheelHand

A point of the window is an angle in parts of a degree and a distance from the
hub's rim in half LEDs. `AngleOf` keeps what `getLEDForXYPoint` does with it: the
cut to whole degrees towards zero before the quadrant is put right, the branches
on the signs of x and y which leave out the axes, and `% 360`. `PointsAgree` says
where pointing and drawing agree: a hit's row is drawn within two rows of the
mouse; straight down is taken for straight up; less than a degree to the left of
straight down is row 384, off the wheel, which the mouse handlers refuse.
What is left out is the rounding of floats and of points to whole pixels, and
that the code's PI is 3.141592.

`WheelHand` joins the two halves: `OnLeftDown` and `OnMotion` turn points into cells
of the model, and then one ring that the mouse was in is drawn by `WheelImage`.
`OnLeftDownPast` is the press that passes the check of line 455 and has no cell; the
strokes of `OnMotion` have the right check. `HandTypeOK` says how far the mouse
reaches (`TouchedBounds`): never past the rows, past the columns by one at most, and
there by the press alone. That it gets there at all is the run `press`.
`UnderMouse` compares the arcs with the points. It is stated for a road wheel: on a
wheel of `num_leds` < 30, a click changes column `lednum` while `Draw` shows column
`30 - num_leds + led`, so that a click lights another ring, or none. No text of the
repository says otherwise, so this is recorded as a hazard and not as a finding.

### Commands, SpiLink and Pins

`Commands` is the promise that `Session` is written on: a command that returns true
has been done, one that returns false has at most stored some of its own bytes in
its own place, and nothing else ever changes the board's memory. The promise is
made while `trust` holds; a loss may end it at any time, a new connection may renew
it.

`SpiLink` is `communication.cpp` below the command layer, one action per edge of CLK
or per USB transfer, with the pins of `Pins` under it:

* `Connect` is the constructor of a link and `reset()`, `Disconnect` its destructor,
  `Call` and `Return` the begin and end of a command, `Sent`, `Sends` and `Answers` the
  bytes of the four commands, `ClockHigh` and `ClockLow` the two halves of the bit
  loops, `Transfer` a `usb_control_msg` of the dongle. `Exit` is the `exit(1)` of the
  Windows serial layer when the adaptor is gone; on posix nobody looks at the
  result of `ioctl`, and what is read is whatever an uninitialized word holds
  (followed only as far as it makes the status or not).
* The board is external, with its bit counter, the bytes of a command so far and
  the bytes it still owes. It has no way to be told that a command was given up.
* Faults: a rise of CLK that the board misses, a USB transfer that does not reach
  the board (`"unheard"`) or whose answer does not come back (`"unanswered"`), control
  messages of the reset that are lost, an adaptor pulled out.
* `slipped` is a history variable: whether something was lost that may leave the
  ends out of step. `trust` of `Commands` is `up /\ slipped = "no"`.

What the run shows: until something is lost, the ends are in step at every edge
(`InStep`), every command succeeds (`Works`) and is what it promises (`Promised`, the
refinement). When one USB transfer of a command is lost, that command fails
(`SlipNoticed`), unless a byte of the memory looks like the status 0x80, or a byte to
be written looks like a command's code: if it is the code of a `write16byte` that was
lost, the board waits for one in what follows, finds it in the data, and may
acknowledge that one in time for the status. (Chunks of two bytes are too short for
this to happen; the proof for every chunk did not go through without it, and TLC
then showed it with chunks of four.) After that
the promise is over: the *next* command is partly taken for the clocks of the last
answer and may be told "ok" by a status that was not its own. Reads over USB mend
this by themselves (`Cured`), since a zero is no command and `spi_get` sends zeros;
writes need not, and a missed clock over pins is never mended, for there is nothing
to align bytes again but RESET. `Session` does not model commands out of step: what
it says holds up to the first loss of this kind in a connection, and for losses
that show as a failed command.

A connection over a posix serial port may begin with CLK high, as opening a port
raises DTR and `reset()` does not lower it; the board then misses the first bit of
the first command. `slipped` is `"before"` in such a connection and nothing is
promised for it. On Windows `serbb_open` disables DTR, on a parallel port it is
whatever was there.

## 3. Runs

| run | asks | bounds |
|---|---|---|
| `images` | detection, write, read and verify with any command failing | boards of 1 and 2 banks, 3 probes, 2 chunks, bytes 0 and 1 |
| `settings` | mirror, rotation, animation; handlers return | one bank, bytes 0 to 3 |
| `panel` | every order of events on a panel | 2 rows of 2 cells, wheels of 1 and 2 LEDs, one file |
| `image` | bytes of a picture, arcs of a ring, drawing by hand | 8 rows: every ring, cells at the ends of bytes and rows (columns 0, 1, 7, 8, 16, 29), two patterns past the rows; 12 degrees of 2 parts; a press and a stroke |
| `link` | commands on the wire over each kind of link | bytes of 4 bits, chunks of 2 bytes, 2 cells, one address, one fault in a connection, 2 commands after a slip over USB |
| `config` | every order of menu choices, sessions and runs | both builds, 0 to 2 serial ports, files missing, wrong or with any port type and with the sizes -1, 22 and 30 |
| `invert`, `largest`, `test_port`, `drag_image`, `press`, `wheel_size` | what a text of the program says, refuted | the smallest instance with the case |

Why these bounds are enough. Detection compares the number of banks found with
the number there are. With three probes (1, 2 and 4 banks) on boards of one and two
banks, a board is smaller than a probe, equal to it and larger than it, and the loop
can run past a match that it missed; a byte and its complement are all that a
comparison tells apart. A board as large as the last probe is the violation
`largest`; the proofs are for all. A transfer is a loop over chunks: with two
there is a first, a last and a place between them, and with two banks another
page to disturb. Settings need a flag that is neither 0 nor 1, hence bytes up to
3. A panel needs a wheel smaller than the model, one as large as the model, which a
press can leave, and a second row to tell rows apart. Eight rows make
every pattern of lit and unlit runs that the arc loop distinguishes, at either
end; with twelve degrees each quadrant has a point inside and on its axes, and each
degree a part to be cut off (the wheel of 256 rows and 360 degrees is covered by the
theorem `HandPointsAgree`). A press and one stroke draw a point, a longer arc, two
arcs, or two halves of one. On the wire, four bits hold the four codes, a status, an
idle byte, and data that looks like the status or like a command; two bytes are a
chunk with a first and a last; one fault can hit any bit or byte of a command, and
what follows from it does not need a second. Over pins no command is tried after a
slip, as nothing is claimed of it. With chunks of two bytes one clean read is enough to
be back in step (`Enough`): after a loss the board owes at most a chunk and its
status, or waits for at most a chunk of data, and a read is five bytes: in general
`Enough` has to be such that 5 * `Enough` >= `Chunk` + 3 (`EnoughReads`, from the proof
of `Cured`), which is four reads for chunks of sixteen. Addresses are never a command's code, which holds
for the bytes of 16-byte-aligned addresses up to 0x8002. Two serial ports and none make a configured port that is first, later or
gone. What the proofs show does not depend on these bounds.

`CHECK_DEADLOCK FALSE` stands in `Image.cfg` and `ImagePress.cfg` only: the arc loop ends. Everywhere
else an event is always possible.

### What the violations show

* `invert`: Connect inverts "one byte" (`spokepov.cpp:580`), but the byte it
  inverts is bank 1's, and it is written to bank 0. On a board with several
  banks the first byte of bank 0 is not the same after a Connect.
* `largest`: the probe for 32 KB (`spokepov.cpp:562`) reads a register, the
  frame is connected with no page.
* `test_port`: "communication is ready to go!" (`spokepov.cpp:824`) is said with
  the board held in reset and the session's link replaced.
* `drag_image`: the panel still says "You can now resize ..." (`wheelpanel.cpp:47`)
  after its picture is gone.
* `press`: "this SpokePOV only supports %d leds" (`wheelpanel.cpp:157`, of `num_leds`),
  but a click just outside of the last ring has `lednum = num_leds`, which line 455
  lets through: on a road wheel it reads and toggles a cell past `new bool[30]`
  (line 31).
* `wheel_size`: the menu checks "BMX (16\") wheel" (`spokepov.cpp:290`) and the
  next session draws the other wheel.

## 4. Fairness

Safety runs assume none. `HandlersReturn` is checked under weak fairness of
`Running`, the steps of a handler that waits for no user: the program has one
thread, a handler that has been entered goes on by itself, and each command it
sends comes back, with an answer or a failure. No fairness is assumed of the
user (nobody has to press anything), and so handlers that wait for a dialog are
not in the property. `DrawEnds` assumes weak fairness of the loop's two steps,
for `Draw` is one call; with the mouse in the run no fairness is assumed of it.
`SpiLink` assumes none and claims no liveness: its loops are bounded by construction,
and a handler's return is `HandlersReturn`.

## 5. Proofs

All theorems hold for every value of the constants that the named assumptions
allow. `SessionAssumption`, `ConfigAssumption`, `PanelAssumption`, `ImageAssumption` and
`LinkAssumption` say that constants have their types, that a byte differs from its
complement, that no wheel has more LEDs than the columns allocated, that port names in
a menu differ, that codes of different commands differ and are no byte of an
address. `HandAssumption` adds that there are fewer rows than degrees and an even
number of them (256 and 360) and that an angle may be a part of a degree;
`CodesNotZero` that 0 is no command (`communication.h:7-10`, and `spi_get` sends zeros);
`EnoughReads` is how many reads `Cured` speaks of. Every safety invariant and every
action property that a passing run checks has a theorem, and so has the refinement.

* **Session.** `TypeInv` adds to `TypeOK` that a page is selected only while
  connected: without it the bound on `page` is lost when banks are counted
  anew. `PagesDistinct` is not inductive. `DetectInv` says that in the detection
  loop either the inversion has reached address 0, or was lost, and that the
  banks tried so far are fewer than the board has; that 1 << k wraps to address
  0 exactly on boards of at most 1 << k banks (`ShiftWraps`, `PhysInBoard`) makes
  the first match the size of the board or smaller. `WriteIsolation` follows.
  `ImageInv` relates `buf`, the page's model and the bank chunk by chunk; from it
  `WritePrefix`, `VerdictRight`, `WriteOrMessage` and `ReadAllOrNothing`.
  `MirrorInv` and `LinkExists` are inductive with the types. `MemoryOnlyBy` needs that a
  transfer runs only in a connected frame, which follows from where a page can be
  selected (`TypeInv`), and that nothing but two steps of the detection and the
  chunks of a write touch the memory (`OutsideMemory`).
* **Config.** `TypeInv` adds that a posix build has no parallel port in settings
  or menu. `PortInv` adds to `PortEntryRight` that the second entry is always one
  of the three port menus, so that a swap finds it. `SavedInv` says that file, memory
  and frame agree but for the keys that are `unsaved`, and that the wheel size of the
  file is the one chosen in the run or else the one it began with (`SizeOfRun`); with `ReadAgain` (a constructor takes what
  a run wrote as it is) it gives `NextRunSame`. `ToolsInv` adds that `portMenuP` is
  wild only on posix.
* **WheelPanel.** `PanelInv` is type and shape; `PictureStored` is inductive with
  it because every step that changes `look` or the wheel sets `dirty`; `KeptInv`
  says what of a saved file is on the disk, for the round trip.
* **WheelImage.** `BitOfByte` (a bit mask finds the bit that was shifted in) and
  `PlaceOfCell` give `RoundTrip`, as `RowsOf` takes away again what `WithPast` adds
  (`RowsOfWithPast`); `LoopInv` says that the arcs cover exactly the
  lit rows before the present one, hence `RingDrawn`.
* **WheelHand.** `HandTypes`, `HandRoundTrip` and `HandRingDrawn` say the same with the
  mouse: a stroke that passes the handlers' check touches a cell of the model, a press
  may be one column past the panel's, and the steps of `WheelImage` are as before. That
  row `ROWS_PER_WHEEL`, which the check of a press allows, never comes is `MissedRows`. `AngleOfPoint` goes through the quadrants
  of `getLEDForXYPoint`: the degree that a point is taken for is less than one away,
  but for the two angles named. Rows are 1/R of the wheel where one points and
  1/(R - 1) where one draws, so that the quotients differ by -1 to 2 (`HitIsNear`), and by
  R - 2 just before the full turn, which is 2 when going round; hence `PointsAgree` for
  every size. `MarkInv` says that the model differs from what it was in exactly the
  cells of the marks, and that while the button is down these are all lit or all
  unlit, so that no stroke takes back another; with `RingDrawn` this is `UnderMouse`.
* **SpiLink, types.** `TypeOK` is not inductive: `BoardInv` ties the number of bytes the
  board has collected to the command it takes them for, and says that it owes nothing
  while it collects; `LoopInv` says where the program may be between the edges of a bit.
* **SpiLink, in step.** `InStep` counts bits and bytes; to keep it through a step one has
  to know *which* they are. `StepInv` says so: the bits and bytes the board has heard
  are those that were sent so far (`BitsHeard`, `Parsed`), what it owes is what the command will
  be told (`Expected`), what was read so far and the bits shifted in are the memory's
  (`Fetched`, `Shifting`), and the memory is changed by a write exactly up to the bytes
  heard (`Stored`). The steps of a bit loop come down to three lemmas, a bit heard, the
  last bit of a byte heard, and a byte of the command done (`Advance`). `Works` follows
  as the status expected is `Ack`.
* **Refinement.** `Promised`: the initial states of `SpiLink` are initial states of
  `Commands` with `trust` as `up /\ slipped = "no"`; `Connect`, `Disconnect`, losses and
  the board's storing a byte map to the steps of the same meaning; `Return` maps to
  the end of a command, where `StepInv` gives that it was done; edges that store
  nothing stutter.
* **SpiLink, after a loss.** `SlipNoticed`: from the loss to the end of the command the board
  is *behind* the program: it missed the code, or has too few bytes of the command, or
  answers too late (`LaggingAt`). All it owes but the last are bytes of the memory
  (`OwedFromMem`), so that at the status it sends the idle byte or a byte of the memory.
  A board that missed the code might begin a command of its own; this is where data
  that looks like a code has to be excluded. `Cured`: `Debt` is the number of bytes the
  board has yet to hear and to answer before it waits for a command, `Chunk` + 3 at
  most, and every byte it hears takes one off. `DebtInv` says that each clean read pays
  off five, or all; no byte of a read but its code begins a command.

Only model-checked: the liveness properties `HandlersReturn` and `DrawEnds`, as
fairness and ENABLED are beyond the prover. The violations of section 3 are
counterexamples and have nothing to prove.

## 6. Plan

In this order, the most important behaviour first:

1. *Done:* `Session`, `WheelPanel`, `WheelImage`, `Config`, with their runs and proofs.
2. *Done:* `SpiLink` and `Pins` with the board as the other end, `Commands` as what they
   implement, and the run `link`.
3. *Done:* `WheelPoints` and `WheelHand` with the run `image` and `WheelHandProofs`.
4. *Done:* proofs of `SpiLink`: types, the ends in step, the refinement of `Commands`,
   what the status tells after a loss and how reads mend it; `MemoryOnlyBy`;
   `PointsAgree` and `UnderMouse` for every wheel.
5. The seams between modules as theorems: that a command of `Session` is one that
   `Commands` allows, and that a picture of `Session` is a `GetModel` of `WheelImage`.

## 7. Not modelled

* `par.cpp`, `pptest.c`, `serbb_posix.c`: no build file compiles them.
* `usb.h` is libusb's header, `bin2c.py` and the build files make the program.
* The layout of windows, the text of dialogs, the pictures and executables.
* The file system and wxWidgets are external: a file is read or written at once
  or not at all, events come one at a time, repaints at any time.
* Of the pin layers: terminal settings, file descriptors (`serbb_close` on posix
  leaves its descriptor open, `SerialComm`'s constructor closes a number it never
  wrote), the driver for the parallel port and its table of addresses, and
  operations that nothing calls (`usb_out`, `ppi_toggle`, `ppi_getall`, `ppi_setall`).
* Time: a delay that is too short is the fault of a missed clock.
* The circles and spokes that `Draw` puts behind the picture.
