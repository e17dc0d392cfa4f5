------------------------------- MODULE Config -------------------------------
(***************************************************************************)
(* The frame's configuration: what it reads from the file behind wxConfig  *)
(* when it starts, what the Config menu shows and lets the user change,    *)
(* what a session with the board uses, and what the next run finds after   *)
(* the program was left or was killed.                                     *)
(*                                                                         *)
(* wxConfig is external.  On Windows it is the registry and a Write is     *)
(* there at once; elsewhere it is a file, written by Flush.  It is never   *)
(* destroyed: wxApp::OnExit would, and SpokePOV_App::OnExit does not call  *)
(* it.  Of the wx menus only the radio items, the enabled flag of the Port *)
(* entry and the entries' submenus are kept.                               *)
(*                                                                         *)
(* A handler is one step; the panels of a session are all made and changed *)
(* alike, so that one record stands for them and for the link.             *)
(***************************************************************************)
EXTENDS Integers, Sequences, SequencesExt

CONSTANTS
    Builds,     \* "windows" (W32_NATIVE), "posix": the builds looked at
    Stored,     \* what the first start may find: functions on some of the keys
    ComPorts,   \* the serial ports of a Windows build: COM1 to COM9 in the code
    Devices,    \* what a start of a posix build may find in /dev: sequences of
                \* serial ports, of at most 25 (the event table has no more)
    PortNames,  \* names of ports
    Hubs,       \* hub diameters the user enters (0..20 in the code)
    Delays      \* communication delays the user enters (0..10000 in the code)

NoPort == "no port"                     \* an empty port name
Lpts == <<"lpt1", "lpt2", "lpt3">>

ASSUME ConfigAssumption ==
    /\ Builds \subseteq {"windows", "posix"}
    /\ ComPorts # <<>>
    /\ \A found \in Devices \cup {ComPorts} : found \in Seq(PortNames) /\ IsInjective(found)
    /\ NoPort \in PortNames /\ ToSet(Lpts) \subseteq PortNames
    /\ Hubs \subseteq 0..20 /\ Delays \subseteq 0..10000
    /\ \A f \in Stored :
          /\ \A k \in {"num_leds", "hub_size", "comm_delay"} : k \in DOMAIN f => f[k] \in Int
          /\ \A k \in {"commport_serial", "commport_parallel"} : k \in DOMAIN f => f[k] \in PortNames

VARIABLES
    build,      \* the build of the program
    wild,       \* a posix build: the uninitialized portMenuP is a null pointer
    file,       \* what survives: the file or the registry
    cfg,        \* cfgFile, as it is in memory
    frame,      \* the frame's fields of the same names
    ports,      \* the items of portMenuS
    entries,    \* the submenus of the entries of configMenu
    portOn,     \* the Port entry is enabled
    checked,    \* the radio items: port type, wheel size, and place of the ports
    used,       \* what the panels and the link of the session, if there is
                \* one, were given: a set of one or no record
    taken,      \* history: port types chosen, or port chosen, in this run, and
                \* "size" if a wheel size was
    unsaved,    \* history: keys written to cfg in this run and not to file
    tested      \* history: the port was tested during this session

menus == <<ports, entries, portOn, checked>>
session == <<used, tested>>
stored == <<file, cfg, unsaved>>
vars == <<build, wild, stored, frame, menus, session, taken>>

----------------------------------------------------------------------------
(* Starting. *)

\* GetConfigValue and ToLong: a key that is missing or no number has a default.
Value(f, k, default) == IF k \in DOMAIN f THEN f[k] ELSE default

Links == IF build = "windows" THEN {"parallel", "serial", "usb"} ELSE {"serial", "usb"}
DefaultLink == IF build = "windows" THEN "parallel" ELSE "serial"

\* The commlink of a file; an unknown one is replaced.
LinkAsStored(f) == Value(f, "commlink", DefaultLink)          \* mutant: not checked
LinkOf(f) == LET link == Value(f, "commlink", DefaultLink)
             IN IF link \in Links THEN link ELSE DefaultLink

Found == IF build = "windows" THEN {ComPorts} ELSE Devices

\* "COM1", or the first device wxFindFirstFile sees.
DefaultSerial(found) == IF found = <<>> THEN NoPort ELSE found[1]

\* The values the frame starts with, and writes and flushes at once.
Read(f, found) ==
    [num_leds          |-> Value(f, "num_leds", 30),
     hub_size          |-> Value(f, "hub_size", 5),
     comm_delay        |-> Value(f, "comm_delay", 500),
     commlink          |-> LinkOf(f),
     commport_serial   |-> Value(f, "commport_serial", DefaultSerial(found)),
     commport_parallel |-> IF build = "windows"
                           THEN Value(f, "commport_parallel", "lpt1") ELSE NoPort]

\* The submenu of the Port entry for each port type.
PortMenu(link) ==
    IF link = "parallel" THEN "portMenuP" ELSE
    IF link = "serial" THEN "portMenuS" ELSE "portMenuU"

\* The entries of configMenu that have no submenu.
Plain == {"hub size", "separator", "test port", "comm delay"}

MenuEntries(link) ==
    <<"porttypeMenu", PortMenu(link), "wheelsizeMenu",
      "hub size", "separator", "test port", "comm delay">>

\* The first item of a radio group is checked until another one is.
WheelSizes == {22, 30}                  \* BMX, which comes first, and MTB/Road
SizeItem(leds) == IF leds \in WheelSizes THEN leds ELSE 22
Radio(c) == [type |-> c.commlink, size |-> SizeItem(c.num_leds), serial |-> 1, parallel |-> 1]

\* portMenuP, which only the Windows build makes.
MenuPMayBeNull == IF build = "windows" THEN {FALSE} ELSE BOOLEAN

\* SpokePOVFrame::SpokePOVFrame, at the first start.
Init ==
    /\ build \in Builds
    /\ wild \in MenuPMayBeNull
    /\ ports \in Found
    /\ file \in {Read(f, ports) : f \in Stored}
    /\ cfg = file
    /\ frame = file
    /\ entries = MenuEntries(file.commlink)
    /\ portOn = (file.commlink # "usb")
    /\ checked = Radio(file)
    /\ used = {}
    /\ taken = {}
    /\ unsaved = {}
    /\ tested = FALSE

\* The next run, which finds f and perhaps other ports.
Restart(f) ==
    \E found \in Found :
        LET c == Read(f, found)
        IN  /\ ports' = found
            /\ wild' \in MenuPMayBeNull
            /\ file' = c
            /\ cfg' = c
            /\ frame' = c
            /\ entries' = MenuEntries(c.commlink)
            /\ portOn' = (c.commlink # "usb")
            /\ checked' = Radio(c)
            /\ used' = {}
            /\ taken' = {}
            /\ unsaved' = {}
            /\ tested' = FALSE
            /\ UNCHANGED build

\* OnExit and OnCloseWindow close the frame, and the application's OnExit writes
\* nothing: the program that is left leaves the file as one that is killed does.
Leave == Restart(file)

----------------------------------------------------------------------------
(* Choices. *)

Connected == used # {}                  \* the connect button reads "Disconnect"

\* SetConfigValue alone, and followed by SaveConfiguration.
SetValue(k, v) ==
    /\ cfg' = [cfg EXCEPT ![k] = v]
    /\ file' = IF build = "windows" THEN cfg' ELSE file
    /\ unsaved' = IF build = "windows" THEN {} ELSE unsaved \cup {k}
SetAndSave(c) == cfg' = c /\ file' = c /\ unsaved' = {}

\* A change that the panels of the session are told of.
ForgetPanels(k, v) == UNCHANGED used                           \* mutant
TellPanels(k, v) == used' = {[u EXCEPT ![k] = v] : u \in used}

\* OnWheelSizeBMX, OnWheelSizeRoad.  The frame's own num_leds stays.
OnWheelSizeUnsaved(leds) ==                                     \* mutant
    /\ checked' = [checked EXCEPT !.size = leds]
    /\ SetValue("num_leds", leds)
    /\ TellPanels("num_leds", leds)
    /\ taken' = taken \cup {"size"}
    /\ UNCHANGED <<build, wild, frame, ports, entries, portOn, tested>>
OnWheelSize(leds) ==
    /\ checked' = [checked EXCEPT !.size = leds]
    /\ SetAndSave([cfg EXCEPT !.num_leds = leds])
    /\ TellPanels("num_leds", leds)
    /\ taken' = taken \cup {"size"}
    /\ UNCHANGED <<build, wild, frame, ports, entries, portOn, tested>>

\* OnHubSize; no SaveConfiguration.
OnHubSize(hub) ==
    /\ "hub size" \in ToSet(entries)
    /\ frame' = [frame EXCEPT !.hub_size = hub]
    /\ SetValue("hub_size", hub)
    /\ TellPanels("hub_size", hub)
    /\ UNCHANGED <<build, wild, menus, tested, taken>>

\* OnCommDelay; OnConnect disables the entry during a session.
OnCommDelay(delay) ==
    /\ ~Connected
    /\ "comm delay" \in ToSet(entries)
    /\ frame' = [frame EXCEPT !.comm_delay = delay]
    /\ SetValue("comm_delay", delay)
    /\ UNCHANGED <<build, wild, menus, session, taken>>

\* OnPortUSB leaves the old Port entry, disabled.
OnPortUSB ==
    /\ checked' = [checked EXCEPT !.type = "usb"]
    /\ frame' = [frame EXCEPT !.commlink = "usb"]
    /\ SetAndSave([cfg EXCEPT !.commlink = "usb"])
    /\ portOn' = FALSE
    /\ taken' = taken \cup {"usb"}
    /\ UNCHANGED <<build, wild, ports, entries, session>>

\* The entries whose GetSubMenu() is one of the others' become new's; where
\* portMenuP was never made it may be null, as every plain entry's submenu is.
OthersAnyEntry(new) == ToSet(entries) \ {"porttypeMenu", new}   \* mutant: != new
OthersButUSB(new) == {"portMenuS", "portMenuP"} \ {new}         \* mutant
Others(new) ==
    LET menuP == IF build = "windows" THEN {"portMenuP"} ELSE IF wild THEN Plain ELSE {}
    IN  ({"portMenuU", "portMenuS"} \cup menuP) \ {new}
SwapPortMenu(new) ==
    entries' = [k \in DOMAIN entries |-> IF entries[k] \in Others(new) THEN new ELSE entries[k]]

\* The item that a newly shown menu of ports checks: the current port's or else
\* the first, which then becomes the current port; none in an empty menu.
PortInKept(items, port) == port                                 \* mutant: not taken
PortIn(items, port) ==
    IF port \in ToSet(items) \/ items = <<>> THEN port ELSE items[1]
PlaceOf(items, port, place) ==
    IF port \in ToSet(items) THEN CHOOSE k \in DOMAIN items : items[k] = port ELSE
    IF items = <<>> THEN place ELSE 1

\* The common part of OnPortSerial and OnPortParallel.
ShowPorts(link, key, items) ==
    LET port == PortIn(items, frame[key])
    IN  /\ checked' = [checked EXCEPT !.type = link,
                                      ![link] = PlaceOf(items, frame[key], @)]
        /\ frame' = [frame EXCEPT !.commlink = link, ![key] = port]
        /\ SetAndSave(IF port = frame[key]
                      THEN [cfg EXCEPT !.commlink = link]
                      ELSE [cfg EXCEPT !.commlink = link, ![key] = port])
        /\ portOn' = TRUE
        /\ SwapPortMenu(PortMenu(link))
        /\ taken' = taken \cup {link}
        /\ UNCHANGED <<build, wild, ports, session>>

OnPortSerial == ShowPorts("serial", "commport_serial", ports)

OnPortParallel ==
    /\ build = "windows"                \* only there in the Port Type menu
    /\ ShowPorts("parallel", "commport_parallel", Lpts)

\* The common part of OnSerialPortChange and OnParallelPortChange: the user has
\* checked item k of the Port menu shown.
PortChange(link, key, items, k) ==
    /\ portOn
    /\ PortMenu(link) \in ToSet(entries)
    /\ checked' = [checked EXCEPT ![link] = k]
    /\ frame' = [frame EXCEPT ![key] = items[k]]
    /\ SetAndSave([cfg EXCEPT ![key] = items[k]])
    /\ taken' = taken \cup {link}
    /\ UNCHANGED <<build, wild, ports, entries, portOn, session>>

OnSerialPortChange(k) == PortChange("serial", "commport_serial", ports, k)
OnParallelPortChange(k) == PortChange("parallel", "commport_parallel", Lpts, k)

----------------------------------------------------------------------------
(* Sessions. *)

\* OnConnect with the board found: the link gets its port and delay, the panels
\* their size and hub.  A Connect that fails changes nothing of this.
Connect ==
    /\ ~Connected
    /\ used' = {frame}
    /\ UNCHANGED <<build, wild, stored, frame, menus, tested, taken>>

Disconnect ==
    /\ Connected
    /\ used' = {}
    /\ tested' = FALSE
    /\ UNCHANGED <<build, wild, stored, frame, menus, taken>>

\* OnTestPort during a session: a new link on the present port, whose delay only
\* ParallelComm initializes (to 1000); the others' may be anything.
OnTestPort ==
    /\ Connected
    /\ "test port" \in ToSet(entries)
    /\ \E delay \in (IF frame.commlink = "parallel" THEN {1000} ELSE Delays) :
          used' = {[frame EXCEPT !.comm_delay = delay, !.num_leds = u.num_leds,
                                 !.hub_size = u.hub_size] : u \in used}
    /\ tested' = TRUE
    /\ UNCHANGED <<build, wild, stored, frame, menus, taken>>

Next ==
    \/ Leave
    \/ \E leds \in WheelSizes : OnWheelSize(leds)
    \/ \E hub \in Hubs : OnHubSize(hub)
    \/ \E delay \in Delays : OnCommDelay(delay)
    \/ OnPortUSB \/ OnPortSerial \/ OnPortParallel
    \/ \E k \in DOMAIN ports : OnSerialPortChange(k)
    \/ \E k \in DOMAIN Lpts : OnParallelPortChange(k)
    \/ Connect \/ Disconnect \/ OnTestPort

Spec == Init /\ [][Next]_vars

----------------------------------------------------------------------------
(* Properties. *)

Settings == [num_leds : Int, hub_size : Int, comm_delay : Int, commlink : Links,
             commport_serial : PortNames, commport_parallel : PortNames]

\* Every variable has its type; the frame never works with a port type that its
\* build does not have, whatever the file says.
TypeOK ==
    /\ build \in Builds
    /\ wild \in BOOLEAN
    /\ file \in Settings /\ cfg \in Settings /\ frame \in Settings /\ used \subseteq Settings
    /\ ports \in Found
    /\ entries \in [1..7 -> Plain \cup {"porttypeMenu", "portMenuP", "portMenuS",
                                         "portMenuU", "wheelsizeMenu"}]
    /\ portOn \in BOOLEAN
    /\ checked \in [type : Links, size : WheelSizes,
                    serial : Nat \ {0}, parallel : 1..3]
    /\ ports # <<>> => checked.serial \in DOMAIN ports
    /\ tested \in BOOLEAN
    /\ taken \subseteq Links \cup {"size"}
    /\ unsaved \subseteq {"hub_size", "comm_delay"}

\* However the user goes from one port type to another, the Port entry is the
\* menu of the present type's ports, and can be opened unless that is USB
\* (OnPortUSB, OnPortSerial, OnPortParallel, and the constructor).
PortEntryRight ==
    /\ checked.type = frame.commlink
    /\ portOn <=> frame.commlink # "usb"
    /\ portOn => entries[2] = PortMenu(frame.commlink)

\* Once its type or port was chosen in this run, the port that Connect opens is
\* the one that is checked in the menu, also when the port of the last run is
\* gone (the constructor checks the first item whatever port is configured).
PortShown ==
    /\ "serial" \in taken /\ ports # <<>> => ports[checked.serial] = frame.commport_serial
    /\ "parallel" \in taken => Lpts[checked.parallel] = frame.commport_parallel

\* However a run ends, the next one has its port type and ports, the wheel size
\* chosen in it or else the one it began with, even one that no menu item stands
\* for, and the hub size and the delay unless they were entered on a posix build
\* and no other choice was made afterwards: OnHubSize and OnCommDelay do not
\* flush, but what the others flush is the whole configuration.
Flushed == {"commlink", "commport_serial", "commport_parallel"}
SizeOfRun == IF "size" \in taken THEN checked.size ELSE frame.num_leds
NextRunSame ==
    [][Leave => /\ \A k \in Flushed \cup ({"hub_size", "comm_delay"} \ unsaved) :
                      frame'[k] = frame[k]
                /\ frame'.num_leds = SizeOfRun]_vars

\* During a session its panels have the hub the frame has, and its link the
\* delay, unless a port test replaced the link; the panels have the frame's
\* wheel size or the one that the menu shows.
SessionInForce ==
    \A u \in used : /\ u.hub_size = frame.hub_size
                    /\ ~tested => u.comm_delay = frame.comm_delay
                    /\ u.num_leds \in {frame.num_leds, checked.size}

\* Hub Size..., Test Port... and Comm Delay... can be reached, except where the
\* uninitialized portMenuP is null, and then until Serial is chosen: OnPortSerial
\* takes them for the old Port menu.
ToolsKept ==
    ~wild \/ "serial" \notin taken => Plain \subseteq ToSet(entries)

============================================================================
