---------------------------- MODULE ConfigProofs ----------------------------
(***************************************************************************)
(* What Config promises for any ports, files, hubs and delays, on both     *)
(* builds.                                                                 *)
(***************************************************************************)
EXTENDS Config, TLAPS

----------------------------------------------------------------------------
(* Types.  A posix build has no parallel port, neither in its settings nor *)
(* in its menu.                                                            *)

NoParallel(c) == build # "windows" => c.commport_parallel = NoPort

TypeInv ==
    /\ TypeOK
    /\ NoParallel(file) /\ NoParallel(cfg) /\ NoParallel(frame)
    /\ build # "windows" => \A k \in 1..7 : entries[k] # "portMenuP"

LEMMA LinksTyped ==
    /\ {"serial", "usb"} \subseteq Links
    /\ Links \subseteq {"parallel", "serial", "usb"}
    /\ build = "windows" => "parallel" \in Links
    /\ DefaultLink \in Links
BY DEF Links, DefaultLink

\* The ports of a menu are names, and it has a first one unless it is empty.
LEMMA PortsTyped ==
    ASSUME NEW found \in Devices \cup {ComPorts}
    PROVE  /\ DOMAIN found \subseteq Nat \ {0}
           /\ \A k \in DOMAIN found : found[k] \in PortNames
           /\ found # <<>> => 1 \in DOMAIN found
           /\ ToSet(found) \subseteq PortNames
<1>1. found \in Seq(PortNames)
      BY ConfigAssumption
<1>2. Len(found) \in Nat /\ DOMAIN found = 1..Len(found)
      BY <1>1
<1>3. \A k \in DOMAIN found : found[k] \in PortNames
      BY <1>1, <1>2
<1>4. found # <<>> => 1 \in DOMAIN found
      BY <1>1, <1>2
<1>5. DOMAIN found \subseteq Nat \ {0}
      BY <1>2
<1>6. ToSet(found) \subseteq PortNames
      BY <1>3 DEF ToSet
<1> QED BY <1>3, <1>4, <1>5, <1>6

LEMMA FoundTyped == Found \subseteq Devices \cup {ComPorts}
BY DEF Found

LEMMA LptsTyped ==
    /\ DOMAIN Lpts = 1..3
    /\ \A k \in 1..3 : Lpts[k] \in PortNames
    /\ ToSet(Lpts) \subseteq PortNames
    /\ Lpts # <<>>
<1>1. DOMAIN Lpts = 1..3 /\ Lpts # <<>>
      BY DEF Lpts
<1>2. ToSet(Lpts) \subseteq PortNames
      BY ConfigAssumption
<1> QED BY <1>1, <1>2 DEF ToSet

\* A file that may be found, at the first start or by a later one.
Readable(f) ==
    /\ \A k \in {"num_leds", "hub_size", "comm_delay"} : k \in DOMAIN f => f[k] \in Int
    /\ \A k \in {"commport_serial", "commport_parallel"} : k \in DOMAIN f => f[k] \in PortNames

LEMMA SettingsReadable == ASSUME NEW c \in Settings PROVE Readable(c)
BY DEF Settings, Readable

\* The constructor makes settings of whatever it finds.
LEMMA ReadTyped ==
    ASSUME NEW f, Readable(f), NEW found \in Found
    PROVE  Read(f, found) \in Settings /\ NoParallel(Read(f, found))
<1>1. DefaultSerial(found) \in PortNames
      BY ConfigAssumption, FoundTyped, PortsTyped DEF DefaultSerial
<1>2. LinkOf(f) \in Links
      BY LinksTyped DEF LinkOf
<1>3. NoPort \in PortNames /\ "lpt1" \in PortNames
      BY ConfigAssumption, LptsTyped DEF Lpts
<1>4. /\ Value(f, "num_leds", 30) \in Int /\ Value(f, "hub_size", 5) \in Int
      /\ Value(f, "comm_delay", 500) \in Int
      BY DEF Value, Readable
<1>5. /\ Value(f, "commport_serial", DefaultSerial(found)) \in PortNames
      /\ Value(f, "commport_parallel", "lpt1") \in PortNames
      BY <1>1, <1>3 DEF Value, Readable
<1> QED BY <1>2, <1>3, <1>4, <1>5 DEF Read, Settings, NoParallel

EntryNames == Plain \cup {"porttypeMenu", "portMenuP", "portMenuS", "portMenuU", "wheelsizeMenu"}

LEMMA MenuTyped ==
    ASSUME NEW link \in {"parallel", "serial", "usb"}
    PROVE  /\ MenuEntries(link) \in [1..7 -> EntryNames]
           /\ MenuEntries(link)[2] = PortMenu(link)
           /\ link # "parallel" => \A k \in 1..7 : MenuEntries(link)[k] # "portMenuP"
           /\ Plain \subseteq ToSet(MenuEntries(link))
<1> DEFINE es == MenuEntries(link)
<1>1. /\ DOMAIN es = 1..7
      /\ es[1] = "porttypeMenu" /\ es[2] = PortMenu(link) /\ es[3] = "wheelsizeMenu"
      /\ es[4] = "hub size" /\ es[5] = "separator" /\ es[6] = "test port"
      /\ es[7] = "comm delay"
      BY DEF MenuEntries
<1>2. PortMenu(link) \in EntryNames /\ (link # "parallel" => PortMenu(link) # "portMenuP")
      BY DEF PortMenu, EntryNames
<1>3. \A k \in 1..7 : k = 1 \/ k = 2 \/ k = 3 \/ k = 4 \/ k = 5 \/ k = 6 \/ k = 7
      OBVIOUS
<1>4. es = [k \in 1..7 |-> es[k]]
      BY <1>1 DEF MenuEntries
<1>5. \A k \in 1..7 : es[k] \in EntryNames
      BY <1>1, <1>2, <1>3 DEF EntryNames, Plain
<1>6. es \in [1..7 -> EntryNames]
      BY <1>4, <1>5
<1>7. link # "parallel" => \A k \in 1..7 : es[k] # "portMenuP"
      BY <1>1, <1>2, <1>3
<1>8. ASSUME NEW x \in Plain PROVE \E k \in DOMAIN es : es[k] = x
  <2>1. x = es[4] \/ x = es[5] \/ x = es[6] \/ x = es[7]
        BY <1>1 DEF Plain
  <2>2. \A k \in 1..7 : k \in DOMAIN es
        BY <1>1
  <2>3. 4 \in 1..7 /\ 5 \in 1..7 /\ 6 \in 1..7 /\ 7 \in 1..7
        OBVIOUS
  <2> QED BY <2>1, <2>2, <2>3
<1>9. Plain \subseteq ToSet(es)
      BY <1>8 DEF ToSet
<1> QED BY <1>1, <1>6, <1>7, <1>9

LEMMA RadioTyped ==
    ASSUME NEW c \in Settings
    PROVE  Radio(c) \in [type : Links, size : WheelSizes, serial : Nat \ {0}, parallel : 1..3]
<1>1. c.commlink \in Links
      BY DEF Settings
<1>2. SizeItem(c.num_leds) \in WheelSizes
      BY DEF SizeItem, WheelSizes
<1> QED BY <1>1, <1>2 DEF Radio

LEMMA TypeInit == Init => TypeInv
<1> SUFFICES ASSUME Init PROVE TypeInv
    OBVIOUS
<1>1. PICK f \in Stored : file = Read(f, ports)
      BY DEF Init
<1>2. Readable(f) /\ ports \in Found
      BY ConfigAssumption DEF Init, Readable
<1>3. file \in Settings /\ NoParallel(file) /\ file.commlink \in Links
      BY <1>1, <1>2, ReadTyped DEF Settings
<1>4. /\ entries \in [1..7 -> EntryNames]
      /\ build # "windows" => \A k \in 1..7 : entries[k] # "portMenuP"
      BY <1>3, LinksTyped, MenuTyped DEF Init, Links
<1>5. checked \in [type : Links, size : WheelSizes, serial : Nat \ {0}, parallel : 1..3]
      BY <1>3, RadioTyped DEF Init
<1>6. ports # <<>> => checked.serial \in DOMAIN ports
      BY <1>2, FoundTyped, PortsTyped DEF Init, Radio
<1> QED BY <1>2, <1>3, <1>4, <1>5, <1>6
        DEF Init, TypeInv, TypeOK, EntryNames, MenuPMayBeNull

LEMMA RestartTyped ==
    ASSUME TypeInv, NEW f, Readable(f), Restart(f)
    PROVE  TypeInv'
<1>1. PICK found \in Found :
         /\ ports' = found /\ wild' \in MenuPMayBeNull
         /\ file' = Read(f, found) /\ cfg' = file' /\ frame' = file'
         /\ entries' = MenuEntries(file'.commlink)
         /\ portOn' = (file'.commlink # "usb")
         /\ checked' = Radio(file')
         /\ used' = {} /\ taken' = {} /\ unsaved' = {} /\ tested' = FALSE
         /\ build' = build
      BY DEF Restart
<1>2. /\ file' \in Settings /\ NoParallel(file') /\ file'.commlink \in Links
      BY <1>1, ReadTyped DEF Settings
<1>3. /\ entries' \in [1..7 -> EntryNames]
      /\ build # "windows" => \A k \in 1..7 : entries'[k] # "portMenuP"
      BY <1>1, <1>2, LinksTyped, MenuTyped DEF Links
<1>4. checked' \in [type : Links, size : WheelSizes, serial : Nat \ {0}, parallel : 1..3]
      BY <1>1, <1>2, RadioTyped
<1>5. ports' # <<>> => checked'.serial \in DOMAIN ports'
      BY <1>1, FoundTyped, PortsTyped DEF Radio
<1>6. /\ Links' = Links /\ Found' = Found /\ Settings' = Settings
      BY <1>1 DEF Links, Found, Settings
<1>7. NoParallel(file)' /\ NoParallel(cfg)' /\ NoParallel(frame)'
      BY <1>1, <1>2 DEF NoParallel
<1> QED BY <1>1, <1>2, <1>3, <1>4, <1>5, <1>6, <1>7
        DEF TypeInv, TypeOK, EntryNames, MenuPMayBeNull

\* The item of a menu of ports that becomes checked, and the port it stands for.
LEMMA PlaceTyped ==
    ASSUME NEW items, NEW port \in PortNames, NEW place \in Nat,
           \A k \in DOMAIN items : items[k] \in PortNames,
           items # <<>> => 1 \in DOMAIN items
    PROVE  /\ PortIn(items, port) \in PortNames
           /\ items = <<>> => PortIn(items, port) = port /\ PlaceOf(items, port, place) = place
           /\ items # <<>> => /\ PlaceOf(items, port, place) \in DOMAIN items
                              /\ items[PlaceOf(items, port, place)] = PortIn(items, port)
<1>1. CASE port \in ToSet(items)
  <2>1. PICK k \in DOMAIN items : items[k] = port
        BY <1>1 DEF ToSet
  <2>2. items # <<>>
        BY <2>1
  <2>3. /\ PlaceOf(items, port, place) \in DOMAIN items
        /\ items[PlaceOf(items, port, place)] = port
        BY <1>1, <2>1 DEF PlaceOf
  <2> QED BY <1>1, <2>2, <2>3 DEF PortIn
<1>2. CASE port \notin ToSet(items) /\ items = <<>>
      BY <1>2 DEF PortIn, PlaceOf
<1>3. CASE port \notin ToSet(items) /\ items # <<>>
      BY <1>3 DEF PortIn, PlaceOf
<1> QED BY <1>1, <1>2, <1>3

\* OnPortSerial and OnPortParallel, for their own ports and key.
LEMMA ShowPortsTyped ==
    ASSUME TypeInv, NEW link \in {"serial", "parallel"},
           link = "parallel" => build = "windows",
           NEW key, key = IF link = "serial" THEN "commport_serial" ELSE "commport_parallel",
           NEW items, items = IF link = "serial" THEN ports ELSE Lpts,
           ShowPorts(link, key, items)
    PROVE  TypeInv'
<1> DEFINE port == PortIn(items, frame[key])
           place == PlaceOf(items, frame[key], checked[link])
<1>1. /\ \A k \in DOMAIN items : items[k] \in PortNames
      /\ items # <<>> => 1 \in DOMAIN items
      BY FoundTyped, PortsTyped, LptsTyped DEF TypeInv, TypeOK
<1>2. /\ frame[key] \in PortNames /\ checked[link] \in Nat /\ link \in Links
      BY LinksTyped DEF TypeInv, TypeOK, Settings
<1>3. /\ port \in PortNames
      /\ items = <<>> => port = frame[key] /\ place = checked[link]
      /\ items # <<>> => place \in DOMAIN items
      BY <1>1, <1>2, PlaceTyped
<1>4. /\ checked' = [checked EXCEPT !.type = link, ![link] = place]
      /\ frame' = [frame EXCEPT !.commlink = link, ![key] = port]
      /\ \/ cfg' = [cfg EXCEPT !.commlink = link]
         \/ cfg' = [cfg EXCEPT !.commlink = link, ![key] = port]
      /\ file' = cfg' /\ unsaved' = {}
      /\ portOn' = TRUE /\ taken' = taken \cup {link}
      /\ SwapPortMenu(PortMenu(link))
      /\ UNCHANGED <<build, wild, ports, used, tested>>
      BY DEF ShowPorts, SetAndSave, session
<1>5. Links' = Links /\ Found' = Found /\ Settings' = Settings
      BY <1>4 DEF Links, Found, Settings
<1>6. /\ frame' \in Settings /\ cfg' \in Settings /\ file' \in Settings
      BY <1>2, <1>3, <1>4 DEF TypeInv, TypeOK, Settings
<1>7. NoParallel(file)' /\ NoParallel(cfg)' /\ NoParallel(frame)'
      BY <1>4 DEF NoParallel, TypeInv, TypeOK, Settings
<1>8. checked' \in [type : Links, size : WheelSizes, serial : Nat \ {0}, parallel : 1..3]
  <2>1. CASE link = "serial"
    <3>1. place \in Nat \ {0}
          BY <1>3, <2>1, FoundTyped, PortsTyped DEF TypeInv, TypeOK
    <3> QED BY <1>2, <1>4, <2>1, <3>1 DEF TypeInv, TypeOK
  <2>2. CASE link = "parallel"
    <3>1. place \in 1..3
          BY <1>3, <2>2, LptsTyped
    <3> QED BY <1>2, <1>4, <2>2, <3>1 DEF TypeInv, TypeOK
  <2> QED BY <2>1, <2>2
<1>9. ports' # <<>> => checked'.serial \in DOMAIN ports'
      BY <1>3, <1>4 DEF TypeInv, TypeOK
<1>10. PortMenu(link) \in EntryNames /\ (link # "parallel" => PortMenu(link) # "portMenuP")
       BY DEF PortMenu, EntryNames
<1>11. /\ entries' \in [1..7 -> EntryNames]
       /\ build # "windows" => \A k \in 1..7 : entries'[k] # "portMenuP"
       BY <1>4, <1>10 DEF SwapPortMenu, TypeInv, TypeOK, EntryNames
<1> QED BY <1>2, <1>4, <1>5, <1>6, <1>7, <1>8, <1>9, <1>11
        DEF TypeInv, TypeOK, EntryNames

\* OnSerialPortChange and OnParallelPortChange.
LEMMA PortChangeTyped ==
    ASSUME TypeInv, NEW link \in {"serial", "parallel"},
           NEW key, key = IF link = "serial" THEN "commport_serial" ELSE "commport_parallel",
           NEW items, items = IF link = "serial" THEN ports ELSE Lpts,
           NEW k \in DOMAIN items, PortChange(link, key, items, k)
    PROVE  TypeInv'
<1>1. items[k] \in PortNames /\ k \in Nat \ {0}
      BY FoundTyped, PortsTyped, LptsTyped DEF TypeInv, TypeOK
<1>2. link = "parallel" => build = "windows"
      BY DEF PortChange, PortMenu, ToSet, TypeInv, TypeOK
<1>3. /\ checked' = [checked EXCEPT ![link] = k]
      /\ frame' = [frame EXCEPT ![key] = items[k]]
      /\ cfg' = [cfg EXCEPT ![key] = items[k]] /\ file' = cfg' /\ unsaved' = {}
      /\ taken' = taken \cup {link}
      /\ UNCHANGED <<build, wild, ports, entries, portOn, used, tested>>
      BY DEF PortChange, SetAndSave, session
<1>4. Links' = Links /\ Found' = Found /\ Settings' = Settings /\ link \in Links
      BY <1>2, <1>3, LinksTyped DEF Links, Found, Settings
<1>5. /\ frame' \in Settings /\ cfg' \in Settings /\ file' \in Settings
      BY <1>1, <1>3 DEF TypeInv, TypeOK, Settings
<1>6. NoParallel(file)' /\ NoParallel(cfg)' /\ NoParallel(frame)'
      BY <1>2, <1>3 DEF NoParallel, TypeInv, TypeOK, Settings
<1>7. checked' \in [type : Links, size : WheelSizes, serial : Nat \ {0}, parallel : 1..3]
      BY <1>1, <1>3, LptsTyped DEF TypeInv, TypeOK
<1>8. ports' # <<>> => checked'.serial \in DOMAIN ports'
      BY <1>3 DEF TypeInv, TypeOK
<1> QED BY <1>3, <1>4, <1>5, <1>6, <1>7, <1>8 DEF TypeInv, TypeOK

LEMMA TellTyped ==
    ASSUME used \subseteq Settings, NEW k \in {"num_leds", "hub_size"}, NEW v \in Int,
           TellPanels(k, v)
    PROVE  used' \subseteq Settings
<1>1. \A u \in Settings : [u EXCEPT ![k] = v] \in Settings
      BY DEF Settings
<1> QED BY <1>1 DEF TellPanels

LEMMA TypeNext == TypeInv /\ [Next]_vars => TypeInv'
<1> SUFFICES ASSUME TypeInv, [Next]_vars PROVE TypeInv'
    OBVIOUS
<1>1. ASSUME build' = build
      PROVE  Links' = Links /\ Found' = Found /\ Settings' = Settings
      BY <1>1 DEF Links, Found, Settings
<1>2. CASE Leave
      BY <1>2, RestartTyped, SettingsReadable DEF Leave, TypeInv, TypeOK
<1>4. ASSUME NEW leds \in WheelSizes, OnWheelSize(leds)
      PROVE  TypeInv'
  <2>1. leds \in Int
        BY DEF WheelSizes
  <2>2. cfg' \in Settings /\ file' \in Settings /\ NoParallel(cfg)' /\ NoParallel(file)'
        BY <1>1, <1>4, <2>1
        DEF OnWheelSize, SetAndSave, TypeInv, TypeOK, Settings, NoParallel
  <2>5. unsaved' = {} /\ taken' \subseteq Links \cup {"size"}
        BY <1>4 DEF OnWheelSize, SetAndSave, TypeInv, TypeOK
  <2>3. used' \subseteq Settings
        BY <1>4, <2>1, TellTyped DEF OnWheelSize, TypeInv, TypeOK
  <2>4. /\ checked' \in [type : Links, size : WheelSizes, serial : Nat \ {0}, parallel : 1..3]
        /\ checked'.serial = checked.serial
        BY <1>4 DEF OnWheelSize, TypeInv, TypeOK
  <2> QED BY <1>1, <1>4, <2>2, <2>3, <2>4, <2>5 DEF OnWheelSize, TypeInv, TypeOK, NoParallel
<1>5. ASSUME NEW hub \in Hubs, OnHubSize(hub)
      PROVE  TypeInv'
  <2>1. hub \in Int
        BY ConfigAssumption
  <2>2. /\ cfg' \in Settings /\ file' \in Settings /\ frame' \in Settings
        /\ NoParallel(cfg)' /\ NoParallel(file)' /\ NoParallel(frame)'
        BY <1>1, <1>5, <2>1 DEF OnHubSize, SetValue, TypeInv, TypeOK, Settings, NoParallel
  <2>3. used' \subseteq Settings
        BY <1>5, <2>1, TellTyped DEF OnHubSize, TypeInv, TypeOK
  <2>4. unsaved' \subseteq {"hub_size", "comm_delay"}
        BY <1>5 DEF OnHubSize, SetValue, TypeInv, TypeOK
  <2> QED BY <1>1, <1>5, <2>2, <2>3, <2>4 DEF OnHubSize, menus, TypeInv, TypeOK
<1>6. ASSUME NEW delay \in Delays, OnCommDelay(delay)
      PROVE  TypeInv'
  <2>1. delay \in Int
        BY ConfigAssumption
  <2>2. /\ cfg' \in Settings /\ file' \in Settings /\ frame' \in Settings
        /\ NoParallel(cfg)' /\ NoParallel(file)' /\ NoParallel(frame)'
        BY <1>1, <1>6, <2>1 DEF OnCommDelay, SetValue, TypeInv, TypeOK, Settings, NoParallel
  <2>3. unsaved' \subseteq {"hub_size", "comm_delay"}
        BY <1>6 DEF OnCommDelay, SetValue, TypeInv, TypeOK
  <2> QED BY <1>1, <1>6, <2>2, <2>3 DEF OnCommDelay, menus, session, TypeInv, TypeOK
<1>7. CASE OnPortUSB
  <2>1. /\ cfg' \in Settings /\ file' \in Settings /\ frame' \in Settings
        /\ NoParallel(cfg)' /\ NoParallel(file)' /\ NoParallel(frame)'
        BY <1>1, <1>7, LinksTyped
        DEF OnPortUSB, SetAndSave, TypeInv, TypeOK, Settings, NoParallel
  <2>2. /\ checked' \in [type : Links, size : WheelSizes, serial : Nat \ {0}, parallel : 1..3]
        /\ checked'.serial = checked.serial
        BY <1>7, LinksTyped DEF OnPortUSB, TypeInv, TypeOK
  <2>3. taken' \subseteq Links \cup {"size"} /\ unsaved' = {}
        BY <1>7, LinksTyped DEF OnPortUSB, SetAndSave, TypeInv, TypeOK
  <2> QED BY <1>1, <1>7, <2>1, <2>2, <2>3 DEF OnPortUSB, session, TypeInv, TypeOK
<1>8. CASE OnPortSerial
      BY <1>8, ShowPortsTyped DEF OnPortSerial
<1>9. CASE OnPortParallel
      BY <1>9, ShowPortsTyped DEF OnPortParallel
<1>10. ASSUME NEW k \in DOMAIN ports, OnSerialPortChange(k)
       PROVE  TypeInv'
       BY <1>10, PortChangeTyped DEF OnSerialPortChange
<1>11. ASSUME NEW k \in DOMAIN Lpts, OnParallelPortChange(k)
       PROVE  TypeInv'
       BY <1>11, PortChangeTyped DEF OnParallelPortChange
<1>12. CASE Connect
       BY <1>1, <1>12 DEF Connect, stored, menus, TypeInv, TypeOK, NoParallel
<1>13. CASE Disconnect
       BY <1>1, <1>13 DEF Disconnect, stored, menus, TypeInv, TypeOK, NoParallel
<1>14. CASE OnTestPort
  <2> DEFINE LinkDelays == IF frame.commlink = "parallel" THEN {1000} ELSE Delays
  <2>1. LinkDelays \subseteq Int
        BY ConfigAssumption
  <2>2. PICK delay \in LinkDelays :
          used' = {[frame EXCEPT !.comm_delay = delay, !.num_leds = u.num_leds,
                                 !.hub_size = u.hub_size] : u \in used}
        BY <1>14 DEF OnTestPort
  <2>3. delay \in Int
        BY <2>1
  <2> HIDE DEF LinkDelays
  <2>4. \A u \in Settings :
          [frame EXCEPT !.comm_delay = delay, !.num_leds = u.num_leds,
                        !.hub_size = u.hub_size] \in Settings
        BY <2>3 DEF TypeInv, TypeOK, Settings
  <2>5. used' \subseteq Settings
        BY <2>2, <2>4 DEF TypeInv, TypeOK
  <2> QED BY <1>1, <1>14, <2>5 DEF OnTestPort, stored, menus, TypeInv, TypeOK, NoParallel
<1>15. CASE UNCHANGED vars
       BY <1>1, <1>15 DEF vars, stored, menus, session, TypeInv, TypeOK, NoParallel
<1> QED BY <1>2, <1>4, <1>5, <1>6, <1>7, <1>8, <1>9, <1>10, <1>11, <1>12,
           <1>13, <1>14, <1>15 DEF Next

\* Whatever the configuration file says and the user chooses, the frame works
\* with settings of the right types and a port type that its build knows, so
\* that CommFactory always has a link for it.
THEOREM ConfigTypes == Spec => []TypeOK
<1>1. TypeInv => TypeOK
      BY DEF TypeInv
<1> QED BY <1>1, TypeInit, TypeNext, PTL DEF Spec

----------------------------------------------------------------------------
(* The Port entry and the ports of the menus. *)

\* The entry a swap leaves in the place of the Port entry.
LEMMA SwappedEntry ==
    ASSUME TypeInv, NEW link \in {"serial", "parallel"},
           link = "parallel" => build = "windows",
           entries[2] \in {"portMenuP", "portMenuS", "portMenuU"},
           SwapPortMenu(PortMenu(link))
    PROVE  entries'[2] = PortMenu(link)
<1>1. 2 \in DOMAIN entries /\ (build # "windows" => entries[2] # "portMenuP")
      BY DEF TypeInv, TypeOK
<1>2. entries[2] \in Others(PortMenu(link)) \/ entries[2] = PortMenu(link)
      BY <1>1 DEF Others, PortMenu
<1> QED BY <1>1, <1>2 DEF SwapPortMenu

PortInv ==
    /\ PortEntryRight
    /\ entries[2] \in {"portMenuP", "portMenuS", "portMenuU"}

LEMMA PortStart ==
    ASSUME NEW c \in Settings
    PROVE  /\ Radio(c).type = c.commlink
           /\ MenuEntries(c.commlink)[2] = PortMenu(c.commlink)
           /\ PortMenu(c.commlink) \in {"portMenuP", "portMenuS", "portMenuU"}
<1>1. c.commlink \in {"parallel", "serial", "usb"}
      BY LinksTyped DEF Settings
<1> QED BY <1>1, MenuTyped DEF Radio, PortMenu

LEMMA PortInit == Init => PortInv
<1> SUFFICES ASSUME Init PROVE PortInv
    OBVIOUS
<1>1. file \in Settings
      BY TypeInit DEF TypeInv, TypeOK
<1> QED BY <1>1, PortStart DEF Init, PortInv, PortEntryRight

LEMMA PortNext == TypeInv /\ PortInv /\ [Next]_vars => PortInv'
<1> SUFFICES ASSUME TypeInv, PortInv, [Next]_vars PROVE PortInv'
    OBVIOUS
<1>1. TypeInv'
      BY TypeNext
<1>2. ASSUME NEW f, Readable(f), Restart(f)
      PROVE  PortInv'
  <2>1. PICK found \in Found :
          /\ frame' = Read(f, found)
          /\ entries' = MenuEntries(frame'.commlink)
          /\ portOn' = (frame'.commlink # "usb")
          /\ checked' = Radio(frame')
        BY <1>2 DEF Restart
  <2>2. Read(f, found) \in Settings
        BY <1>2, ReadTyped
  <2> QED BY <2>1, <2>2, PortStart DEF PortInv, PortEntryRight
<1>3. CASE Leave
      BY <1>2, <1>3, SettingsReadable DEF Leave, TypeInv, TypeOK
<1>5. ASSUME NEW link \in {"serial", "parallel"}, link = "parallel" => build = "windows",
             NEW key \in {"commport_serial", "commport_parallel"}, NEW items,
             ShowPorts(link, key, items)
      PROVE  PortInv'
  <2>1. entries'[2] = PortMenu(link)
        BY <1>5, SwappedEntry DEF ShowPorts, PortInv
  <2>2. frame'.commlink = link /\ checked'.type = link /\ portOn' = TRUE
        BY <1>5 DEF ShowPorts, TypeInv, TypeOK, Settings
  <2>3. PortMenu(link) \in {"portMenuP", "portMenuS", "portMenuU"}
        BY DEF PortMenu
  <2> QED BY <2>1, <2>2, <2>3 DEF PortInv, PortEntryRight
<1>6. CASE OnPortSerial
      BY <1>5, <1>6 DEF OnPortSerial
<1>7. CASE OnPortParallel
      BY <1>5, <1>7 DEF OnPortParallel
<1>8. ASSUME NEW link \in {"serial", "parallel"},
             NEW key \in {"commport_serial", "commport_parallel"}, NEW items,
             NEW k, PortChange(link, key, items, k)
      PROVE  PortInv'
  <2>1. frame'.commlink = frame.commlink /\ checked'.type = checked.type
        BY <1>8 DEF PortChange, TypeInv, TypeOK, Settings
  <2> QED BY <1>8, <2>1 DEF PortChange, PortInv, PortEntryRight
<1>9. ASSUME NEW k \in DOMAIN ports, OnSerialPortChange(k)
      PROVE  PortInv'
      BY <1>8, <1>9 DEF OnSerialPortChange
<1>10. ASSUME NEW k \in DOMAIN Lpts, OnParallelPortChange(k)
       PROVE  PortInv'
       BY <1>8, <1>10 DEF OnParallelPortChange
<1>11. CASE OnPortUSB
       BY <1>11 DEF OnPortUSB, PortInv, PortEntryRight, TypeInv, TypeOK, Settings
<1>12. ASSUME frame'.commlink = frame.commlink, checked'.type = checked.type,
              portOn' = portOn, entries' = entries
       PROVE  PortInv'
       BY <1>12 DEF PortInv, PortEntryRight
<1>13. ASSUME NEW leds \in WheelSizes, OnWheelSize(leds)
       PROVE  PortInv'
       BY <1>12, <1>13 DEF OnWheelSize, TypeInv, TypeOK
<1>14. ASSUME NEW hub \in Hubs, OnHubSize(hub)
       PROVE  PortInv'
       BY <1>12, <1>14 DEF OnHubSize, menus, TypeInv, TypeOK, Settings
<1>15. ASSUME NEW delay \in Delays, OnCommDelay(delay)
       PROVE  PortInv'
       BY <1>12, <1>15 DEF OnCommDelay, menus, TypeInv, TypeOK, Settings
<1>16. CASE Connect \/ Disconnect \/ OnTestPort \/ UNCHANGED vars
       BY <1>12, <1>16 DEF Connect, Disconnect, OnTestPort, vars, menus
<1> QED BY <1>3, <1>6, <1>7, <1>9, <1>10, <1>11, <1>13, <1>14, <1>15, <1>16 DEF Next

\* The Port entry is the menu of the present port type and can be opened unless
\* that is USB, in whatever order the types were chosen (OnPortUSB,
\* OnPortSerial, OnPortParallel).
THEOREM ConfigPortEntry == Spec => []PortEntryRight
<1>1. PortInv => PortEntryRight
      BY DEF PortInv
<1> QED BY <1>1, TypeInit, TypeNext, PortInit, PortNext, PTL DEF Spec

LEMMA ShownNext == TypeInv /\ PortShown /\ [Next]_vars => PortShown'
<1> SUFFICES ASSUME TypeInv, PortShown, [Next]_vars PROVE PortShown'
    OBVIOUS
<1>1. CASE Leave
      BY <1>1 DEF Leave, Restart, PortShown
<1>2. CASE OnPortSerial
  <2> DEFINE place == PlaceOf(ports, frame.commport_serial, checked.serial)
             port == PortIn(ports, frame.commport_serial)
  <2>1. /\ frame.commport_serial \in PortNames /\ checked.serial \in Nat
        /\ \A k \in DOMAIN ports : ports[k] \in PortNames
        /\ ports # <<>> => 1 \in DOMAIN ports
        BY FoundTyped, PortsTyped DEF TypeInv, TypeOK, Settings
  <2>2. ports # <<>> => ports[place] = port
        BY <2>1, PlaceTyped
  <2>3. /\ checked'.serial = place /\ checked'.parallel = checked.parallel
        /\ frame'.commport_serial = port
        /\ frame'.commport_parallel = frame.commport_parallel
        /\ taken' = taken \cup {"serial"} /\ ports' = ports
        BY <1>2 DEF OnPortSerial, ShowPorts, TypeInv, TypeOK, Settings
  <2> QED BY <2>2, <2>3 DEF PortShown
<1>3. CASE OnPortParallel
  <2> DEFINE place == PlaceOf(Lpts, frame.commport_parallel, checked.parallel)
             port == PortIn(Lpts, frame.commport_parallel)
  <2>1. frame.commport_parallel \in PortNames /\ checked.parallel \in Nat
        BY DEF TypeInv, TypeOK, Settings
  <2>2. Lpts[place] = port
        BY <2>1, LptsTyped, PlaceTyped
  <2>3. /\ checked'.parallel = place /\ checked'.serial = checked.serial
        /\ frame'.commport_parallel = port
        /\ frame'.commport_serial = frame.commport_serial
        /\ taken' = taken \cup {"parallel"} /\ ports' = ports
        BY <1>3 DEF OnPortParallel, ShowPorts, TypeInv, TypeOK, Settings
  <2> QED BY <2>2, <2>3 DEF PortShown
<1>4. ASSUME NEW k \in DOMAIN ports, OnSerialPortChange(k)
      PROVE  PortShown'
  <2>1. /\ checked'.serial = k /\ checked'.parallel = checked.parallel
        /\ frame'.commport_serial = ports[k]
        /\ frame'.commport_parallel = frame.commport_parallel
        /\ taken' = taken \cup {"serial"} /\ ports' = ports
        BY <1>4 DEF OnSerialPortChange, PortChange, TypeInv, TypeOK, Settings
  <2> QED BY <2>1 DEF PortShown
<1>5. ASSUME NEW k \in DOMAIN Lpts, OnParallelPortChange(k)
      PROVE  PortShown'
  <2>1. /\ checked'.parallel = k /\ checked'.serial = checked.serial
        /\ frame'.commport_parallel = Lpts[k]
        /\ frame'.commport_serial = frame.commport_serial
        /\ taken' = taken \cup {"parallel"} /\ ports' = ports
        BY <1>5 DEF OnParallelPortChange, PortChange, TypeInv, TypeOK, Settings
  <2> QED BY <2>1 DEF PortShown
<1>6. ASSUME ports' = ports, taken' \subseteq taken \cup {"usb", "size"},
             checked'.serial = checked.serial, checked'.parallel = checked.parallel,
             frame'.commport_serial = frame.commport_serial,
             frame'.commport_parallel = frame.commport_parallel
      PROVE  PortShown'
      BY <1>6 DEF PortShown
<1>7. CASE OnPortUSB
      BY <1>6, <1>7 DEF OnPortUSB, TypeInv, TypeOK, Settings
<1>8. ASSUME NEW leds \in WheelSizes, OnWheelSize(leds)
      PROVE  PortShown'
      BY <1>6, <1>8 DEF OnWheelSize, TypeInv, TypeOK
<1>9. ASSUME NEW hub \in Hubs, OnHubSize(hub)
      PROVE  PortShown'
      BY <1>6, <1>9 DEF OnHubSize, menus, TypeInv, TypeOK, Settings
<1>10. ASSUME NEW delay \in Delays, OnCommDelay(delay)
       PROVE  PortShown'
       BY <1>6, <1>10 DEF OnCommDelay, menus, TypeInv, TypeOK, Settings
<1>11. CASE Connect \/ Disconnect \/ OnTestPort \/ UNCHANGED vars
       BY <1>6, <1>11 DEF Connect, Disconnect, OnTestPort, vars, menus
<1> QED BY <1>1, <1>2, <1>3, <1>4, <1>5, <1>7, <1>8, <1>9, <1>10, <1>11 DEF Next

\* Once a port type or a port was chosen in this run, the port that Connect opens
\* is the one checked in the menu, also when the configured port was gone
\* (OnPortSerial, OnPortParallel, OnSerialPortChange, OnParallelPortChange).
THEOREM ConfigPortShown == Spec => []PortShown
<1>1. Init => PortShown
      BY DEF Init, PortShown
<1> QED BY <1>1, TypeInit, TypeNext, ShownNext, PTL DEF Spec

----------------------------------------------------------------------------
(* What the next run finds. *)

SavedInv ==
    /\ \A k \in Flushed : cfg[k] = frame[k] /\ file[k] = frame[k]
    /\ \A k \in {"hub_size", "comm_delay"} :
          cfg[k] = frame[k] /\ (k \notin unsaved => file[k] = frame[k])
    /\ cfg.num_leds = SizeOfRun /\ file.num_leds = SizeOfRun

\* A constructor that finds what a run before it wrote takes it as it is.
LEMMA ReadAgain ==
    ASSUME NEW c \in Settings, NoParallel(c), NEW found
    PROVE  /\ \A k \in Flushed : Read(c, found)[k] = c[k]
           /\ Read(c, found).num_leds = c.num_leds
           /\ Read(c, found).hub_size = c.hub_size
           /\ Read(c, found).comm_delay = c.comm_delay
<1>1. /\ c.commlink \in Links /\ Value(c, "commlink", DefaultLink) = c.commlink
      /\ Value(c, "num_leds", 30) = c.num_leds /\ Value(c, "hub_size", 5) = c.hub_size
      /\ Value(c, "comm_delay", 500) = c.comm_delay
      /\ Value(c, "commport_serial", DefaultSerial(found)) = c.commport_serial
      /\ Value(c, "commport_parallel", "lpt1") = c.commport_parallel
      BY DEF Settings, Value
<1>2. LinkOf(c) = c.commlink
      BY <1>1 DEF LinkOf
<1> QED BY <1>1, <1>2 DEF Read, Flushed, NoParallel

LEMMA SavedInit == Init => SavedInv
BY DEF Init, SavedInv, SizeOfRun

LEMMA SavedNext == TypeInv /\ SavedInv /\ [Next]_vars => SavedInv'
<1> SUFFICES ASSUME TypeInv, SavedInv, [Next]_vars PROVE SavedInv'
    OBVIOUS
<1>1. CASE Leave
  <2>1. cfg' = file' /\ frame' = file' /\ taken' = {}
        BY <1>1 DEF Leave, Restart
  <2> QED BY <2>1 DEF SavedInv, SizeOfRun
\* A choice that is flushed.
<1>2. ASSUME file' = cfg', unsaved' = {},
             \A k \in Flushed \cup {"hub_size", "comm_delay"} : cfg'[k] = frame'[k],
             cfg'.num_leds = SizeOfRun'
      PROVE  SavedInv'
      BY <1>2 DEF SavedInv
\* A choice that is not, of hub size or delay.
<1>3. ASSUME NEW key \in {"hub_size", "comm_delay"}, NEW v,
             frame' = [frame EXCEPT ![key] = v], SetValue(key, v),
             checked' = checked, taken' = taken
      PROVE  SavedInv'
  <2>1. cfg' = [cfg EXCEPT ![key] = v]
        BY <1>3 DEF SetValue
  <2>2. \A k \in Flushed \cup {"hub_size", "comm_delay"} : cfg'[k] = frame'[k]
        BY <1>3, <2>1 DEF SavedInv, Flushed, TypeInv, TypeOK, Settings
  <2>3. SizeOfRun' = SizeOfRun /\ cfg'.num_leds = SizeOfRun
        BY <1>3, <2>1 DEF SavedInv, SizeOfRun, TypeInv, TypeOK, Settings
  <2>4. CASE build = "windows"
    <3>1. file' = cfg' /\ unsaved' = {}
          BY <1>3, <2>4 DEF SetValue
    <3> QED BY <1>2, <2>2, <2>3, <3>1
  <2>5. CASE build # "windows"
    <3>1. file' = file /\ unsaved' = unsaved \cup {key}
          BY <1>3, <2>5 DEF SetValue
    <3>2. \A k \in Flushed : frame'[k] = frame[k]
          BY <1>3 DEF Flushed, TypeInv, TypeOK, Settings
    <3>3. \A k \in {"hub_size", "comm_delay"} : k # key => frame'[k] = frame[k]
          BY <1>3 DEF TypeInv, TypeOK, Settings
    <3> QED BY <2>2, <2>3, <3>1, <3>2, <3>3 DEF SavedInv
  <2> QED BY <2>4, <2>5
<1>4. ASSUME NEW leds \in WheelSizes, OnWheelSize(leds)
      PROVE  SavedInv'
  <2>1. /\ cfg' = [cfg EXCEPT !.num_leds = leds] /\ file' = cfg' /\ unsaved' = {}
        /\ frame' = frame /\ "size" \in taken'
        /\ checked'.size = leds
        BY <1>4 DEF OnWheelSize, SetAndSave, TypeInv, TypeOK
  <2>2. SizeOfRun' = leds
        BY <2>1 DEF SizeOfRun
  <2>3. \A k \in Flushed \cup {"hub_size", "comm_delay"} : cfg'[k] = frame'[k]
        BY <2>1 DEF SavedInv, Flushed, TypeInv, TypeOK, Settings
  <2>4. cfg'.num_leds = leds
        BY <2>1 DEF TypeInv, TypeOK, Settings
  <2> QED BY <1>2, <2>1, <2>2, <2>3, <2>4
<1>5. ASSUME NEW hub \in Hubs, OnHubSize(hub)
      PROVE  SavedInv'
      BY <1>3, <1>5 DEF OnHubSize, menus
<1>6. ASSUME NEW delay \in Delays, OnCommDelay(delay)
      PROVE  SavedInv'
      BY <1>3, <1>6 DEF OnCommDelay, menus
\* What leaves the wheel size alone.
<1>7. ASSUME NEW link \in {"serial", "parallel", "usb"}, taken' = taken \cup {link},
             checked'.size = checked.size, frame'.num_leds = frame.num_leds,
             cfg'.num_leds = cfg.num_leds
      PROVE  cfg'.num_leds = SizeOfRun'
  <2>1. "size" \in taken' <=> "size" \in taken
        BY <1>7
  <2> QED BY <1>7, <2>1 DEF SizeOfRun, SavedInv
<1>8. CASE OnPortUSB
  <2>1. /\ cfg' = [cfg EXCEPT !.commlink = "usb"] /\ file' = cfg' /\ unsaved' = {}
        /\ frame' = [frame EXCEPT !.commlink = "usb"] /\ taken' = taken \cup {"usb"}
        BY <1>8 DEF OnPortUSB, SetAndSave
  <2>2. \A k \in Flushed \cup {"hub_size", "comm_delay"} : cfg'[k] = frame'[k]
        BY <2>1 DEF SavedInv, Flushed, TypeInv, TypeOK, Settings
  <2>3. /\ frame'.num_leds = frame.num_leds /\ cfg'.num_leds = cfg.num_leds
        /\ checked'.size = checked.size
        BY <1>8, <2>1 DEF OnPortUSB, TypeInv, TypeOK, Settings
  <2> QED BY <1>2, <1>7, <2>1, <2>2, <2>3
<1>9. ASSUME NEW link \in {"serial", "parallel"},
             NEW key \in {"commport_serial", "commport_parallel"}, NEW items,
             ShowPorts(link, key, items)
      PROVE  SavedInv'
  <2> DEFINE port == PortIn(items, frame[key])
  <2>1. /\ frame' = [frame EXCEPT !.commlink = link, ![key] = port]
        /\ cfg' = IF port = frame[key] THEN [cfg EXCEPT !.commlink = link]
                  ELSE [cfg EXCEPT !.commlink = link, ![key] = port]
        /\ file' = cfg' /\ unsaved' = {} /\ taken' = taken \cup {link}
        BY <1>9 DEF ShowPorts, SetAndSave
  <2>2. /\ frame'.num_leds = frame.num_leds /\ cfg'.num_leds = cfg.num_leds
        BY <2>1 DEF TypeInv, TypeOK, Settings
  <2>3. checked'.size = checked.size
        BY <1>9 DEF ShowPorts, TypeInv, TypeOK
  <2> HIDE DEF port
  <2>4. \A k \in Flushed \cup {"hub_size", "comm_delay"} : cfg'[k] = frame'[k]
        BY <2>1 DEF SavedInv, Flushed, TypeInv, TypeOK, Settings
  <2> QED BY <1>2, <1>7, <2>1, <2>2, <2>3, <2>4
<1>10. CASE OnPortSerial \/ OnPortParallel
       BY <1>9, <1>10 DEF OnPortSerial, OnPortParallel
<1>11. ASSUME NEW link \in {"serial", "parallel"},
              NEW key \in {"commport_serial", "commport_parallel"}, NEW items, NEW k,
              PortChange(link, key, items, k)
       PROVE  SavedInv'
  <2>1. /\ frame' = [frame EXCEPT ![key] = items[k]]
        /\ cfg' = [cfg EXCEPT ![key] = items[k]]
        /\ file' = cfg' /\ unsaved' = {} /\ taken' = taken \cup {link}
        BY <1>11 DEF PortChange, SetAndSave
  <2>2. /\ frame'.num_leds = frame.num_leds /\ cfg'.num_leds = cfg.num_leds
        BY <2>1 DEF TypeInv, TypeOK, Settings
  <2>3. checked'.size = checked.size
        BY <1>11 DEF PortChange, TypeInv, TypeOK
  <2>4. \A q \in Flushed \cup {"hub_size", "comm_delay"} : cfg'[q] = frame'[q]
        BY <2>1 DEF SavedInv, Flushed, TypeInv, TypeOK, Settings
  <2> QED BY <1>2, <1>7, <2>1, <2>2, <2>3, <2>4
<1>12. ASSUME NEW k \in DOMAIN ports, OnSerialPortChange(k)
       PROVE  SavedInv'
       BY <1>11, <1>12 DEF OnSerialPortChange
<1>13. ASSUME NEW k \in DOMAIN Lpts, OnParallelPortChange(k)
       PROVE  SavedInv'
       BY <1>11, <1>13 DEF OnParallelPortChange
<1>14. CASE Connect \/ Disconnect \/ OnTestPort \/ UNCHANGED vars
       BY <1>14 DEF Connect, Disconnect, OnTestPort, vars, stored, menus, SavedInv, SizeOfRun
<1> QED BY <1>1, <1>4, <1>5, <1>6, <1>8, <1>10, <1>12, <1>13, <1>14 DEF Next

\* However a run ends, the next one has its port type and ports, the wheel size
\* chosen in it or else the one it began with, and its hub size and delay but for
\* those a posix build was told of and did not flush (OnHubSize, OnCommDelay, and
\* the application's OnExit, which does not destroy wxConfig).
THEOREM ConfigNextRun == Spec => NextRunSame
<1> DEFINE Step ==
      Leave => /\ \A k \in Flushed \cup ({"hub_size", "comm_delay"} \ unsaved) :
                     frame'[k] = frame[k]
               /\ frame'.num_leds = SizeOfRun
<1>1. ASSUME TypeInv, SavedInv, Leave
      PROVE  /\ \A k \in Flushed \cup ({"hub_size", "comm_delay"} \ unsaved) :
                   frame'[k] = frame[k]
             /\ frame'.num_leds = SizeOfRun
  <2>1. /\ \A k \in Flushed : frame'[k] = file[k]
        /\ frame'.num_leds = file.num_leds
        /\ frame'.hub_size = file.hub_size /\ frame'.comm_delay = file.comm_delay
        BY <1>1, ReadAgain DEF Leave, Restart, TypeInv, TypeOK
  <2> QED BY <1>1, <2>1 DEF SavedInv
<1>2. TypeInv /\ SavedInv => [Step]_vars
      BY <1>1
<1> QED BY <1>2, TypeInit, TypeNext, SavedInit, SavedNext, PTL DEF Spec, NextRunSame

----------------------------------------------------------------------------
(* What a session uses. *)

LEMMA SessionNext == TypeInv /\ SessionInForce /\ [Next]_vars => SessionInForce'
<1> SUFFICES ASSUME TypeInv, SessionInForce, [Next]_vars PROVE SessionInForce'
    OBVIOUS
<1>1. CASE Leave
      BY <1>1 DEF Leave, Restart, SessionInForce
<1>2. ASSUME NEW leds \in WheelSizes, OnWheelSize(leds)
      PROVE  SessionInForce'
  <2>1. \A u \in used : /\ [u EXCEPT !["num_leds"] = leds].num_leds = leds
                        /\ [u EXCEPT !["num_leds"] = leds].hub_size = u.hub_size
                        /\ [u EXCEPT !["num_leds"] = leds].comm_delay = u.comm_delay
        BY DEF TypeInv, TypeOK, Settings
  <2>2. checked'.size = leds
        BY <1>2 DEF OnWheelSize, TypeInv, TypeOK
  <2> QED BY <1>2, <2>1, <2>2 DEF OnWheelSize, TellPanels, SessionInForce
<1>3. ASSUME NEW hub \in Hubs, OnHubSize(hub)
      PROVE  SessionInForce'
  <2>1. \A u \in used : /\ [u EXCEPT !["hub_size"] = hub].num_leds = u.num_leds
                        /\ [u EXCEPT !["hub_size"] = hub].hub_size = hub
                        /\ [u EXCEPT !["hub_size"] = hub].comm_delay = u.comm_delay
        BY DEF TypeInv, TypeOK, Settings
  <2>2. /\ frame'.hub_size = hub /\ frame'.comm_delay = frame.comm_delay
        /\ frame'.num_leds = frame.num_leds
        BY <1>3 DEF OnHubSize, TypeInv, TypeOK, Settings
  <2> QED BY <1>3, <2>1, <2>2 DEF OnHubSize, TellPanels, menus, SessionInForce
<1>4. ASSUME NEW delay \in Delays, OnCommDelay(delay)
      PROVE  SessionInForce'
      BY <1>4 DEF OnCommDelay, Connected, session, SessionInForce
<1>5. ASSUME used' = used, tested' = tested, checked'.size = checked.size,
             frame'.num_leds = frame.num_leds, frame'.hub_size = frame.hub_size,
             frame'.comm_delay = frame.comm_delay
      PROVE  SessionInForce'
      BY <1>5 DEF SessionInForce
<1>6. CASE OnPortUSB
      BY <1>5, <1>6 DEF OnPortUSB, session, TypeInv, TypeOK, Settings
<1>7. CASE OnPortSerial \/ OnPortParallel
      BY <1>5, <1>7
      DEF OnPortSerial, OnPortParallel, ShowPorts, session, TypeInv, TypeOK, Settings
<1>8. ASSUME NEW k \in DOMAIN ports, OnSerialPortChange(k)
      PROVE  SessionInForce'
      BY <1>5, <1>8 DEF OnSerialPortChange, PortChange, session, TypeInv, TypeOK, Settings
<1>9. ASSUME NEW k \in DOMAIN Lpts, OnParallelPortChange(k)
      PROVE  SessionInForce'
      BY <1>5, <1>9 DEF OnParallelPortChange, PortChange, session, TypeInv, TypeOK, Settings
<1>10. CASE Connect \/ Disconnect
       BY <1>10 DEF Connect, Disconnect, menus, SessionInForce
<1>11. CASE OnTestPort
  <2> DEFINE LinkDelays == IF frame.commlink = "parallel" THEN {1000} ELSE Delays
  <2>1. PICK delay \in LinkDelays :
          used' = {[frame EXCEPT !.comm_delay = delay, !.num_leds = u.num_leds,
                                 !.hub_size = u.hub_size] : u \in used}
        BY <1>11 DEF OnTestPort
  <2>2. \A u \in used :
          LET v == [frame EXCEPT !.comm_delay = delay, !.num_leds = u.num_leds,
                                 !.hub_size = u.hub_size]
          IN  v.num_leds = u.num_leds /\ v.hub_size = u.hub_size
        BY DEF TypeInv, TypeOK, Settings
  <2> QED BY <1>11, <2>1, <2>2 DEF OnTestPort, menus, SessionInForce
<1>12. CASE UNCHANGED vars
       BY <1>5, <1>12 DEF vars, menus, session
<1> QED BY <1>1, <1>2, <1>3, <1>4, <1>6, <1>7, <1>8, <1>9, <1>10, <1>11, <1>12 DEF Next

\* A session's panels have the frame's hub, its link the frame's delay unless a
\* port test put another in its place, and the panels the frame's wheel size or
\* the one the menu shows (Connect, OnWheelSizeBMX, OnHubSize, OnTestPort).
THEOREM ConfigSession == Spec => []SessionInForce
<1>1. Init => SessionInForce
      BY DEF Init, SessionInForce
<1> QED BY <1>1, TypeInit, TypeNext, SessionNext, PTL DEF Spec

----------------------------------------------------------------------------
(* The entries of the Config menu. *)

ToolsInv ==
    /\ ToolsKept
    /\ build = "windows" => ~wild

LEMMA ToolsInit == Init => ToolsInv
<1> SUFFICES ASSUME Init PROVE ToolsInv
    OBVIOUS
<1>1. file.commlink \in {"parallel", "serial", "usb"}
      BY TypeInit, LinksTyped DEF TypeInv, TypeOK, Settings
<1> QED BY <1>1, MenuTyped DEF Init, ToolsInv, ToolsKept, MenuPMayBeNull

LEMMA ToolsNext == TypeInv /\ ToolsInv /\ [Next]_vars => ToolsInv'
<1> SUFFICES ASSUME TypeInv, ToolsInv, [Next]_vars PROVE ToolsInv'
    OBVIOUS
<1>1. ASSUME NEW f, Readable(f), Restart(f)
      PROVE  ToolsInv'
  <2>1. PICK found \in Found :
          /\ file' = Read(f, found) /\ entries' = MenuEntries(file'.commlink)
          /\ wild' \in MenuPMayBeNull /\ build' = build
        BY <1>1 DEF Restart
  <2>2. file'.commlink \in {"parallel", "serial", "usb"}
        BY <1>1, <2>1, ReadTyped, LinksTyped DEF Settings
  <2> QED BY <2>1, <2>2, MenuTyped DEF ToolsInv, ToolsKept, MenuPMayBeNull
<1>2. CASE Leave
      BY <1>1, <1>2, SettingsReadable DEF Leave, TypeInv, TypeOK
<1>3. ASSUME NEW link \in {"serial", "parallel"}, link = "parallel" => build = "windows",
             ~wild \/ "serial" \notin taken \cup {link}, SwapPortMenu(PortMenu(link))
      PROVE  Plain \subseteq ToSet(entries')
  <2>1. ~wild
        BY <1>3 DEF ToolsInv
  <2>2. \A x \in Plain : x \notin Others(PortMenu(link))
        BY <2>1 DEF Others, Plain
  <2>3. DOMAIN entries' = DOMAIN entries
        BY <1>3 DEF SwapPortMenu
  <2>4. ASSUME NEW x \in Plain
        PROVE  \E k \in DOMAIN entries' : entries'[k] = x
    <3>1. PICK k \in DOMAIN entries : entries[k] = x
          BY <2>1 DEF ToolsInv, ToolsKept, ToSet
    <3>2. entries'[k] = x
          BY <1>3, <2>2, <3>1 DEF SwapPortMenu
    <3> QED BY <2>3, <3>1, <3>2
  <2> QED BY <2>4 DEF ToSet
<1>4. CASE OnPortSerial
  <2>1. /\ SwapPortMenu(PortMenu("serial")) /\ taken' = taken \cup {"serial"}
        /\ wild' = wild /\ build' = build
        BY <1>4 DEF OnPortSerial, ShowPorts
  <2> QED BY <1>3, <2>1 DEF ToolsInv, ToolsKept
<1>5. CASE OnPortParallel
  <2>1. /\ SwapPortMenu(PortMenu("parallel")) /\ taken' = taken \cup {"parallel"}
        /\ wild' = wild /\ build' = build /\ build = "windows"
        BY <1>5 DEF OnPortParallel, ShowPorts
  <2> QED BY <1>3, <2>1 DEF ToolsInv, ToolsKept
<1>6. ASSUME entries' = entries, taken \subseteq taken', wild' = wild, build' = build
      PROVE  ToolsInv'
      BY <1>6 DEF ToolsInv, ToolsKept
<1>7. ASSUME NEW leds \in WheelSizes, OnWheelSize(leds)
      PROVE  ToolsInv'
      BY <1>6, <1>7 DEF OnWheelSize
<1>8. ASSUME NEW hub \in Hubs, OnHubSize(hub)
      PROVE  ToolsInv'
      BY <1>6, <1>8 DEF OnHubSize, menus
<1>9. ASSUME NEW delay \in Delays, OnCommDelay(delay)
      PROVE  ToolsInv'
      BY <1>6, <1>9 DEF OnCommDelay, menus
<1>10. CASE OnPortUSB
       BY <1>6, <1>10 DEF OnPortUSB
<1>11. ASSUME NEW k, OnSerialPortChange(k) \/ OnParallelPortChange(k)
       PROVE  ToolsInv'
       BY <1>6, <1>11 DEF OnSerialPortChange, OnParallelPortChange, PortChange
<1>12. CASE Connect \/ Disconnect \/ OnTestPort \/ UNCHANGED vars
       BY <1>6, <1>12 DEF Connect, Disconnect, OnTestPort, vars, menus
<1> QED BY <1>2, <1>4, <1>5, <1>7, <1>8, <1>9, <1>10, <1>11, <1>12 DEF Next

\* Hub Size, Test Port and Comm Delay stay in the Config menu, except where the
\* uninitialized portMenuP is null and Serial has been chosen (OnPortSerial).
THEOREM ConfigToolsKept == Spec => []ToolsKept
<1>1. ToolsInv => ToolsKept
      BY DEF ToolsInv
<1> QED BY <1>1, TypeInit, TypeNext, ToolsInit, ToolsNext, PTL DEF Spec

=============================================================================
