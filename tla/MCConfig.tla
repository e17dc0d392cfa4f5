------------------------------ MODULE MCConfig ------------------------------
(***************************************************************************)
(* Instances of Config for TLC, and what the menu says of the wheel size.  *)
(***************************************************************************)
EXTENDS Config

\* A file of a run before, with a wheel of that size and that port type; the
\* port "ttyX" has been unplugged since.
OldFile(leds, link, port) ==
    [num_leds |-> leds, hub_size |-> 5, comm_delay |-> 500, commlink |-> link,
     commport_serial |-> port, commport_parallel |-> "lpt2"]

NoFile == [k \in {} |-> 0]

\* No file, a file without numbers, files with any port type, and with sizes that
\* ToLong takes and no wheel has.
FilesOfAnySize ==
    {NoFile, [commlink |-> "floppy"]} \cup
    {OldFile(leds, link, port) : leds \in {22, -1, 30}, link \in {"parallel", "serial", "usb"},
                                 port \in {"COM2", "ttyX"}}

\* Files of the two sizes of wheel that there are.
FilesOfAWheel == {NoFile} \cup {OldFile(leds, "serial", "COM2") : leds \in WheelSizes}

TwoPorts == <<"COM1", "COM2">>

\* No serial device, one, or two.
SomeDevices == {<<>>, <<"COM2">>, <<"COM1", "COM2">>}

\* The menu, spokepov.cpp:290 and 292, checked says of the wheel "BMX (16\") wheel" or
\* "MTB/Road size wheel": it is the wheel that the panels draw.
SizeInForce == \A u \in used : u.num_leds = checked.size

=============================================================================
