\* Both builds, no to two serial ports, files with any settings.
CONSTANTS
    Builds = {"windows", "posix"}
    Stored <- FilesOfAnySize
    ComPorts <- TwoPorts
    Devices <- SomeDevices
    PortNames = {"COM1", "COM2", "ttyX", "lpt1", "lpt2", "lpt3", "no port"}
    Hubs = {4, 5}
    Delays = {500, 1000}
SPECIFICATION Spec
INVARIANTS
    TypeOK
    PortEntryRight
    PortShown
    SessionInForce
    ToolsKept
PROPERTIES
    NextRunSame
