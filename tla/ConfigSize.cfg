\* Files of a road or a BMX wheel, one serial port.
CONSTANTS
    Builds = {"windows", "posix"}
    Stored <- FilesOfAWheel
    ComPorts <- TwoPorts
    Devices <- SomeDevices
    PortNames = {"COM1", "COM2", "ttyX", "lpt1", "lpt2", "lpt3", "no port"}
    Hubs = {5}
    Delays = {500}
SPECIFICATION Spec
INVARIANTS
    SizeInForce
