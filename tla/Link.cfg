CONSTANTS
    Width = 4
    Chunk = 2
    Code <- SomeCodes
    Ack <- Status
    Quiet <- Nothing
    Cells = {0, 1}
    Where <- LowBit
    Addrs <- OneAddr
    Payload <- Pictures
    Kind = {"posix", "win32", "parallel", "usb"}
    MaxFaults = 1
    Patience <- Tries
    Enough = 1
SPECIFICATION Spec
INVARIANTS TypeOK InStep Cured
PROPERTIES Promised Works SlipNoticed
