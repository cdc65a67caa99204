SPECIFICATION Spec
CONSTANTS
    NetThread = net
    Senders = {net, world}
    MaxPackets = 3
    MaxBytes = 2
CHECK_DEADLOCK FALSE
INVARIANT WireInCipherOrder
