CONSTANTS
    Keys = {156}
    Packets = {}
    MaxKeys = 2
    MaxPackets = 0
    MaxResends = 0
    Quiet = FALSE
    Slow = FALSE
SPECIFICATION Spec
PROPERTIES KeysServed
