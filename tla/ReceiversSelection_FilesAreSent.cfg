CONSTANTS
    d1 = d1
    d2 = d2
    me = me
    Devices = {d1, d2, me}
    selfId = me
    MaxSheets = 2
    MaxFound = 2
SPECIFICATION Spec
INVARIANT FilesAreSent
SYMMETRY OtherDevices
CHECK_DEADLOCK FALSE
