CONSTANTS
    r1 = r1
    r2 = r2
    Receivers = {r1, r2}
    MaxShares = 2
    MaxDeaths = 0
SPECIFICATION Spec
INVARIANT EachSelectedReceiverOnce
