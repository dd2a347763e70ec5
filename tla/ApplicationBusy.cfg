\* A COEX device that answers a status request with an error code.
SPECIFICATION Spec
CONSTANTS
    d1 = d1
    Address = {d1}
    RegisterBus = {}
    Busy = {d1}
    Ports = {"default", "custom"}
    Saved <- SavedPlain
    Handler = {}
    MaxRequest = 0
    MaxOutage = 0
    FirstBackoff = 1
    MaxBackoff = 2
    Thresholds <- OnTheSecond
    MissBound = 2
    None = None
INVARIANT RefreshNeverRaises
