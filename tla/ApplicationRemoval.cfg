\* A device removed while the refresh thread is busy with it.
SPECIFICATION Spec
CONSTANTS
    d1 = d1
    Address = {d1}
    RegisterBus = {}
    Busy = {}
    Ports = {"default", "custom"}
    Saved <- SavedPlain
    Handler = {h1}
    MaxRequest = 1
    MaxOutage = 1
    FirstBackoff = 1
    MaxBackoff = 2
    Thresholds <- AtOnce
    MissBound = 1
    None = None
INVARIANT AlertsHaveDevices
