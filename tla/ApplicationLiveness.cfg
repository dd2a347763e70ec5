\* The refresh thread and a server thread on a COEX device that comes and goes.
SPECIFICATION FairSpec
CONSTANTS
    d1 = d1
    Address = {d1}
    RegisterBus = {}
    Busy = {}
    Ports = {"default", "custom"}
    Saved <- SavedCustom
    Handler = {h1}
    MaxRequest = 2
    MaxOutage = 1
    FirstBackoff = 1
    MaxBackoff = 2
    Thresholds <- AtOnce
    MissBound = 1
    None = None
PROPERTIES
    RequestsFinish
    OutageIsAlerted
    ReturnIsShown
