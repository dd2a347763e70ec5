\* The same promise for a device on the register bus, with no request at all.
SPECIFICATION FairSpec
CONSTANTS
    d1 = d1
    Address = {d1}
    RegisterBus = {d1}
    Busy = {}
    Ports = {"default", "custom"}
    Saved <- SavedPlain
    Handler = {}
    MaxRequest = 0
    MaxOutage = 1
    FirstBackoff = 1
    MaxBackoff = 2
    Thresholds <- OnTheSecond
    MissBound = 2
    None = None
PROPERTY OutageIsAlerted
