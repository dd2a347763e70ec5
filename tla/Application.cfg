\* Two server threads and the refresh thread on one device with its own ports.
SPECIFICATION Spec
CONSTANTS
    d1 = d1
    Address = {d1}
    RegisterBus = {}
    Busy = {d1}
    Ports = {"default", "custom"}
    Saved <- SavedCustom
    Handler = {h1, h2}
    MaxRequest = 2
    MaxOutage = 1
    FirstBackoff = 1
    MaxBackoff = 1
    Thresholds <- AtOnce
    MissBound = 1
    None = None
SYMMETRY HandlerSymmetry
INVARIANTS
    TypeOK
    NoUseAfterClose
    OnlineMeansSession
    NoWaitCycle
\* Requests run out and the refresh thread may have ended: it really stops then.
CHECK_DEADLOCK FALSE
