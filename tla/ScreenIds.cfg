\* Members that name screens of a COEX controller.
SPECIFICATION PartsSpec
CONSTANTS
    Thread = {t1, t2}
    Identifier = {1, 2}
    None = None
    MaxRequests = 3
    MaxCrashes = 1
    MaxEdits = 0
    Parts = {"screens"}
    Device = {"vx", "mx", "sc"}
    Part = {1, 2}
    MaxCommands = 2
    Cabinet = {1, 2}
    Level = {0, 2, 4}
    Endpoint = {"status", "displaymode", "brightness"}
    Endpoints = 2
    Poisons = 3
    Ports = 2
    Cards = 4
    Chain = 5
    Hosts = 2
    Every = 2
    Interval = 2
    Backoff = 3
    MaxPolls = 4
    MaxChanges = 1
    SerialNumbers = 2
    MaxFaults = 2
    Address = {"vx", "mx"}
    Total = 1
    Key = {0, 1}
    Length = 2
    Captured = 3
    Stream = 1
    SequenceNumbers = 2
PROPERTY MembersKeepToTheirParts
CHECK_DEADLOCK FALSE
