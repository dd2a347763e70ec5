------------------------------- MODULE MCParts ------------------------------
(* The parts of the program that share no state, side by side: what the      *)
(* server does to the config file and to the members of a screen, and the    *)
(* tools that talk to a controller or to its network by themselves.  A       *)
(* behaviour is one of the parts in Parts at work, the others left alone.    *)
EXTENDS Configuration

CONSTANTS
    Parts,      \* the parts this run looks at
    Device, Part, MaxCommands,                          \* Screens
    Cabinet, Level, Endpoint,                           \* Verify, Monitor
    Endpoints, Poisons, Ports, Cards, Chain, Hosts,     \* Contact
    Every, Interval, Backoff, MaxPolls, MaxChanges,     \* Monitor
    SerialNumbers, MaxFaults,                           \* Recording
    Address, Total, Key, Length, Captured, Stream, SequenceNumbers  \* Readings

VARIABLES
    part,
    cards, display, panel, connected, command, plan, records, ended, paths,
    commands, mode, levels, late, absent, pc, claim, baseline, original,
    toRestore, observations, confirmed, aborted, before, unrestored, tool, hosts,
    allow, step, asked, untried, session, answered, reached, spoke, walk,
    register, topology, present, changes, polls, slow, toRead, raw, cache,
    allowed, since, spacing, reads, during, sent, wire, pump, chunk,
    buffer, toRecord, forwarded, log, open, faults, lossy, input

\* A device with a display register, one with the HTTP API, and one whose
\* display is its receiving cards; and screens that share them between members.
Path == [d \in Device |-> CASE d = "vx" -> "level" [] d = "mx" -> "coex" [] d = "sc" -> "cards"]
M(address, ports, screen_ids) ==
    [address |-> address, ports |-> ports, screen_ids |-> screen_ids]
Walls ==
    {<<M("vx", {1}, {}), M("mx", {}, {1})>>,
     <<M("sc", {}, {}), M("vx", {}, {}), M("gone", {}, {})>>,
     <<M("sc", {1, 2}, {}), M("mx", {1}, {}), M("vx", {2, 3}, {})>>}

Scr == INSTANCE Screens WITH Layout <- Walls
Ver == INSTANCE Verify
Con == INSTANCE Contact
Mon == INSTANCE Monitor
Rec == INSTANCE Recording
Rea == INSTANCE Readings WITH Device <- Address

ASSUME PartsAssumption ==
    /\ Scr!ScreensAssumption /\ Ver!VerifyAssumption /\ Con!ContactAssumption
    /\ Mon!MonitorAssumption /\ Rec!RecordingAssumption /\ Rea!ReadingsAssumption

scrVars == <<cards, display, panel, connected, command, plan, records, ended,
    paths, commands>>
verVars == <<mode, levels, late, absent, pc, claim, baseline, original,
    toRestore, observations, confirmed, aborted, before, unrestored>>
conVars == <<tool, hosts, allow, step, asked, untried, session, answered, reached,
    spoke, walk, register>>
monVars == <<topology, present, changes, polls, slow, toRead, raw, cache,
    allowed, since, spacing, reads, during>>
recVars == <<sent, wire, pump, chunk, buffer, toRecord, forwarded, log,
    open, faults, lossy>>
reaVars == <<input>>

PartsInit ==
    /\ part \in Parts
    /\ Init /\ Scr!Init /\ Ver!Init /\ Con!Init /\ Mon!Init /\ Rec!Init /\ Rea!Init

Server ==
    /\ part = "configuration" /\ Next
    /\ UNCHANGED <<part, scrVars, verVars, conVars, monVars, recVars, reaVars>>
DrivingScreens ==
    /\ part = "screens" /\ Scr!Next
    /\ UNCHANGED <<part, vars, verVars, conVars, monVars, recVars, reaVars>>
Verifying ==
    /\ part = "verify" /\ Ver!Next
    /\ UNCHANGED <<part, vars, scrVars, conVars, monVars, recVars, reaVars>>
Contacting ==
    /\ part = "contact" /\ Con!Next
    /\ UNCHANGED <<part, vars, scrVars, verVars, monVars, recVars, reaVars>>
Monitoring ==
    /\ part = "monitor" /\ Mon!Next
    /\ UNCHANGED <<part, vars, scrVars, verVars, conVars, recVars, reaVars>>
Proxying ==
    /\ part = "recording" /\ Rec!Next
    /\ UNCHANGED <<part, vars, scrVars, verVars, conVars, monVars, reaVars>>
Interpreting ==
    /\ part = "readings" /\ Rea!Next
    /\ UNCHANGED <<part, vars, scrVars, verVars, conVars, monVars, recVars>>

PartsNext ==
    \/ Server \/ DrivingScreens \/ Verifying \/ Contacting \/ Monitoring
    \/ Proxying \/ Interpreting

PartsSpec ==
    PartsInit /\ [][PartsNext]_<<part, vars, scrVars, verVars, conVars,
                                monVars, recVars, reaVars>>

-----------------------------------------------------------------------------
\* Every state of every part is well formed.
PartsTypeOK ==
    /\ TypeOK /\ Scr!TypeOK /\ Ver!TypeOK /\ Con!TypeOK /\ Mon!TypeOK
    /\ Rec!TypeOK /\ Rea!TypeOK

\* Of a device, only the ports a member names change (state.py:468).
PortsAreKept == Scr!PortsAreKept
\* A mode that was acknowledged is what the LEDs show (state.py:308).
AcknowledgedModeShows == Scr!AcknowledgedModeShows
\* Nothing is sent before the operator confirmed (verify.py:172).
NothingSentUnconfirmed == Ver!NothingSentUnconfirmed
\* What is recorded as restored was restored (verify.py:257, 311).
RestoredIsTrue == Ver!RestoredIsTrue
\* However a session ends the wall is as it was, or a restore failed, but for two
\* exceptions (verify.py:24, 263, 310).
WallIsAsItWas == Ver!WallIsAsItWas
\* No register-bus session after an answer of the HTTP API that is heeded
\* (devices.py:554, bringup.py:297, survey.py:183).
HeededAnswersKeepTheBusShut == Con!HeededAnswersKeepTheBusShut
\* Every session that is opened is closed (devices.py:597, bringup.py:432).
SessionsEnd == Con!SessionsEnd
\* A register is classified as what it is (bringup.py:224).
VerdictIsRight == Con!VerdictIsRight
\* Which cards may be overlooked, and that a full chain is called cut (bringup.py:361).
CardsAreAccounted == Con!CardsAreAccounted
\* Readings are never taken from the cache (monitor.py:344).
ShownAsReported == Mon!ShownAsReported
\* What the cache stands in for is read again in time (monitor.py:195).
SlowIsCurrent == Mon!SlowIsCurrent
\* The monitor cannot hammer the controller (monitor.py:9).
RequestsAreSpaced == Mon!RequestsAreSpaced
\* The proxy forwards what was sent, whatever it decodes (proxy.py:86).
ForwardingIsExact == Rec!ForwardingIsExact
\* The log has every frame, once and in order (proxy.py:48).
LogIsComplete == Rec!LogIsComplete
\* A response is paired with its own request (capture.py:363).
PairsMatch == Rec!PairsMatch
\* A screen is no better than the worst of its devices (screens.py:110).
ScreenIsPessimistic == Rea!ScreenIsPessimistic
\* A difference is reported where one is, and only there (coex.py:445).
DifferenceIsReal == Rea!DifferenceIsReal
\* A captured stream is put together byte by byte (capture.py:268).
ReassemblyIsExact == Rea!ReassemblyIsExact
-----------------------------------------------------------------------------
(* The claims of the sources that a run refutes, one each.                   *)

\* A member of a screen drives what it names and nothing else (state.py:468).
MembersKeepToTheirParts == Scr!MembersKeepToTheirParts
\* Decoding never stalls the session (proxy.py:85).
NeverStalled == Rec!NeverStalled
\* Where the HTTP API answers the register bus is not touched (devices.py:539).
BusIsForSilentBoxes == Con!BusIsForSilentBoxes
=============================================================================
