---------------------------- MODULE Application -----------------------------
(***************************************************************************)
(* novasun/app/state.py: class Application, its devices and its alert      *)
(* engine, under the background refresh thread and the threads of the HTTP *)
(* server (app/server.py), at the granularity of the locks and of the      *)
(* network calls made while they are held.                                 *)
(*                                                                         *)
(* Every device object has a lock; the application has one for its tables. *)
(* A method that holds the application lock and waits for nothing is one   *)
(* step.  Alerts and histories (module AlertEngine) have no lock.          *)
(***************************************************************************)
EXTENDS Device, Sequences, FiniteSets

CONSTANTS
    Address,
    RegisterBus,    \* addresses of devices on the register bus; the rest are COEX
    Busy,           \* addresses of COEX devices that may answer with an error
    Ports,          \* connection settings a device can have
    Saved,          \* the config file: a sequence of [address, ports]
    Handler,        \* HTTP server threads
    MaxRequest,     \* bound: HTTP requests ever made
    MaxOutage,      \* bound: times a device is away
    Thresholds, MissBound, None

\* POST /api/devices gives no ports, and neither does `serve` for its hosts.
HttpPorts == "default"

ASSUME ConfigAssumption ==
    /\ IsFiniteSet(Address)
    /\ RegisterBus \subseteq Address
    /\ Busy \subseteq Address \ RegisterBus
    /\ HttpPorts \in Ports
    /\ Saved \in Seq([address : Address, ports : Ports])
    /\ \A i, j \in DOMAIN Saved : i # j => Saved[i].address # Saved[j].address
    /\ MaxRequest \in Nat /\ MaxOutage \in Nat
    /\ None \notin Address \cup Handler \cup {"loop"} /\ "loop" \notin Handler

\* What AlertEngine assumes of its constants.
ASSUME EngineAssumption ==
    /\ None \notin Int
    /\ MissBound \in Nat
    /\ {Thresholds.clear, Thresholds.warning, Thresholds.critical} \subseteq Int
    /\ Thresholds.offline_ticks \in 1..MissBound
    /\ {Thresholds.temperature_alerts, Thresholds.cabinet_loss_alerts} \subseteq BOOLEAN

VARIABLES
    devices,    \* Application.devices: objects in insertion order
    dev,        \* object -> the state of the device object
    created,    \* device objects created so far: 1..created
    lock,       \* object -> the thread holding Device._lock, or None
    appLock,    \* the thread holding Application._lock across steps, or None
    thread,     \* thread -> where it is in which operation
    up,         \* address -> would the device accept a connection?
    requests, outages,      \* counters for the bounds
    thresholds, histories, alerts, events, pivot

engineVars == <<thresholds, histories, alerts, events, pivot>>
tableVars == <<devices, created, appLock>>
worldVars == <<up, requests, outages>>
vars == <<tableVars, dev, lock, thread, worldVars, engineVars>>

Engine == INSTANCE AlertEngine WITH
    Temperature <- {}, CabinetCount <- {}, Tunable <- {}, Configured <- {Thresholds}

Loop == "loop"
Thread == Handler \cup {Loop}

\* Bound: device objects ever created.  A request creates one at most, so the
\* guards that keep to it (in AddNew and Swap) never hold anything up.
MaxObject == Len(Saved) + MaxRequest
Object == 1..MaxObject

\* work: the objects still to refresh or to evaluate; seen: the reachability
\* to_dict copied from a device, not yet observed by the engine.
Idle == [pc |-> "idle", op |-> "none", address |-> None, object |-> 0,
         work |-> <<>>, seen |-> "unknown"]

Listed(o) == \E i \in DOMAIN devices : devices[i] = o
ObjectsAt(a) == {o \in Object : Listed(o) /\ dev[o].address = a}
AddressOf(o) == dev[o].address
OnRegisterBus(o) == AddressOf(o) \in RegisterBus

\* Would a request made through the session of o be answered?
Answers(o) == IF OnRegisterBus(o) THEN dev[o].session = "live" ELSE up[AddressOf(o)]

\* May it end in an OSError?  An HTTP status other than 200 is one too.
Fails(o) == ~Answers(o) \/ AddressOf(o) \in Busy

At(t, pc) == thread[t].pc = pc
Goto(t, pc) == thread' = [thread EXCEPT ![t].pc = pc]

-----------------------------------------------------------------------------
(* Requests, as the server's threads take them from a client *)

Accept(t, op, a) ==
    /\ At(t, "idle") /\ t \in Handler
    /\ requests < MaxRequest
    /\ requests' = requests + 1
    /\ thread' = [thread EXCEPT ![t] = [Idle EXCEPT !.pc = op, !.op = op, !.address = a]]
    /\ UNCHANGED <<tableVars, dev, lock, up, outages, engineVars>>

-----------------------------------------------------------------------------
(* Application.refresh_all and Device.refresh *)

RefreshAll(t) ==
    /\ thread' = [thread EXCEPT ![t].pc = "refresh", ![t].op = "refresh_all", ![t].work = devices]
    /\ UNCHANGED <<tableVars, dev, lock, worldVars, engineVars>>

RefreshOnRequest(t) == At(t, "refresh_all") /\ RefreshAll(t)

\* self._loop: the wait is over.
LoopTick == At(Loop, "idle") /\ RefreshAll(Loop)

\* Leaves a device alone that is shown online.
Due_trusting(t, o) ==
    thread[t].op = "add" \/ (dev[o].reachability # "online" /\ DueForRetry(dev[o]))

\* Leaves a device alone that went down.
Due_given_up(t, o) == thread[t].op = "add" \/ dev[o].reachability = "online"

\* force is given by add only.
Due(t, o) ==
    thread[t].op = "add" \/ dev[o].reachability = "online" \/ DueForRetry(dev[o])

\* The object t is refreshing, commanding or evaluating.
Current(t) == IF thread[t].op = "execute" THEN thread[t].object ELSE Head(thread[t].work)

SkipRefresh(t) ==
    /\ At(t, "refresh") /\ thread[t].work # <<>>
    /\ lock[Current(t)] = None
    /\ ~Due(t, Current(t))
    /\ thread' = [thread EXCEPT ![t].work = Tail(@)]
    /\ UNCHANGED <<tableVars, dev, lock, worldVars, engineVars>>

\* refresh up to its first network call.
BeginRefresh(t) ==
    /\ At(t, "refresh") /\ thread[t].work # <<>>
    /\ LET o == Current(t)
       IN  /\ lock[o] = None
           /\ Due(t, o)
           /\ lock' = [lock EXCEPT ![o] = t]
           /\ IF dev[o].session = "none"
              THEN Goto(t, "connect") /\ UNCHANGED dev
              ELSE Goto(t, "read") /\ dev' = [dev EXCEPT ![o] = Reading(@)]
    /\ UNCHANGED <<tableVars, worldVars, engineVars>>

\* Goes on to write the action log with the device still locked.
Return_locked(t) ==
    IF thread[t].op = "execute" THEN Goto(t, "record") /\ UNCHANGED lock
    ELSE /\ lock' = [lock EXCEPT ![Current(t)] = None]
         /\ thread' = [thread EXCEPT ![t].pc = "refresh", ![t].work = Tail(@)]

\* A device method returns: `with self._lock` ends.
Return(t) ==
    /\ lock' = [lock EXCEPT ![Current(t)] = None]
    /\ IF thread[t].op = "execute" THEN Goto(t, "record")
       ELSE thread' = [thread EXCEPT ![t].pc = "refresh", ![t].work = Tail(@)]

\* The lock is not let go of on the way out.
Escape_holding(t) ==
    /\ thread' = [thread EXCEPT ![t] =
         IF t = Loop THEN [Idle EXCEPT !.pc = "dead"] ELSE Idle]
    /\ UNCHANGED lock

\* An exception nobody catches: the refresh thread ends, a request is dropped.
Escape(t) ==
    /\ lock' = [lock EXCEPT ![Current(t)] = None]
    /\ thread' = [thread EXCEPT ![t] =
         IF t = Loop THEN [Idle EXCEPT !.pc = "dead"] ELSE Idle]

\* Device._connect: a busy COEX device does not count as having answered.
ConnectOpens(t) ==
    /\ At(t, "connect")
    /\ LET o == Current(t)
       IN  /\ up[AddressOf(o)]
           /\ IF thread[t].op = "execute"
              THEN Goto(t, "dispatch") /\ dev' = [dev EXCEPT ![o] = Connected(@)]
              ELSE Goto(t, "read") /\ dev' = [dev EXCEPT ![o] = Reading(Connected(@))]
    /\ UNCHANGED <<tableVars, lock, worldVars, engineVars>>

ConnectFails(t) ==
    /\ At(t, "connect")
    /\ LET o == Current(t)
       IN  /\ ~up[AddressOf(o)] \/ AddressOf(o) \in Busy
           /\ \E reason \in Down : dev' = [dev EXCEPT ![o] = MarkDown(@, reason)]
    /\ Return(t)
    /\ UNCHANGED <<tableVars, worldVars, engineVars>>

\* _read_into_state came to its end.  On the register bus it always does:
\* the inputs come from the profile and _read_status swallows the failure.
ReadDone(t) ==
    /\ At(t, "read")
    /\ Answers(Current(t)) \/ OnRegisterBus(Current(t))
    /\ Return(t)
    /\ UNCHANGED <<tableVars, dev, worldVars, engineVars>>

\* Asking a COEX device for its inputs failed: refresh marks it down,
\* execute ignores it.
ReadFails(t) ==
    /\ At(t, "read")
    /\ Fails(Current(t)) /\ ~OnRegisterBus(Current(t))
    /\ IF thread[t].op = "execute" THEN UNCHANGED dev
       ELSE dev' = [dev EXCEPT ![Current(t)] = MarkDown(@, "unreachable")]
    /\ Return(t)
    /\ UNCHANGED <<tableVars, worldVars, engineVars>>

\* An error code in the answer is a CoexError, which is none of the exceptions
\* refresh and execute catch.
ReadRefused(t) ==
    /\ At(t, "read")
    /\ AddressOf(Current(t)) \in Busy
    /\ Answers(Current(t))
    /\ Escape(t)
    /\ UNCHANGED <<tableVars, dev, worldVars, engineVars>>

-----------------------------------------------------------------------------
(* Application.evaluate, and the single observe of add *)

\* The list of devices is copied once; without devices there is nothing to do.
Evaluate(t) ==
    /\ At(t, "refresh") /\ thread[t].work = <<>> /\ thread[t].op = "refresh_all"
    /\ IF devices = <<>> THEN thread' = [thread EXCEPT ![t] = Idle]
       ELSE thread' = [thread EXCEPT ![t].pc = "evaluate", ![t].work = devices]
    /\ UNCHANGED <<tableVars, dev, lock, worldVars, engineVars>>

\* device.state.to_dict(), under no lock: it may fall inside a refresh.
CopyState(t) ==
    /\ At(t, "evaluate")
    /\ thread' = [thread EXCEPT ![t].pc = "observe",
                                ![t].seen = dev[Current(t)].reachability]
    /\ UNCHANGED <<tableVars, dev, lock, worldVars, engineVars>>

CopyAdded(t) ==
    /\ At(t, "refresh") /\ thread[t].work = <<>> /\ thread[t].op = "add"
    /\ LET o == thread[t].object
       IN  thread' = [thread EXCEPT ![t].pc = "observe", ![t].work = <<o>>,
                                    ![t].seen = dev[o].reachability]
    /\ UNCHANGED <<tableVars, dev, lock, worldVars, engineVars>>

\* The last observation ends refresh_all; add goes on to save.
Observe(t) ==
    /\ At(t, "observe")
    /\ Engine!Observe(AddressOf(Current(t)),
         [reachability |-> thread[t].seen, temperature_c |-> None, cabinets |-> None])
    /\ IF thread[t].op = "add"
       THEN thread' = [thread EXCEPT ![t].pc = "save", ![t].work = <<>>, ![t].seen = "unknown"]
       ELSE IF Len(thread[t].work) = 1 THEN thread' = [thread EXCEPT ![t] = Idle]
       ELSE thread' = [thread EXCEPT ![t].pc = "evaluate", ![t].work = Tail(@), ![t].seen = "unknown"]
    /\ UNCHANGED <<tableVars, dev, lock, worldVars>>

-----------------------------------------------------------------------------
(* Application.add *)

StartForced(t, o) ==
    thread' = [thread EXCEPT ![t].pc = "refresh", ![t].object = o, ![t].work = <<o>>]

AddExisting(t) ==
    /\ At(t, "add") /\ appLock = None
    /\ \E o \in ObjectsAt(thread[t].address) :
        /\ dev[o].ports = HttpPorts
        /\ StartForced(t, o)
    /\ UNCHANGED <<tableVars, dev, lock, worldVars, engineVars>>

AddNew(t) ==
    /\ At(t, "add") /\ appLock = None
    /\ ObjectsAt(thread[t].address) = {}
    /\ LET o == created + 1
       IN  /\ o \in Object
           /\ created' = o
           /\ dev' = [dev EXCEPT ![o] = NewDevice(thread[t].address, HttpPorts)]
           /\ devices' = Append(devices, o)
           /\ StartForced(t, o)
    /\ UNCHANGED <<appLock, lock, worldVars, engineVars>>

\* Other ports: the old object is closed first, the application lock held.
AddReplacing(t) ==
    /\ At(t, "add") /\ appLock = None
    /\ \E o \in ObjectsAt(thread[t].address) :
        /\ dev[o].ports # HttpPorts
        /\ thread' = [thread EXCEPT ![t].pc = "replace", ![t].object = o]
    /\ appLock' = t
    /\ UNCHANGED <<devices, created, dev, lock, worldVars, engineVars>>

CloseReplaced(t) ==
    /\ At(t, "replace")
    /\ lock[thread[t].object] = None
    /\ dev' = [dev EXCEPT ![thread[t].object] = Close(@)]
    /\ Goto(t, "swap")
    /\ UNCHANGED <<tableVars, lock, worldVars, engineVars>>

Swap(t) ==
    /\ At(t, "swap")
    /\ LET old == thread[t].object
           o == created + 1
       IN  /\ o \in Object
           /\ created' = o
           /\ dev' = [dev EXCEPT ![o] = NewDevice(AddressOf(old), HttpPorts)]
           /\ devices' = [i \in DOMAIN devices |-> IF devices[i] = old THEN o ELSE devices[i]]
           /\ StartForced(t, o)
    /\ appLock' = None
    /\ UNCHANGED <<lock, worldVars, engineVars>>

\* _autosave: to_config takes the application lock.  What it writes is not
\* part of this module.
Save(t) ==
    /\ At(t, "save") /\ appLock = None
    /\ thread' = [thread EXCEPT ![t] = Idle]
    /\ UNCHANGED <<tableVars, dev, lock, worldVars, engineVars>>

-----------------------------------------------------------------------------
(* Application.remove *)

RemoveUnknown(t) ==
    /\ At(t, "remove") /\ appLock = None
    /\ ObjectsAt(thread[t].address) = {}
    /\ thread' = [thread EXCEPT ![t] = Idle]
    /\ UNCHANGED <<tableVars, dev, lock, worldVars, engineVars>>

Remove(t) ==
    /\ At(t, "remove") /\ appLock = None
    /\ \E i \in DOMAIN devices :
        /\ AddressOf(devices[i]) = thread[t].address
        /\ devices' = SubSeq(devices, 1, i - 1) \o SubSeq(devices, i + 1, Len(devices))
        /\ thread' = [thread EXCEPT ![t].pc = "close", ![t].object = devices[i]]
    /\ UNCHANGED <<created, appLock, dev, lock, worldVars, engineVars>>

\* Closes under whoever is using the session.
CloseRemoved_unlocked(t) ==
    /\ At(t, "close")
    /\ dev' = [dev EXCEPT ![thread[t].object] = Close(@)]
    /\ Goto(t, "forget")
    /\ UNCHANGED <<tableVars, lock, worldVars, engineVars>>

CloseRemoved(t) ==
    /\ At(t, "close")
    /\ lock[thread[t].object] = None
    /\ dev' = [dev EXCEPT ![thread[t].object] = Close(@)]
    /\ Goto(t, "forget")
    /\ UNCHANGED <<tableVars, lock, worldVars, engineVars>>

Forget(t) ==
    /\ At(t, "forget")
    /\ Engine!Forget(thread[t].address)
    /\ Goto(t, "save")
    /\ UNCHANGED <<tableVars, dev, lock, worldVars>>

-----------------------------------------------------------------------------
(* Application.execute and Device.execute *)

ExecuteUnknown(t) ==
    /\ At(t, "execute")
    /\ ObjectsAt(thread[t].address) = {}
    /\ Goto(t, "record")
    /\ UNCHANGED <<tableVars, dev, lock, worldVars, engineVars>>

Execute(t) ==
    /\ At(t, "execute")
    /\ \E o \in ObjectsAt(thread[t].address) :
         thread' = [thread EXCEPT ![t].pc = "command", ![t].object = o]
    /\ UNCHANGED <<tableVars, dev, lock, worldVars, engineVars>>

Command(t) ==
    /\ At(t, "command")
    /\ lock[Current(t)] = None
    /\ lock' = [lock EXCEPT ![Current(t)] = t]
    /\ Goto(t, IF dev[Current(t)].session = "none" THEN "connect" ELSE "dispatch")
    /\ UNCHANGED <<tableVars, dev, worldVars, engineVars>>

\* _dispatch did it: the state is read again straight away.
DispatchDone(t) ==
    /\ At(t, "dispatch")
    /\ Answers(Current(t))
    /\ dev' = [dev EXCEPT ![Current(t)] = Reading(@)]
    /\ Goto(t, "read")
    /\ UNCHANGED <<tableVars, lock, worldVars, engineVars>>

\* The device or the library says no (NotSupported, ValueError, ProtocolError,
\* which a closed register-bus connection is too): recorded, nothing else.
DispatchRefused(t) ==
    /\ At(t, "dispatch")
    /\ Return(t)
    /\ UNCHANGED <<tableVars, dev, worldVars, engineVars>>

DispatchLost(t) ==
    /\ At(t, "dispatch")
    /\ Fails(Current(t))
    /\ dev' = [dev EXCEPT ![Current(t)] = MarkDown(@, "unreachable")]
    /\ Return(t)
    /\ UNCHANGED <<tableVars, worldVars, engineVars>>

\* A missing argument is a KeyError; a busy COEX device is a CoexError.
DispatchEscapes(t) ==
    /\ At(t, "dispatch")
    /\ Escape(t)
    /\ UNCHANGED <<tableVars, dev, worldVars, engineVars>>

\* The action log has the application lock.
Record(t) ==
    /\ At(t, "record") /\ appLock = None
    /\ thread' = [thread EXCEPT ![t] = Idle]
    /\ UNCHANGED <<tableVars, dev, lock, worldVars, engineVars>>

-----------------------------------------------------------------------------
(* The devices and the clock *)

\* The connection of a register-bus session dies with the device.
PowerOff(a) ==
    /\ up[a] /\ outages < MaxOutage
    /\ up' = [up EXCEPT ![a] = FALSE]
    /\ outages' = outages + 1
    /\ dev' = [o \in Object |->
         IF AddressOf(o) = a /\ a \in RegisterBus /\ dev[o].session = "live"
         THEN [dev[o] EXCEPT !.session = "dead"] ELSE dev[o]]
    /\ UNCHANGED <<tableVars, lock, thread, requests, engineVars>>

PowerOn(a) ==
    /\ ~up[a]
    /\ up' = [up EXCEPT ![a] = TRUE]
    /\ UNCHANGED <<tableVars, dev, lock, thread, requests, outages, engineVars>>

Tick ==
    /\ \E o \in Object : dev[o].retry_in > 0
    /\ dev' = [o \in Object |->
         IF dev[o].retry_in > 0 THEN [dev[o] EXCEPT !.retry_in = @ - 1] ELSE dev[o]]
    /\ UNCHANGED <<tableVars, lock, thread, worldVars, engineVars>>

-----------------------------------------------------------------------------
Blank == NewDevice(None, HttpPorts)

\* from_config: every saved device is refreshed, forced, before anything runs.
Restored(entry, reason) ==
    LET d == NewDevice(entry.address, entry.ports)
    IN  IF up[entry.address] THEN Reading(Connected(d)) ELSE MarkDown(d, reason)

Init ==
    /\ up \in [Address -> BOOLEAN]
    /\ \E reason \in [DOMAIN Saved -> Down] :
         dev = [o \in Object |->
                  IF o \in DOMAIN Saved THEN Restored(Saved[o], reason[o]) ELSE Blank]
    /\ devices = [o \in DOMAIN Saved |-> o]
    /\ created = Len(Saved)
    /\ lock = [o \in Object |-> None]
    /\ appLock = None
    /\ thread = [t \in Thread |-> Idle]
    /\ requests = 0
    /\ outages = Cardinality({a \in Address : ~up[a]}) /\ outages <= MaxOutage
    /\ Engine!Init

Refreshing(t) ==
    \/ RefreshOnRequest(t) \/ SkipRefresh(t) \/ BeginRefresh(t)
    \/ ConnectOpens(t) \/ ConnectFails(t) \/ ReadDone(t) \/ ReadFails(t) \/ ReadRefused(t)
    \/ Evaluate(t) \/ CopyState(t) \/ CopyAdded(t) \/ Observe(t)

Membership(t) ==
    \/ AddExisting(t) \/ AddNew(t) \/ AddReplacing(t) \/ CloseReplaced(t) \/ Swap(t)
    \/ RemoveUnknown(t) \/ Remove(t) \/ CloseRemoved(t) \/ Forget(t) \/ Save(t)

Commanding(t) ==
    \/ ExecuteUnknown(t) \/ Execute(t) \/ Command(t)
    \/ DispatchDone(t) \/ DispatchRefused(t) \/ DispatchLost(t) \/ DispatchEscapes(t)
    \/ Record(t)

\* A thread going on with what it has begun.
Step(t) == Refreshing(t) \/ Membership(t) \/ Commanding(t)

Request == {"refresh_all", "add", "remove", "execute"}

Next ==
    \/ \E t \in Thread : Step(t)
    \/ \E t \in Handler, op \in Request, a \in Address : Accept(t, op, a)
    \/ LoopTick
    \/ \E a \in Address : PowerOff(a) \/ PowerOn(a)
    \/ Tick

Spec == Init /\ [][Next]_vars

(***************************************************************************)
(* Every network call has a timeout, so a thread that can move does; the   *)
(* loop comes back after refresh_interval; the clock runs.  The refresh    *)
(* thread sleeps between its rounds and every holder lets go of a lock, so *)
(* a handler that finds one free again and again gets it in the end: that  *)
(* is the strong fairness.  Nobody owes the system a request, and no       *)
(* device owes it an outage or a return.                                   *)
(***************************************************************************)
Fairness ==
    /\ WF_vars(Step(Loop))
    /\ WF_vars(LoopTick)
    /\ WF_vars(Tick)
    /\ \A t \in Handler : SF_vars(Step(t))

FairSpec == Spec /\ Fairness

-----------------------------------------------------------------------------
(* Properties *)

PC == {"idle", "refresh_all", "refresh", "connect", "read", "dispatch", "evaluate",
       "observe", "add", "replace", "swap", "save", "remove", "close", "forget",
       "execute", "command", "record", "dead"}

DeviceState ==
    [address : Address \cup {None}, ports : Ports,
     session : Session, reachability : Reachability,
     backoff : FirstBackoff..MaxBackoff, retry_in : 0..MaxBackoff]

ThreadState ==
    [pc : PC, op : Request \cup {"none"}, address : Address \cup {None},
     object : Object \cup {0}, work : Seq(Object), seen : Reachability]

TablesOK ==
    /\ devices \in Seq(Object)
    /\ dev \in [Object -> DeviceState]
    /\ created \in Object \cup {0}
    /\ lock \in [Object -> Thread \cup {None}]
    /\ appLock \in Thread \cup {None}
    /\ thread \in [Thread -> ThreadState]
    /\ up \in [Address -> BOOLEAN]
    /\ requests \in 0..MaxRequest /\ outages \in 0..MaxOutage

TypeOK == TablesOK /\ Engine!TypeOK

(* A thread talks to a device only with its lock held and its session      *)
(* open: nobody closes a Processor under the thread using it, whatever is  *)
(* removed, replaced or marked down meanwhile.                             *)
NoUseAfterClose ==
    \A t \in Thread :
        thread[t].pc \in {"connect", "read", "dispatch"} =>
            /\ lock[Current(t)] = t
            /\ thread[t].pc # "connect" => dev[Current(t)].session # "none"

(* A device in the list that nobody is talking to is shown online only     *)
(* with a session to show for it, but for the moment between the close and *)
(* the swap of a replacement.                                              *)
OnlineMeansSession ==
    \A o \in Object :
        (/\ Listed(o) /\ lock[o] = None
         /\ ~\E t \in Thread : At(t, "swap") /\ thread[t].object = o)
        => (dev[o].reachability = "online" => dev[o].session # "none")

\* The threads whose lock t is waiting for.
WaitsFor(t) ==
    LET wanted(o) == {lock[o]} \ {None}
    IN  IF thread[t].pc = "refresh" /\ thread[t].work # <<>> THEN wanted(Current(t))
        ELSE IF thread[t].pc \in {"replace", "close", "command"} THEN wanted(thread[t].object)
        ELSE IF thread[t].pc \in {"add", "remove", "save", "record"} THEN {appLock} \ {None}
        ELSE {}

(* add closes a device while it holds the application lock, and every      *)
(* action ends by taking that lock: no set of threads may ever wait for    *)
(* one another, not even for a lock the waiting thread itself holds.       *)
NoWaitCycle ==
    ~\E group \in (SUBSET Thread) \ {{}} : \A t \in group : WaitsFor(t) \cap group # {}

(* Every request comes to its end, whatever the devices do.                *)
RequestsFinish ==
    \A t \in Handler : ~At(t, "idle") ~> At(t, "idle")

(* A listed device that has gone away for good is alerted on, and the      *)
(* alert stays: "survives a device going away and coming back".            *)
OutageIsAlerted ==
    \A a \in Address :
        <>[](ObjectsAt(a) # {} /\ ~up[a]) => <>[](alerts[<<a, "offline">>] # Engine!NoAlert)

(* A listed device that has come back for good is shown online and its     *)
(* offline alert goes away.                                                *)
ReturnIsShown ==
    \A a \in Address :
        <>[](ObjectsAt(a) # {} /\ up[a]) =>
            <>[](/\ \A o \in ObjectsAt(a) : dev[o].reachability = "online"
                 /\ alerts[<<a, "offline">>] = Engine!NoAlert)

(* Device.refresh: "Never raises; failures become state".                  *)
RefreshNeverRaises == ~At(Loop, "dead")

(* forget: "Drop a removed device's history and alerts": an alert stands   *)
(* only for a device in the list, or for one being removed or added.       *)
AlertsHaveDevices ==
    \A a \in Address :
        (/\ ObjectsAt(a) = {}
         /\ \A t \in Thread : At(t, "idle"))
        => alerts[<<a, "offline">>] = Engine!NoAlert
=============================================================================
