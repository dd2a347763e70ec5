----------------------- MODULE ApplicationLocks_proofs -----------------------
(* What the locks of Application guarantee: proofs of NoUseAfterClose,     *)
(* NoWaitCycle and OnlineMeansSession, on the shape that                   *)
(* Application_proofs establishes.                                         *)
EXTENDS Application_proofs

-----------------------------------------------------------------------------
(* Every step is of one of a few kinds, by what it does to device locks    *)

Talking(t) == thread[t].pc \in {"connect", "read", "dispatch"}

\* Shown online only with a session to show for it.
Honest(o) == dev[o].reachability = "online" => dev[o].session # "none"

\* And after the step.
HonestNext(o) == dev'[o].reachability = "online" => dev'[o].session # "none"

OnlyDevice(o) == \A q \in Made \ {o} : dev'[q] = dev[q]

StaysOut(t) == ~Talking(t) /\ ~Talking(t)'

Quiet(t) == StaysOut(t) /\ UNCHANGED <<dev, lock>>

Takes(t) ==
    /\ ~Talking(t) /\ Talking(t)'
    /\ Current(t) \in Made /\ Current(t)' = Current(t)
    /\ lock[Current(t)] = None /\ lock' = [lock EXCEPT ![Current(t)] = t]
    /\ OnlyDevice(Current(t))
    /\ thread'[t].pc # "connect" => dev'[Current(t)].session # "none"

Keeps(t) ==
    /\ Talking(t) /\ Talking(t)'
    /\ Current(t)' = Current(t)
    /\ UNCHANGED lock
    /\ OnlyDevice(Current(t)) /\ dev'[Current(t)].session # "none"

LetsGo(t) ==
    /\ Talking(t) /\ ~Talking(t)'
    /\ lock' = [lock EXCEPT ![Current(t)] = None]
    /\ OnlyDevice(Current(t)) /\ HonestNext(Current(t))

\* A device that nobody is talking to is closed.
Closes(t) ==
    LET o == thread[t].object
    IN  /\ StaysOut(t) /\ UNCHANGED lock
        /\ o \in Made /\ lock[o] = None /\ OnlyDevice(o)

Creates(t) ==
    LET o == created + 1
    IN  /\ StaysOut(t) /\ UNCHANGED lock
        /\ o \notin Made /\ OnlyDevice(o) /\ HonestNext(o)

Kinds(t) == Quiet(t) \/ Takes(t) \/ Keeps(t) \/ LetsGo(t) \/ Closes(t) \/ Creates(t)

\* All the other threads are where they were.
Alone(t) == \A u \in Thread \ {t} : thread'[u] = thread[u]

\* The steps of refresh_all, add, remove and execute that touch no device.
LEMMA QuietSteps ==
    ASSUME Shape, NEW t \in Thread,
           \/ RefreshOnRequest(t) \/ SkipRefresh(t)
           \/ Evaluate(t) \/ CopyState(t) \/ CopyAdded(t) \/ Observe(t)
           \/ AddExisting(t) \/ AddReplacing(t)
           \/ RemoveUnknown(t) \/ Remove(t) \/ Forget(t) \/ Save(t)
           \/ ExecuteUnknown(t) \/ Execute(t) \/ Record(t)
    PROVE  Quiet(t) /\ Alone(t)
<1>1. thread \in [Thread -> ThreadState] /\ Idle.pc = "idle"
  BY DEF Shape, TablesOK, Idle
<1>2. UNCHANGED <<dev, lock>>
  BY DEF RefreshOnRequest, RefreshAll, SkipRefresh, Evaluate, CopyState, CopyAdded, Observe,
     AddExisting, AddReplacing, RemoveUnknown, Remove, Forget, Save,
     ExecuteUnknown, Execute, Record
<1>3. CASE RefreshOnRequest(t) \/ SkipRefresh(t)
  BY <1>1, <1>2, <1>3 DEF RefreshOnRequest, RefreshAll, SkipRefresh, At, Quiet, StaysOut, Talking, Alone, ThreadState
<1>4. CASE Evaluate(t) \/ CopyState(t) \/ CopyAdded(t)
  BY <1>1, <1>2, <1>4 DEF Evaluate, CopyState, CopyAdded, At, Quiet, StaysOut, Talking, Alone, ThreadState
<1>5. CASE Observe(t)
  BY <1>1, <1>2, <1>5 DEF Observe, At, Quiet, StaysOut, Talking, Alone, ThreadState
<1>6. CASE AddExisting(t) \/ AddReplacing(t)
  BY <1>1, <1>2, <1>6 DEF AddExisting, StartForced, AddReplacing, At, Quiet, StaysOut, Talking, Alone, ThreadState
<1>7. CASE RemoveUnknown(t) \/ Remove(t) \/ Forget(t) \/ Save(t)
  BY <1>1, <1>2, <1>7 DEF RemoveUnknown, Remove, Forget, Save, Goto, At, Quiet, StaysOut, Talking, Alone, ThreadState
<1>8. CASE ExecuteUnknown(t) \/ Execute(t) \/ Record(t)
  BY <1>1, <1>2, <1>8 DEF ExecuteUnknown, Execute, Record, Goto, At, Quiet, StaysOut, Talking, Alone, ThreadState
<1> QED
  BY <1>3, <1>4, <1>5, <1>6, <1>7, <1>8

\* A thread that only moves on keeps what it has in hand.
LEMMA GoesTo ==
    ASSUME Shape, NEW t \in Thread, NEW pc \in PC, Goto(t, pc)
    PROVE  /\ thread'[t].pc = pc /\ Current(t)' = Current(t)
           /\ thread'[t].object = thread[t].object /\ Alone(t)
<1>1. thread \in [Thread -> ThreadState]
  BY DEF Shape, TablesOK
<1>2. /\ thread'[t].pc = pc /\ thread'[t].op = thread[t].op
      /\ thread'[t].object = thread[t].object /\ thread'[t].work = thread[t].work
  BY <1>1 DEF Goto, ThreadState
<1>3. Alone(t)
  BY <1>1 DEF Goto, Alone
<1> QED
  BY <1>2, <1>3 DEF Current

\* What the device methods show, and what session they leave.
LEMMA Showing ==
    ASSUME NEW d \in DeviceState, NEW reason \in Down
    PROVE  /\ MarkDown(d, reason).reachability # "online"
           /\ Close(d).session = "none"
           /\ Connected(d).session = "live"
           /\ Reading(d).session = d.session
BY DEF DeviceState, MarkDown, Close, Connected, Reading, Down

\* A device method returns or is left by an exception.
LEMMA Leaving ==
    ASSUME Shape, NEW t \in Thread, Talking(t), Return(t) \/ Escape(t),
           \/ UNCHANGED dev /\ dev[Current(t)].session # "none"
           \/ \E reason \in Down : dev' = [dev EXCEPT ![Current(t)] = MarkDown(@, reason)]
    PROVE  LetsGo(t) /\ Alone(t)
<1> DEFINE o == Current(t)
<1>1. thread \in [Thread -> ThreadState] /\ dev \in [Object -> DeviceState] /\ Made \subseteq Object
  BY MadeObjects DEF Shape, TablesOK
<1>2. o \in Made /\ o \in Object
  BY CurrentIsMade DEF Talking
<1>3. lock' = [lock EXCEPT ![o] = None]
  BY DEF Return, Escape
<1>4. ~Talking(t)' /\ Alone(t)
  <2>1. CASE Return(t)
    BY <1>1, <2>1 DEF Return, Goto, Talking, Alone, ThreadState
  <2>2. CASE Escape(t)
    BY <1>1, <2>2 DEF Escape, Idle, Talking, Alone
  <2> QED
    BY <2>1, <2>2
<1>5. OnlyDevice(o) /\ Current(t) = o
  BY <1>1, <1>2 DEF OnlyDevice
<1>6. dev'[o].reachability = "online" => dev'[o].session # "none"
  <2>1. CASE UNCHANGED dev /\ dev[o].session # "none"
    BY <2>1
  <2>2. CASE \E reason \in Down : dev' = [dev EXCEPT ![o] = MarkDown(@, reason)]
    BY <1>1, <1>2, <2>2, Showing
  <2> QED
    BY <2>1, <2>2
<1>7. HonestNext(o)
  BY <1>6 DEF HonestNext
<1> QED
  BY <1>3, <1>4, <1>5, <1>7 DEF LetsGo

\* The steps of Device.refresh and Device.execute take, keep or let go a lock.
LEMMA TalkingSteps ==
    ASSUME Shape, NoUseAfterClose, NEW t \in Thread,
           \/ BeginRefresh(t) \/ ConnectOpens(t) \/ ConnectFails(t)
           \/ ReadDone(t) \/ ReadFails(t) \/ ReadRefused(t)
           \/ Command(t) \/ DispatchDone(t) \/ DispatchRefused(t) \/ DispatchLost(t) \/ DispatchEscapes(t)
    PROVE  (Takes(t) \/ Keeps(t) \/ LetsGo(t)) /\ Alone(t)
<1> DEFINE o == Current(t)
<1>1. thread \in [Thread -> ThreadState] /\ dev \in [Object -> DeviceState] /\ Made \subseteq Object
  BY MadeObjects DEF Shape, TablesOK
<1>2. o \in Made /\ o \in Object /\ dev[o] \in DeviceState
  BY <1>1, CurrentIsMade
     DEF BeginRefresh, ConnectOpens, ConnectFails, ReadDone, ReadFails, ReadRefused,
         Command, DispatchDone, DispatchRefused, DispatchLost, DispatchEscapes, At
<1>3. {"connect", "read", "dispatch", "record", "refresh"} \subseteq PC
  BY DEF PC
<1>4. thread[t].pc \in {"read", "dispatch"} => dev[o].session # "none"
  BY DEF NoUseAfterClose
<1>5. CASE BeginRefresh(t)
  <2>1. ~Talking(t) /\ lock[o] = None /\ lock' = [lock EXCEPT ![o] = t]
    BY <1>5 DEF BeginRefresh, At, Talking
  <2>2. CASE Goto(t, "connect") /\ UNCHANGED dev
    BY <1>2, <1>3, <2>1, <2>2, GoesTo DEF Takes, Talking, OnlyDevice
  <2>3. CASE dev[o].session # "none" /\ Goto(t, "read") /\ dev' = [dev EXCEPT ![o] = Reading(@)]
    <3>1. dev'[o].session # "none"
      BY <1>1, <1>2, <2>3, Showing DEF Down
    <3>2. OnlyDevice(o)
      BY <1>1, <2>3 DEF OnlyDevice
    <3> QED
      BY <1>2, <1>3, <2>1, <2>3, <3>1, <3>2, GoesTo DEF Takes, Talking
  <2> QED
    BY <1>5, <2>2, <2>3 DEF BeginRefresh
<1>6. CASE ConnectOpens(t)
  <2>1. Talking(t) /\ UNCHANGED lock
    BY <1>6 DEF ConnectOpens, At, Talking
  <2>2. Talking(t)' /\ Current(t)' = o /\ Alone(t)
    BY <1>3, <1>6, GoesTo DEF ConnectOpens, Talking
  <2>3. /\ Connected(dev[o]).session = "live" /\ Connected(dev[o]) \in DeviceState
        /\ Reading(Connected(dev[o])).session = "live"
    BY <1>2, Showing, DeviceMethods DEF Down
  <2>4. dev'[o].session # "none" /\ OnlyDevice(o)
    BY <1>1, <1>2, <1>6, <2>3 DEF ConnectOpens, OnlyDevice
  <2> QED
    BY <2>1, <2>2, <2>4 DEF Keeps
<1>7. CASE ConnectFails(t)
  BY <1>7, Leaving DEF ConnectFails, At, Talking
<1>8. CASE ReadDone(t)
  BY <1>4, <1>8, Leaving DEF ReadDone, At, Talking
<1>9. CASE ReadFails(t)
  BY <1>4, <1>9, Leaving DEF ReadFails, At, Talking, Down
<1>10. CASE ReadRefused(t)
  BY <1>4, <1>10, Leaving DEF ReadRefused, At, Talking
<1>11. CASE Command(t)
  <2>1. ~Talking(t) /\ lock[o] = None /\ lock' = [lock EXCEPT ![o] = t] /\ UNCHANGED dev
    BY <1>11 DEF Command, At, Talking
  <2>2. CASE dev[o].session = "none" /\ Goto(t, "connect")
    BY <1>2, <1>3, <2>1, <2>2, GoesTo DEF Takes, Talking, OnlyDevice
  <2>3. CASE dev[o].session # "none" /\ Goto(t, "dispatch")
    BY <1>2, <1>3, <2>1, <2>3, GoesTo DEF Takes, Talking, OnlyDevice
  <2> QED
    BY <1>11, <2>2, <2>3 DEF Command
<1>12. CASE DispatchDone(t)
  <2>1. Talking(t) /\ UNCHANGED lock /\ dev[o].session # "none"
    BY <1>4, <1>12 DEF DispatchDone, At, Talking
  <2>2. Talking(t)' /\ Current(t)' = o /\ Alone(t)
    BY <1>3, <1>12, GoesTo DEF DispatchDone, Talking
  <2>3. dev'[o].session # "none" /\ OnlyDevice(o)
    BY <1>1, <1>2, <1>12, <2>1, Showing DEF DispatchDone, OnlyDevice, Down
  <2> QED
    BY <2>1, <2>2, <2>3 DEF Keeps
<1>13. CASE DispatchRefused(t) \/ DispatchEscapes(t)
  BY <1>4, <1>13, Leaving DEF DispatchRefused, DispatchEscapes, At, Talking
<1>14. CASE DispatchLost(t)
  BY <1>14, Leaving DEF DispatchLost, At, Talking, Down
<1> QED
  BY <1>5, <1>6, <1>7, <1>8, <1>9, <1>10, <1>11, <1>12, <1>13, <1>14

\* add and remove close a device with its lock free.
LEMMA ClosingSteps ==
    ASSUME Shape, NEW t \in Thread, CloseReplaced(t) \/ CloseRemoved(t)
    PROVE  Closes(t) /\ Alone(t) /\ dev'[thread[t].object].session = "none"
<1> DEFINE o == thread[t].object
<1>1. dev \in [Object -> DeviceState] /\ Made \subseteq Object
  BY MadeObjects DEF Shape, TablesOK
<1>2. o \in Made
  BY PlacedThread DEF CloseReplaced, CloseRemoved, At, PlaceOK
<1>3. \E pc \in {"swap", "forget"} : Goto(t, pc)
  BY DEF CloseReplaced, CloseRemoved
<1>4. StaysOut(t) /\ Alone(t)
  BY <1>3, GoesTo DEF CloseReplaced, CloseRemoved, At, StaysOut, Talking, PC
<1>5. UNCHANGED lock /\ lock[o] = None /\ dev' = [dev EXCEPT ![o] = Close(@)]
  BY DEF CloseReplaced, CloseRemoved
<1>6. OnlyDevice(o) /\ dev'[o].session = "none"
  BY <1>1, <1>2, <1>5, Showing DEF OnlyDevice, Down
<1> QED
  BY <1>2, <1>4, <1>5, <1>6 DEF Closes

\* add creates one.
LEMMA CreatingSteps ==
    ASSUME Shape, NEW t \in Thread, AddNew(t) \/ Swap(t)
    PROVE  Creates(t) /\ Alone(t)
<1> DEFINE o == created + 1
<1>1. /\ thread \in [Thread -> ThreadState] /\ dev \in [Object -> DeviceState]
      /\ created \in Nat /\ o \in Object
  BY ObjectNumbers DEF AddNew, Swap, Shape, TablesOK
<1>2. o \notin Made
  BY <1>1 DEF Made
<1>3. StaysOut(t) /\ Alone(t)
  BY <1>1 DEF AddNew, Swap, StartForced, At, StaysOut, Talking, Alone, ThreadState
<1>4. \E a : dev' = [dev EXCEPT ![o] = NewDevice(a, HttpPorts)]
  BY DEF AddNew, Swap
<1>5. HonestNext(o) /\ OnlyDevice(o)
  BY <1>1, <1>2, <1>4 DEF HonestNext, OnlyDevice, NewDevice
<1> QED
  BY <1>2, <1>3, <1>5 DEF Creates, AddNew, Swap

\* The refresh thread starts a round.
LEMMA LoopIsQuiet ==
    ASSUME Shape, LoopTick
    PROVE  Quiet(Loop) /\ Alone(Loop)
BY DEF LoopTick, RefreshAll, At, Quiet, StaysOut, Talking, Alone, Thread, Shape, TablesOK, ThreadState

\* So every step of a thread is of one of the kinds.
LEMMA StepKinds ==
    ASSUME Shape, NoUseAfterClose, NEW t \in Thread, Step(t) \/ (LoopTick /\ t = Loop)
    PROVE  Kinds(t) /\ Alone(t)
<1>1. CASE LoopTick /\ t = Loop
  BY <1>1, LoopIsQuiet DEF Kinds
<1>2. CASE Refreshing(t)
  BY <1>2, QuietSteps, TalkingSteps DEF Refreshing, Kinds
<1>3. CASE Membership(t)
  BY <1>3, QuietSteps, ClosingSteps, CreatingSteps DEF Membership, Kinds
<1>4. CASE Commanding(t)
  BY <1>4, QuietSteps, TalkingSteps DEF Commanding, Kinds
<1> QED
  BY <1>1, <1>2, <1>3, <1>4 DEF Step

\* Outages and the clock leave threads and locks alone, and no session opens
\* or is dropped in them.
LEMMA WorldSteps ==
    ASSUME Shape, (\E a \in Address : PowerOff(a) \/ PowerOn(a)) \/ Tick
    PROVE  /\ UNCHANGED <<tableVars, lock, thread>>
           /\ \A o \in Object : /\ dev'[o].reachability = dev[o].reachability
                                /\ dev'[o].address = dev[o].address
                                /\ dev'[o].session = "none" <=> dev[o].session = "none"
<1>1. dev \in [Object -> DeviceState]
  BY DEF Shape, TablesOK
<1>2. ASSUME NEW a \in Address, PowerOff(a)
      PROVE  \A o \in Object : /\ dev'[o].reachability = dev[o].reachability
                               /\ dev'[o].address = dev[o].address
                               /\ dev'[o].session = "none" <=> dev[o].session = "none"
  BY <1>1, <1>2 DEF PowerOff, DeviceState
<1>3. CASE Tick
  BY <1>1, <1>3 DEF Tick, DeviceState
<1>4. UNCHANGED <<tableVars, lock, thread>>
  BY DEF PowerOff, PowerOn, Tick
<1> QED
  BY <1>2, <1>3, <1>4 DEF PowerOn

\* A request that comes in touches no device.
LEMMA AcceptSteps ==
    ASSUME Shape, NEW t \in Handler, NEW op \in Request, NEW a \in Address, Accept(t, op, a)
    PROVE  Quiet(t) /\ Alone(t) /\ t \in Thread
BY DEF Accept, At, Quiet, StaysOut, Talking, Alone, Idle, Request, Thread, Shape, TablesOK

\* What is held by whom, taken apart for one thread.
LEMMA HeldOne ==
    ASSUME Shape, NoUseAfterClose, NEW t \in Thread, Talking(t)
    PROVE  /\ Current(t) \in Made /\ Current(t) \in Object
           /\ lock[Current(t)] = t /\ t # None
           /\ thread[t].pc # "connect" => dev[Current(t)].session # "none"
BY CurrentIsMade, ConfigAssumption DEF NoUseAfterClose, Talking, Thread, Loop

-----------------------------------------------------------------------------
(* NoUseAfterClose is inductive: a lock is taken only when it is free, and *)
(* every method that closes a session has the lock of the device.          *)

\* For a step of a thread, by its kind.
LEMMA UseStep ==
    ASSUME Shape, Shape', NoUseAfterClose, NEW t \in Thread, Kinds(t), Alone(t)
    PROVE  NoUseAfterClose'
<1> SUFFICES ASSUME NEW u \in Thread, Talking(u)'
             PROVE  /\ lock'[Current(u)'] = u
                    /\ thread'[u].pc # "connect" => dev'[Current(u)'].session # "none"
  BY DEF NoUseAfterClose, Talking
<1>1. lock \in [Object -> Thread \cup {None}] /\ Made \subseteq Object
  BY MadeObjects DEF Shape, TablesOK
<1>2. CASE u = t
  <2>1. CASE Takes(t)
    BY <1>1, <1>2, <2>1 DEF Takes
  <2>2. CASE Keeps(t)
    BY <1>2, <2>2, HeldOne DEF Keeps
  <2> QED
    BY <1>2, <2>1, <2>2 DEF Kinds, Quiet, LetsGo, Closes, Creates, StaysOut
<1>3. CASE u # t
  <2> DEFINE q == Current(u)
  <2>1. thread'[u] = thread[u]
    BY <1>3 DEF Alone
  <2>2. Talking(u) /\ Current(u)' = q
    BY <2>1 DEF Talking, Current
  <2>3. /\ q \in Made /\ q \in Object /\ lock[q] = u /\ u # None
        /\ thread[u].pc # "connect" => dev[q].session # "none"
    BY <2>2, HeldOne
  <2>4. lock'[q] = u /\ dev'[q] = dev[q]
    <3>1. CASE Quiet(t) \/ Closes(t) \/ Creates(t)
      BY <2>3, <3>1 DEF Quiet, Closes, Creates, OnlyDevice
    <3>2. CASE Takes(t)
      BY <1>1, <1>3, <2>3, <3>2 DEF Takes, OnlyDevice
    <3>3. CASE Keeps(t) \/ LetsGo(t)
      <4>1. lock[Current(t)] = t /\ Current(t) # q
        BY <1>3, <2>3, <3>3, HeldOne DEF Keeps, LetsGo
      <4> QED
        BY <1>1, <2>3, <3>3, <4>1 DEF Keeps, LetsGo, OnlyDevice
    <3> QED
      BY <3>1, <3>2, <3>3 DEF Kinds
  <2> QED
    BY <2>1, <2>2, <2>3, <2>4
<1> QED
  BY <1>2, <1>3

\* And for every step of the system.
LEMMA UseNext ==
    ASSUME Shape, Shape', NoUseAfterClose, [Next]_vars
    PROVE  NoUseAfterClose'
<1>1. CASE \E t \in Thread : Step(t)
  <2>1. PICK t \in Thread : Step(t)
    BY <1>1
  <2>2. Kinds(t) /\ Alone(t)
    BY <2>1, StepKinds
  <2> QED
    BY <2>2, UseStep
<1>2. CASE LoopTick
  BY <1>2, StepKinds, UseStep DEF Thread
<1>3. CASE \E t \in Handler, op \in Request, a \in Address : Accept(t, op, a)
  BY <1>3, AcceptSteps, UseStep DEF Kinds
<1>4. CASE (\E a \in Address : PowerOff(a) \/ PowerOn(a)) \/ Tick
  <2> SUFFICES ASSUME NEW u \in Thread, Talking(u)'
               PROVE  /\ lock'[Current(u)'] = u
                      /\ thread'[u].pc # "connect" => dev'[Current(u)'].session # "none"
    BY DEF NoUseAfterClose, Talking
  <2>1. UNCHANGED <<lock, thread>>
    BY <1>4, WorldSteps
  <2>2. Talking(u) /\ Current(u)' = Current(u)
    BY <2>1 DEF Talking, Current
  <2> QED
    BY <1>4, <2>1, <2>2, HeldOne, WorldSteps
<1>5. CASE UNCHANGED vars
  BY <1>5 DEF vars, tableVars, NoUseAfterClose, Current
<1> QED
  BY <1>1, <1>2, <1>3, <1>4, <1>5 DEF Next

(* Whatever is removed, replaced or marked down, no session is closed      *)
(* under the thread that is using it: Device._lock does its work.          *)
THEOREM SessionsAreHeld == Spec => []NoUseAfterClose
<1>1. Init => NoUseAfterClose
  BY DEF Init, NoUseAfterClose, Idle
<1> QED
  BY <1>1, UseNext, ShapeHolds, PTL DEF Spec

-----------------------------------------------------------------------------
(* NoWaitCycle rests on who has the locks: the holder of a device lock is  *)
(* talking to that device and so waits for no lock; the holder of the      *)
(* application lock is replacing a device and waits for a device lock at   *)
(* most.                                                                   *)

Holders ==
    \A o \in Object : lock[o] # None => Talking(lock[o]) /\ Current(lock[o]) = o

AppHolder == appLock # None => thread[appLock].pc \in {"replace", "swap"}

\* Holders, by the kind of the step.
LEMMA HoldersStep ==
    ASSUME Shape, NoUseAfterClose, Holders, NEW t \in Thread, Kinds(t), Alone(t)
    PROVE  Holders'
<1> SUFFICES ASSUME NEW o \in Object, lock'[o] # None
             PROVE  (Talking(lock[o]) /\ Current(lock[o]) = o)'
  BY DEF Holders, Object
<1>1. lock \in [Object -> Thread \cup {None}] /\ None \notin Thread
  BY ConfigAssumption DEF Shape, TablesOK, Thread, Loop
<1>2. ASSUME lock'[o] = lock[o], lock[o] # t
      PROVE  (Talking(lock[o]) /\ Current(lock[o]) = o)'
  <2> DEFINE u == lock[o]
  <2>1. u \in Thread /\ u # t /\ Talking(u) /\ Current(u) = o
    BY <1>1, <1>2 DEF Holders
  <2>2. thread'[u] = thread[u] /\ lock'[o] = u
    BY <1>2, <2>1 DEF Alone
  <2> QED
    BY <2>1, <2>2 DEF Talking, Current
<1>3. lock[o] = t => Talking(t) /\ Current(t) = o
  BY <1>1 DEF Holders
<1>4. CASE Quiet(t) \/ Closes(t) \/ Creates(t)
  BY <1>2, <1>3, <1>4 DEF Quiet, Closes, Creates, StaysOut
<1>5. CASE Takes(t)
  <2>1. CASE o = Current(t)
    <3>1. lock'[o] = t
      BY <1>1, <1>5, <2>1 DEF Takes
    <3> QED
      BY <1>5, <2>1, <3>1 DEF Takes, Talking, Current
  <2>2. CASE o # Current(t)
    BY <1>1, <1>2, <1>3, <1>5, <2>2 DEF Takes
  <2> QED
    BY <2>1, <2>2
<1>6. CASE Keeps(t)
  <2>1. CASE lock[o] = t
    <3>1. lock'[o] = t /\ o = Current(t)
      BY <1>3, <1>6, <2>1 DEF Keeps
    <3> QED
      BY <1>6, <3>1 DEF Keeps, Talking, Current
  <2>2. CASE lock[o] # t
    BY <1>2, <1>6, <2>2 DEF Keeps
  <2> QED
    BY <2>1, <2>2
<1>7. CASE LetsGo(t)
  <2>1. o # Current(t)
    BY <1>1, <1>7 DEF LetsGo
  <2> QED
    BY <1>1, <1>2, <1>3, <1>7, <2>1 DEF LetsGo
<1> QED
  BY <1>4, <1>5, <1>6, <1>7 DEF Kinds

\* The application lock is taken on the way to "replace" and let go in "swap".
LEMMA AppHolderStep ==
    ASSUME Shape, AppHolder, NEW t \in Thread, Step(t) \/ (LoopTick /\ t = Loop), Alone(t)
    PROVE  AppHolder'
<1>1. thread \in [Thread -> ThreadState] /\ appLock \in Thread \cup {None}
  BY DEF Shape, TablesOK
<1>2. CASE AddReplacing(t)
  BY <1>1, <1>2 DEF AddReplacing, AppHolder, ThreadState
<1>3. CASE Swap(t)
  BY <1>3 DEF Swap, AppHolder
<1>4. CASE CloseReplaced(t)
  BY <1>1, <1>4 DEF CloseReplaced, Goto, tableVars, AppHolder, Alone, ThreadState
<1>5. CASE thread[t].pc \notin {"replace", "swap"} /\ UNCHANGED appLock
  BY <1>1, <1>5 DEF AppHolder, Alone
<1>6. ASSUME ~AddReplacing(t), ~Swap(t), ~CloseReplaced(t)
      PROVE  thread[t].pc \notin {"replace", "swap"} /\ UNCHANGED appLock
  <2>1. CASE Refreshing(t) \/ (LoopTick /\ t = Loop)
    BY <2>1 DEF LoopTick, Refreshing, RefreshOnRequest, RefreshAll, SkipRefresh, BeginRefresh,
       ConnectOpens, ConnectFails, ReadDone, ReadFails, ReadRefused,
       Evaluate, CopyState, CopyAdded, Observe, At, tableVars
  <2>2. CASE Membership(t)
    BY <1>6, <2>2 DEF Membership, AddExisting, AddNew, RemoveUnknown, Remove, CloseRemoved, Forget, Save, At, tableVars
  <2>3. CASE Commanding(t)
    BY <2>3 DEF Commanding, ExecuteUnknown, Execute, Command, DispatchDone, DispatchRefused,
       DispatchLost, DispatchEscapes, Record, At, tableVars
  <2> QED
    BY <2>1, <2>2, <2>3 DEF Step
<1> QED
  BY <1>2, <1>3, <1>4, <1>5, <1>6

\* Both, for every step of the system.
LEMMA HoldersNext ==
    ASSUME Shape, NoUseAfterClose, Holders, AppHolder, [Next]_vars
    PROVE  Holders' /\ AppHolder'
<1>1. CASE \E t \in Thread : Step(t)
  <2>1. PICK t \in Thread : Step(t)
    BY <1>1
  <2>2. Kinds(t) /\ Alone(t)
    BY <2>1, StepKinds
  <2> QED
    BY <2>1, <2>2, HoldersStep, AppHolderStep
<1>2. CASE LoopTick
  <2>1. Loop \in Thread /\ Kinds(Loop) /\ Alone(Loop)
    BY <1>2, StepKinds DEF Thread
  <2> QED
    BY <1>2, <2>1, HoldersStep, AppHolderStep
<1>3. CASE \E t \in Handler, op \in Request, a \in Address : Accept(t, op, a)
  <2>1. PICK t \in Handler, op \in Request, a \in Address : Accept(t, op, a)
    BY <1>3
  <2>2. Quiet(t) /\ Alone(t) /\ t \in Thread
    BY <2>1, AcceptSteps
  <2>3. AppHolder'
    BY <2>1, <2>2 DEF Accept, At, tableVars, AppHolder, Alone, Shape, TablesOK
  <2> QED
    BY <2>2, <2>3, HoldersStep DEF Kinds
<1>4. CASE (\E a \in Address : PowerOff(a) \/ PowerOn(a)) \/ Tick
  BY <1>4, WorldSteps DEF tableVars, Holders, AppHolder, Talking, Current, Object
<1>5. CASE UNCHANGED vars
  BY <1>5 DEF vars, tableVars, Holders, AppHolder, Talking, Current, Object
<1> QED
  BY <1>1, <1>2, <1>3, <1>4, <1>5 DEF Next

\* Given the holders, a chain of waiting threads ends after two.
LEMMA HoldersDoNotWait ==
    ASSUME Shape, Holders, AppHolder
    PROVE  NoWaitCycle
<1> SUFFICES ASSUME NEW group \in (SUBSET Thread) \ {{}},
                    \A t \in group : WaitsFor(t) \cap group # {}
             PROVE  FALSE
  BY DEF NoWaitCycle
<1>1. ASSUME NEW o \in Object, lock[o] # None PROVE WaitsFor(lock[o]) = {}
  <2>1. thread[lock[o]].pc \in {"connect", "read", "dispatch"}
    BY <1>1 DEF Holders, Talking
  <2> QED
    BY <2>1 DEF WaitsFor
<1>2. \A o \in Object : lock[o] # None => lock[o] \notin group
  BY <1>1
<1>3. PICK t \in group : \E u \in WaitsFor(t) : u \in group
  OBVIOUS
<1>4. PICK u \in WaitsFor(t) : u \in group
  BY <1>3
<1>5. ASSUME NEW v \in group, NEW w \in WaitsFor(v), w \in group
      PROVE  w = appLock /\ w # None /\ thread[v].pc \in {"add", "remove", "save", "record"}
  <2>1. v \in Thread
    OBVIOUS
  <2>2. ~(thread[v].pc = "refresh" /\ thread[v].work # <<>>)
    BY <1>2, <1>5, <2>1, CurrentIsMade DEF WaitsFor
  <2>3. thread[v].pc \notin {"replace", "close", "command"}
    <3>1. thread[v].pc \in {"replace", "close", "command"} => thread[v].object \in Object
      BY <2>1, PlacedThread, MadeObjects DEF PlaceOK, Shape, TablesOK
    <3> QED
      BY <1>2, <1>5, <2>2, <3>1 DEF WaitsFor
  <2> QED
    BY <1>5, <2>2, <2>3 DEF WaitsFor
<1>6. u = appLock /\ u # None
  BY <1>5, <1>4
<1>7. thread[u].pc \in {"replace", "swap"}
  BY <1>6 DEF AppHolder
<1>8. PICK w \in WaitsFor(u) : w \in group
  BY <1>4
<1> QED
  BY <1>5, <1>7, <1>8, <1>4

(* Whatever the threads of the server and the refresh thread are doing,    *)
(* they never come to wait for one another, or one of them for itself.     *)
THEOREM NobodyDeadlocks == Spec => []NoWaitCycle
<1>1. Init => Holders /\ AppHolder
  BY DEF Init, Holders, AppHolder
<1> QED
  BY <1>1, HoldersNext, HoldersDoNotWait, ShapeHolds, SessionsAreHeld, PTL DEF Spec

-----------------------------------------------------------------------------
(* OnlineMeansSession: whoever lets go of a device leaves it honest, and a *)
(* device is closed, while nobody talks to it, only when it has left the   *)
(* list or is about to be replaced.                                        *)

ListedOnce == \A i, j \in DOMAIN devices : devices[i] = devices[j] => i = j

CloseUnlisted == \A t \in Thread : At(t, "close") => ~Listed(thread[t].object)

Swapping(o) == \E t \in Thread : At(t, "swap") /\ thread[t].object = o

\* remove takes one object from the list, and it is not in there twice.
LEMMA CutList ==
    ASSUME Shape, ListedOnce, NEW i \in DOMAIN devices,
           devices' = SubSeq(devices, 1, i - 1) \o SubSeq(devices, i + 1, Len(devices))
    PROVE  /\ ListedOnce'
           /\ \A o : Listed(o)' => Listed(o) /\ o # devices[i]
<1>1. PICK n \in Nat : n = Len(devices) /\ i \in 1..n /\ DOMAIN devices = 1..n
  BY LenProperties DEF Shape
<1>2. /\ DOMAIN devices' = 1..(n - 1)
      /\ \A j \in 1..(n - 1) :
           (j < i => devices'[j] = devices[j]) /\ (~(j < i) => devices'[j] = devices[j + 1])
  <2>1. devices \in Seq(Made) /\ i \in 1..Len(devices)
    BY <1>1 DEF Shape
  <2> DEFINE cut == SubSeq(devices, 1, i - 1) \o SubSeq(devices, i + 1, Len(devices))
  <2>2. /\ DOMAIN cut = 1..(Len(devices) - 1)
        /\ \A j \in 1..(Len(devices) - 1) :
             (j < i => cut[j] = devices[j]) /\ (~(j < i) => cut[j] = devices[j + 1])
    BY <2>1, CutProperties
  <2>3. devices' = cut
    OBVIOUS
  <2> HIDE DEF cut
  <2> QED
    BY <1>1, <2>2, <2>3
<1>3. \A j, k \in 1..n : devices[j] = devices[k] => j = k
  BY <1>1 DEF ListedOnce
<1>4. ASSUME NEW j \in 1..(n - 1)
      PROVE  \E k \in 1..n : /\ devices'[j] = devices[k] /\ k # i
                             /\ k = IF j < i THEN j ELSE j + 1
  <2>1. CASE j < i
    BY <1>1, <1>2, <2>1
  <2>2. CASE ~(j < i)
    <3>1. j + 1 \in 1..n /\ j + 1 # i
      BY <1>1, <2>2
    <3>2. devices'[j] = devices[j + 1]
      BY <1>2, <2>2
    <3> QED
      BY <2>2, <3>1, <3>2
  <2> QED
    BY <2>1, <2>2
<1>5. ListedOnce'
  <2> SUFFICES ASSUME NEW j \in 1..(n - 1), NEW k \in 1..(n - 1), devices'[j] = devices'[k]
               PROVE  j = k
    BY <1>2 DEF ListedOnce
  <2>1. PICK x \in 1..n : devices'[j] = devices[x] /\ x = IF j < i THEN j ELSE j + 1
    BY <1>4
  <2>2. PICK y \in 1..n : devices'[k] = devices[y] /\ y = IF k < i THEN k ELSE k + 1
    BY <1>4
  <2>3. x = y
    BY <1>3, <2>1, <2>2
  <2>4. i \in Int /\ j \in Int /\ k \in Int
    BY <1>1
  <2>5. x = IF j < i THEN j ELSE j + 1
    BY <2>1
  <2>6. x = IF k < i THEN k ELSE k + 1
    BY <2>2, <2>3
  <2> QED
    BY <2>4, <2>5, <2>6
<1>6. ASSUME NEW o, Listed(o)' PROVE Listed(o) /\ o # devices[i]
  <2>1. PICK j \in 1..(n - 1) : devices'[j] = o
    BY <1>2, <1>6 DEF Listed
  <2>2. PICK k \in 1..n : o = devices[k] /\ k # i
    BY <1>4, <2>1
  <2> QED
    BY <1>1, <1>3, <2>2 DEF Listed
<1> QED
  BY <1>5, <1>6

\* Only add and remove change the list: what add lists, it has just created.
LEMMA ListStep ==
    ASSUME Shape, ListedOnce, NEW t \in Thread, Step(t) \/ (LoopTick /\ t = Loop)
    PROVE  /\ ListedOnce'
           /\ \A o : Listed(o)' => Listed(o) \/ (o = created + 1 /\ (AddNew(t) \/ Swap(t)))
           /\ Swap(t) => \A o : Listed(o)' => o # thread[t].object
           /\ thread'[t].pc = "close" => Remove(t)
           /\ Remove(t) => \A o : Listed(o)' => o # thread'[t].object
<1> DEFINE o == created + 1
<1>1. /\ thread \in [Thread -> ThreadState]
      /\ devices \in Seq(Made) /\ DOMAIN devices = 1..Len(devices) /\ Len(devices) \in Nat
  BY LenProperties DEF Shape, TablesOK
<1>2. o \in Int /\ o \notin Made /\ Made \subseteq Int
  BY ObjectNumbers DEF Made, Shape, TablesOK
<1>3. \A i \in DOMAIN devices : devices[i] \in Made /\ devices[i] # o
  BY <1>1, <1>2, ElementOfSeq
<1>4. CASE AddNew(t)
  <2>1. /\ devices' = Append(devices, o)
        /\ thread'[t].pc # "close" /\ thread[t].pc = "add"
    BY <1>1, <1>4 DEF AddNew, StartForced, At, ThreadState
  <2>2. o \in Int /\ devices \in Seq(Int)
    BY <1>1, <1>2, SeqMonotonic
  <2>3. /\ DOMAIN devices' = 1..(Len(devices) + 1)
        /\ \A i \in 1..Len(devices) : devices'[i] = devices[i]
        /\ devices'[Len(devices) + 1] = o
    BY <2>1, <2>2, AppendProperties, LenProperties
  <2>4. ListedOnce'
    BY <1>1, <1>3, <2>3 DEF ListedOnce
  <2>5. \A q : Listed(q)' => Listed(q) \/ q = o
    BY <1>1, <2>3 DEF Listed
  <2> QED
    BY <1>4, <2>1, <2>4, <2>5 DEF Swap, Remove, At
<1>5. CASE Swap(t)
  <2>1. /\ devices' = [i \in DOMAIN devices |-> IF devices[i] = thread[t].object THEN o ELSE devices[i]]
        /\ thread'[t].pc # "close" /\ thread[t].pc = "swap"
    BY <1>1, <1>5 DEF Swap, StartForced, At, ThreadState
  <2>2. thread[t].object \in Made /\ o \notin Made
    BY <1>2, <1>5, PlacedThread DEF Swap, At, PlaceOK
  <2>3. ListedOnce'
    BY <1>3, <2>1, <2>2 DEF ListedOnce
  <2>4. \A q : Listed(q)' => q # thread[t].object /\ (Listed(q) \/ q = o)
    BY <1>3, <2>1, <2>2 DEF Listed
  <2> QED
    BY <1>5, <2>1, <2>3, <2>4 DEF Remove, At
<1>6. CASE Remove(t)
  <2>1. PICK i \in DOMAIN devices :
            /\ devices' = SubSeq(devices, 1, i - 1) \o SubSeq(devices, i + 1, Len(devices))
            /\ thread' = [thread EXCEPT ![t].pc = "close", ![t].object = devices[i]]
    BY <1>6 DEF Remove
  <2>2. thread'[t].object = devices[i] /\ thread[t].pc = "remove"
    BY <1>1, <1>6, <2>1 DEF Remove, At, ThreadState
  <2> QED
    BY <1>6, <2>1, <2>2, CutList DEF Swap, At
<1>7. CASE UNCHANGED devices /\ thread'[t].pc # "close" /\ ~Swap(t) /\ ~Remove(t)
  BY <1>7 DEF ListedOnce, Listed
<1>8. ASSUME ~AddNew(t), ~Swap(t), ~Remove(t)
      PROVE  UNCHANGED devices /\ thread'[t].pc # "close"
  <2>1. CASE RefreshOnRequest(t) \/ SkipRefresh(t) \/ (LoopTick /\ t = Loop)
    BY <1>1, <2>1 DEF LoopTick, RefreshOnRequest, RefreshAll, SkipRefresh, At, tableVars, ThreadState
  <2>2. CASE BeginRefresh(t) \/ ConnectOpens(t)
    BY <1>1, <2>2 DEF BeginRefresh, ConnectOpens, Goto, At, tableVars, ThreadState
  <2>3. CASE ConnectFails(t) \/ ReadDone(t) \/ ReadFails(t) \/ DispatchRefused(t) \/ DispatchLost(t)
    BY <1>1, <2>3 DEF ConnectFails, ReadDone, ReadFails, DispatchRefused, DispatchLost,
       Return, Goto, tableVars, ThreadState
  <2>4. CASE ReadRefused(t) \/ DispatchEscapes(t)
    BY <1>1, <2>4 DEF ReadRefused, DispatchEscapes, Escape, Idle, tableVars
  <2>5. CASE Evaluate(t) \/ CopyState(t) \/ CopyAdded(t) \/ Observe(t)
    BY <1>1, <2>5 DEF Evaluate, CopyState, CopyAdded, Observe, Idle, tableVars, ThreadState
  <2>6. CASE AddExisting(t)
    BY <1>1, <2>6 DEF AddExisting, StartForced, tableVars, ThreadState
  <2>7. CASE CloseReplaced(t)
    BY <1>1, <2>7 DEF CloseReplaced, Goto, tableVars, ThreadState
  <2>8. CASE AddReplacing(t)
    BY <1>1, <2>8 DEF AddReplacing, ThreadState
  <2>9. CASE RemoveUnknown(t) \/ CloseRemoved(t) \/ Forget(t) \/ Save(t)
    BY <1>1, <2>9 DEF RemoveUnknown, CloseRemoved, Forget, Save, Goto, Idle, tableVars, ThreadState
  <2>10. CASE ExecuteUnknown(t) \/ Execute(t) \/ Command(t) \/ DispatchDone(t) \/ Record(t)
    BY <1>1, <2>10 DEF ExecuteUnknown, Execute, Command, DispatchDone, Record, Goto, Idle, tableVars, ThreadState
  <2> QED
    BY <1>8, <2>1, <2>2, <2>3, <2>4, <2>5, <2>6, <2>7, <2>8, <2>9, <2>10 DEF Step, Refreshing, Membership, Commanding
<1> QED
  BY <1>4, <1>5, <1>6, <1>7, <1>8

\* A replacement that is in the making goes on, or has left the list.
LEMMA StillSwapping ==
    ASSUME Shape, ListedOnce, NEW t \in Thread, Step(t) \/ (LoopTick /\ t = Loop), Alone(t),
           NEW o, Swapping(o), Listed(o)', o \in Made
    PROVE  Swapping(o)'
<1>1. PICK u \in Thread : At(u, "swap") /\ thread[u].object = o
  BY DEF Swapping
<1>2. u # t
  <2>1. At(t, "swap") => Swap(t)
    BY DEF Step, Refreshing, Membership, Commanding, At, LoopTick,
       RefreshOnRequest, SkipRefresh, BeginRefresh, ConnectOpens, ConnectFails,
       ReadDone, ReadFails, ReadRefused, Evaluate, CopyState, CopyAdded, Observe,
       AddExisting, AddNew, AddReplacing, CloseReplaced, RemoveUnknown, Remove, CloseRemoved,
       Forget, Save, ExecuteUnknown, Execute, Command, DispatchDone, DispatchRefused,
       DispatchLost, DispatchEscapes, Record
  <2> QED
    BY <1>1, <2>1, ListStep
<1>3. thread'[u] = thread[u]
  BY <1>2 DEF Alone
<1> QED
  BY <1>1, <1>3 DEF Swapping, At

\* OnlineMeansSession, by the kind of the step.
LEMMA ShownStep ==
    ASSUME Shape, Shape', NoUseAfterClose, ListedOnce, CloseUnlisted, OnlineMeansSession,
           NEW t \in Thread, Step(t) \/ (LoopTick /\ t = Loop), Kinds(t), Alone(t)
    PROVE  OnlineMeansSession'
<1> SUFFICES ASSUME NEW o \in Object, Listed(o)', lock'[o] = None, ~Swapping(o)'
             PROVE  HonestNext(o)
  BY DEF OnlineMeansSession, HonestNext, Swapping, Object
<1>1. Made \subseteq Object /\ lock \in [Object -> Thread \cup {None}] /\ t # None
      /\ thread \in [Thread -> ThreadState]
  BY MadeObjects, ConfigAssumption DEF Shape, TablesOK, Thread, Loop
<1>2. CASE AddNew(t) \/ Swap(t)
  <2>1. Creates(t)
    BY <1>2, CreatingSteps
  <2>2. CASE o = created + 1
    BY <2>1, <2>2 DEF Creates
  <2>3. CASE o # created + 1
    <3>1. Listed(o) /\ o \in Made
      BY <2>3, ListStep, ListedIsMade
    <3>2. ~Swapping(o)
      BY <3>1, StillSwapping
    <3>3. lock[o] = None /\ dev'[o] = dev[o]
      BY <2>1, <2>3, <3>1 DEF Creates, OnlyDevice
    <3> QED
      BY <3>1, <3>2, <3>3 DEF OnlineMeansSession, Swapping, HonestNext
  <2> QED
    BY <2>2, <2>3
<1>3. CASE ~AddNew(t) /\ ~Swap(t)
  <2>1. Listed(o) /\ o \in Made
    BY <1>3, ListStep, ListedIsMade
  <2>2. ~Swapping(o)
    BY <2>1, StillSwapping
  <2>3. ASSUME lock[o] = None, dev'[o] = dev[o] PROVE HonestNext(o)
    BY <2>1, <2>2, <2>3 DEF OnlineMeansSession, Swapping, HonestNext
  <2>4. CASE Quiet(t)
    BY <2>3, <2>4 DEF Quiet
  <2>5. CASE Takes(t)
    BY <1>1, <2>1, <2>3, <2>5 DEF Takes, OnlyDevice
  <2>6. CASE Keeps(t)
    <3>1. o # Current(t)
      BY <1>1, <2>6, HeldOne DEF Keeps
    <3> QED
      BY <2>1, <2>3, <2>6, <3>1 DEF Keeps, OnlyDevice
  <2>7. CASE LetsGo(t)
    <3>1. CASE o = Current(t)
      BY <2>7, <3>1 DEF LetsGo
    <3>2. CASE o # Current(t)
      BY <1>1, <2>1, <2>3, <2>7, <3>2 DEF LetsGo, OnlyDevice
    <3> QED
      BY <3>1, <3>2
  <2>8. CASE Closes(t)
    <3>1. CASE o # thread[t].object
      BY <2>1, <2>3, <2>8, <3>1 DEF Closes, OnlyDevice
    <3>2. CASE o = thread[t].object /\ dev'[o].session = "none" /\ CloseReplaced(t)
      <4>1. At(t, "swap")' /\ thread'[t].object = o
        BY <3>2, GoesTo DEF CloseReplaced, At, PC
      <4> QED
        BY <4>1 DEF Swapping
    <3>3. CASE o = thread[t].object /\ CloseRemoved(t)
      BY <2>1, <3>3 DEF CloseRemoved, CloseUnlisted
    <3>4. CASE ~CloseReplaced(t) /\ ~CloseRemoved(t)
      <4>1. Quiet(t) \/ Takes(t) \/ Keeps(t) \/ LetsGo(t)
        BY <1>3, <3>4, QuietSteps, TalkingSteps, LoopIsQuiet DEF Step, Refreshing, Membership, Commanding
      <4> QED
        BY <2>4, <2>5, <2>6, <2>7, <4>1
    <3> QED
      BY <3>1, <3>2, <3>3, <3>4, ClosingSteps
  <2>9. CASE Creates(t)
    <3>1. o # created + 1
      BY <2>1, <2>9 DEF Creates
    <3> QED
      BY <2>1, <2>3, <2>9, <3>1 DEF Creates, OnlyDevice
  <2> QED
    BY <2>4, <2>5, <2>6, <2>7, <2>8, <2>9 DEF Kinds
<1> QED
  BY <1>2, <1>3

\* What is being closed is not listed again.
LEMMA UnlistedStep ==
    ASSUME Shape, ListedOnce, CloseUnlisted, NEW t \in Thread,
           Step(t) \/ (LoopTick /\ t = Loop), Alone(t)
    PROVE  CloseUnlisted'
<1> SUFFICES ASSUME NEW u \in Thread, thread'[u].pc = "close", NEW o, o = thread'[u].object, Listed(o)'
             PROVE  FALSE
  BY DEF CloseUnlisted, At, Listed
<1>1. CASE u = t
  BY <1>1, ListStep
<1>2. CASE u # t
  <2>1. thread'[u] = thread[u]
    BY <1>2 DEF Alone
  <2>2. o \in Made /\ ~Listed(o)
    BY <2>1, PlacedThread DEF CloseUnlisted, At, PlaceOK
  <2>3. o # created + 1
    BY <2>2, ObjectNumbers DEF Made, Shape, TablesOK
  <2> QED
    BY <2>2, <2>3, ListStep
<1> QED
  BY <1>1, <1>2

\* All three, for every step of the system.
LEMMA ShownNext ==
    ASSUME Shape, Shape', NoUseAfterClose,
           ListedOnce, CloseUnlisted, OnlineMeansSession, [Next]_vars
    PROVE  ListedOnce' /\ CloseUnlisted' /\ OnlineMeansSession'
<1>1. ASSUME NEW t \in Thread, Step(t) \/ (LoopTick /\ t = Loop)
      PROVE  ListedOnce' /\ CloseUnlisted' /\ OnlineMeansSession'
  <2>1. Kinds(t) /\ Alone(t)
    BY <1>1, StepKinds
  <2> QED
    BY <1>1, <2>1, ListStep, UnlistedStep, ShownStep
<1>2. ASSUME UNCHANGED <<devices, lock>>,
             \A t \in Thread : thread'[t].pc \in {"close", "swap"} \/ thread[t].pc \in {"close", "swap"}
                                 => thread'[t] = thread[t],
             \A o \in Object : /\ dev'[o].reachability = dev[o].reachability
                               /\ dev'[o].session = "none" <=> dev[o].session = "none"
      PROVE  ListedOnce' /\ CloseUnlisted' /\ OnlineMeansSession'
  <2>1. ListedOnce' /\ \A o : Listed(o)' <=> Listed(o)
    BY <1>2 DEF ListedOnce, Listed
  <2>2. CloseUnlisted'
    BY <1>2, <2>1 DEF CloseUnlisted, At, Listed
  <2>3. OnlineMeansSession'
    <3> SUFFICES ASSUME NEW o \in Object, Listed(o)', lock'[o] = None,
                        ~\E t \in Thread : At(t, "swap")' /\ thread'[t].object = o,
                        dev'[o].reachability = "online"
                 PROVE  dev'[o].session # "none"
      BY DEF OnlineMeansSession, Object
    <3>1. Listed(o) /\ lock[o] = None /\ dev[o].reachability = "online"
      BY <1>2, <2>1
    <3>2. ~\E t \in Thread : At(t, "swap") /\ thread[t].object = o
      BY <1>2 DEF At
    <3> QED
      BY <1>2, <3>1, <3>2 DEF OnlineMeansSession
  <2> QED
    BY <2>1, <2>2, <2>3
<1>3. CASE \E t \in Thread : Step(t)
  BY <1>1, <1>3
<1>4. CASE LoopTick
  BY <1>1, <1>4 DEF Thread
<1>5. CASE \E t \in Handler, op \in Request, a \in Address : Accept(t, op, a)
  <2>1. PICK t \in Handler, op \in Request, a \in Address : Accept(t, op, a)
    BY <1>5
  <2>2. Quiet(t) /\ Alone(t) /\ t \in Thread
    BY <2>1, AcceptSteps
  <2>3. thread[t].pc = "idle" /\ thread'[t].pc \in Request /\ UNCHANGED devices
    BY <2>1, <2>2 DEF Accept, At, Idle, tableVars, Shape, TablesOK
  <2> QED
    BY <1>2, <2>2, <2>3 DEF Quiet, Alone, Request
<1>6. CASE (\E a \in Address : PowerOff(a) \/ PowerOn(a)) \/ Tick
  BY <1>2, <1>6, WorldSteps DEF tableVars
<1>7. CASE UNCHANGED vars
  BY <1>2, <1>7 DEF vars, tableVars
<1> QED
  BY <1>3, <1>4, <1>5, <1>6, <1>7 DEF Next

\* The devices of the config file have been refreshed: online ones have a session.
LEMMA ShownInit == Init => ListedOnce /\ CloseUnlisted /\ OnlineMeansSession
<1> SUFFICES ASSUME Init PROVE ListedOnce /\ CloseUnlisted /\ OnlineMeansSession
  OBVIOUS
<1>1. ListedOnce /\ CloseUnlisted
  BY DEF Init, ListedOnce, CloseUnlisted, At, Idle
<1>2. PICK reason \in [DOMAIN Saved -> Down] :
        dev = [o \in Object |-> IF o \in DOMAIN Saved THEN Restored(Saved[o], reason[o]) ELSE Blank]
  BY DEF Init
<1>3. ASSUME NEW o \in Object PROVE Honest(o)
  <2>1. CASE o \notin DOMAIN Saved
    BY <1>2, <2>1 DEF Honest, Blank, NewDevice
  <2>2. CASE o \in DOMAIN Saved
    <3> DEFINE d == NewDevice(Saved[o].address, Saved[o].ports)
    <3>1. d \in DeviceState
      <4>1. Saved \in Seq([address : Address, ports : Ports])
        BY ConfigAssumption
      <4>2. DOMAIN Saved = 1..Len(Saved)
        BY <4>1, LenProperties
      <4>3. Saved[o] \in [address : Address, ports : Ports]
        BY <2>2, <4>1, <4>2, ElementOfSeq
      <4> QED
        BY <4>3, NewDeviceIsTyped
    <3>2. reason[o] \in Down
      BY <2>2
    <3>3. dev[o] = Reading(Connected(d)) \/ dev[o] = MarkDown(d, reason[o])
      BY <1>2, <2>2 DEF Restored
    <3> HIDE DEF d
    <3>4. Connected(d) \in DeviceState
      BY <3>1, <3>2, DeviceMethods
    <3>5. Reading(Connected(d)).session = "live" /\ MarkDown(d, reason[o]).reachability # "online"
      BY <3>1, <3>2, <3>4, Showing
    <3> QED
      BY <3>3, <3>5 DEF Honest
  <2> QED
    BY <2>1, <2>2
<1> QED
  BY <1>1, <1>3 DEF OnlineMeansSession, Honest

(* A device nobody is talking to is never shown online without a session,  *)
(* but while it is being replaced: marking it down comes with every close. *)
THEOREM OnlineIsHonest == Spec => []OnlineMeansSession
BY ShownInit, ShownNext, ShapeHolds, SessionsAreHeld, PTL DEF Spec

-----------------------------------------------------------------------------
(* What the run busy_device refutes of a device that answers with errors is *)
(* true where there is none.                                                *)

\* The refresh thread takes no requests: it sleeps, or goes on with its round.
LoopGoesRound ==
    \/ thread[Loop].pc = "idle"
    \/ /\ thread[Loop].op = "refresh_all"
       /\ thread[Loop].pc \in {"refresh", "connect", "read", "evaluate", "observe"}

\* Only an error code can end the round before its time.
LEMMA LoopStep ==
    ASSUME Shape, LoopGoesRound, Busy = {}, Step(Loop)
    PROVE  LoopGoesRound'
<1> DEFINE t == Loop
<1>1. /\ t \in Thread /\ thread \in [Thread -> ThreadState]
      /\ thread[t].pc \in {"idle", "refresh", "connect", "read", "evaluate", "observe"}
      /\ thread[t].pc # "idle" => thread[t].op = "refresh_all"
  BY DEF LoopGoesRound, Shape, TablesOK, Thread
<1>2. CASE Refreshing(t)
  <2>1. CASE SkipRefresh(t) \/ BeginRefresh(t) \/ ConnectOpens(t)
    BY <1>1, <2>1 DEF SkipRefresh, BeginRefresh, ConnectOpens, At, Goto, ThreadState, LoopGoesRound
  <2>2. CASE ConnectFails(t) \/ ReadDone(t) \/ ReadFails(t)
    BY <1>1, <2>2 DEF ConnectFails, ReadDone, ReadFails, Return, At, Goto, ThreadState, LoopGoesRound
  <2>3. CASE Evaluate(t) \/ CopyState(t) \/ Observe(t)
    BY <1>1, <2>3 DEF Evaluate, CopyState, Observe, At, Idle, ThreadState, LoopGoesRound
  <2>4. ~ReadRefused(t) /\ ~CopyAdded(t) /\ ~RefreshOnRequest(t)
    BY <1>1 DEF ReadRefused, CopyAdded, RefreshOnRequest, At
  <2> QED
    BY <1>2, <2>1, <2>2, <2>3, <2>4 DEF Refreshing
<1>3. ~Membership(t)
  BY <1>1 DEF Membership, AddExisting, AddNew, AddReplacing, CloseReplaced, Swap,
     RemoveUnknown, Remove, CloseRemoved, Forget, Save, At
<1>4. ~Commanding(t)
  BY <1>1 DEF Commanding, ExecuteUnknown, Execute, Command, DispatchDone,
     DispatchRefused, DispatchLost, DispatchEscapes, Record, At
<1> QED
  BY <1>2, <1>3, <1>4 DEF Step

LEMMA LoopNext ==
    ASSUME Shape, NoUseAfterClose, LoopGoesRound, Busy = {}, [Next]_vars
    PROVE  LoopGoesRound'
<1>1. ASSUME NEW t \in Thread, Step(t) PROVE LoopGoesRound'
  <2>1. CASE t = Loop
    BY <1>1, <2>1, LoopStep
  <2>2. CASE t # Loop
    BY <1>1, <2>2, StepKinds DEF Alone, LoopGoesRound, Thread
  <2> QED
    BY <2>1, <2>2
<1>2. CASE LoopTick
  BY <1>2 DEF LoopTick, RefreshAll, LoopGoesRound, Shape, TablesOK, Thread, ThreadState
<1>3. ASSUME NEW t \in Handler, NEW op \in Request, NEW a \in Address, Accept(t, op, a)
      PROVE  LoopGoesRound'
  <2>1. t # Loop /\ Loop \in Thread
    BY ConfigAssumption DEF Loop, Thread
  <2> QED
    BY <1>3, <2>1, AcceptSteps DEF Alone, LoopGoesRound
<1>4. CASE (\E a \in Address : PowerOff(a) \/ PowerOn(a)) \/ Tick \/ UNCHANGED vars
  BY <1>4 DEF PowerOff, PowerOn, Tick, vars, tableVars, LoopGoesRound
<1> QED
  BY <1>1, <1>2, <1>3, <1>4 DEF Next

\* "Never raises; failures become state" (state.py:186): as long as no COEX device
\* answers with an error code, no failure, removal or request ends the refresh thread.
THEOREM RefreshSurvives == ASSUME Busy = {} PROVE Spec => []RefreshNeverRaises
<1>1. Init => LoopGoesRound
  BY DEF Init, LoopGoesRound, Idle, Thread
<1>2. LoopGoesRound => RefreshNeverRaises
  BY DEF LoopGoesRound, RefreshNeverRaises, At
<1> QED
  BY <1>1, <1>2, LoopNext, ShapeHolds, SessionsAreHeld, PTL DEF Spec

=============================================================================
