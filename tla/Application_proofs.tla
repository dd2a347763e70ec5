------------------------- MODULE Application_proofs -------------------------
(* Proofs about Application, for every set of devices and server threads   *)
(* and every config file.                                                  *)
EXTENDS Application, TLAPS, SequenceTheorems, FiniteSetTheorems

-----------------------------------------------------------------------------
(* What a thread has its hands on *)

Made == 1..created

\* The operation a thread is in says where it can be, and what it knows.
PlaceOK(p, made) ==
    /\ p.work \in Seq(made)
    /\ p.object \in made \cup {0}
    /\ p.pc \in {"add", "replace", "swap"} => p.op = "add"
    /\ p.pc \in {"remove", "close", "forget"} => p.op = "remove"
    /\ p.pc \in {"execute", "command", "dispatch", "record"} => p.op = "execute"
    /\ p.pc \in {"refresh_all", "evaluate"} => p.op = "refresh_all"
    /\ p.pc \in {"refresh", "observe"} => p.op \in {"refresh_all", "add"}
    /\ p.pc \in {"connect", "read"} => p.op \in {"refresh_all", "add", "execute"}
    /\ p.pc \in {"replace", "swap", "close", "forget", "command", "dispatch"} => p.object # 0
    /\ p.pc \in {"connect", "read"} /\ p.op = "execute" => p.object # 0
    /\ p.pc \in {"refresh", "connect", "read"} /\ p.op = "add" => p.object # 0
    /\ p.pc \in {"connect", "read", "evaluate", "observe"} /\ p.op # "execute" => p.work # <<>>
    /\ p.pc \in Request \cup {"close", "forget"} => p.address \in Address

\* Every object in a list or in a thread's hands has been created.
Shape ==
    /\ TablesOK
    /\ devices \in Seq(Made)
    /\ \A o \in Made : dev[o].address \in Address
    /\ \A t \in Thread : PlaceOK(thread[t], Made)

\* What a thread works off stays among the same objects.
LEMMA HeadAndTail ==
    ASSUME NEW S, NEW s \in Seq(S), s # <<>>
    PROVE  Head(s) \in S /\ Tail(s) \in Seq(S)
BY HeadTailProperties

\* A list of work that is not down to its last object goes on.
LEMMA LongerThanOne ==
    ASSUME NEW S, NEW s \in Seq(S), s # <<>>, Len(s) # 1
    PROVE  Tail(s) # <<>>
<1>1. Len(Tail(s)) = Len(s) - 1
  BY HeadTailProperties
<1>2. Len(s) \in Nat
  BY LenProperties
<1>3. Len(s) # 0
  BY EmptySeq
<1>4. Len(Tail(s)) # 0
  BY <1>1, <1>2, <1>3
<1>5. Len(<<>>) = 0
  OBVIOUS
<1> QED
  BY <1>4, <1>5

\* Objects are numbered from 1; 0 stands for none.
LEMMA ObjectNumbers == MaxObject \in Nat /\ Object \subseteq Nat /\ 0 \notin Object
BY ConfigAssumption, LenProperties DEF Object, MaxObject

\* What has been created is an object.
LEMMA MadeObjects ==
    ASSUME created \in Object \cup {0}
    PROVE  Made \subseteq Object /\ 0 \notin Made
BY ObjectNumbers DEF Made, Object

\* A thread that refreshes, commands or evaluates has a created object in hand.
LEMMA CurrentIsMade ==
    ASSUME Shape, NEW t \in Thread,
           \/ thread[t].pc \in {"connect", "read", "dispatch", "command", "evaluate", "observe"}
           \/ thread[t].pc = "refresh" /\ thread[t].work # <<>>
    PROVE  Current(t) \in Made /\ Current(t) \in Object
<1>1. PlaceOK(thread[t], Made) /\ thread[t].work \in Seq(Made)
  BY DEF Shape, PlaceOK
<1>2. CASE thread[t].op = "execute"
  BY <1>1, <1>2, MadeObjects DEF PlaceOK, Current, Shape, TablesOK
<1>3. CASE thread[t].op # "execute"
  <2>1. thread[t].work # <<>>
    BY <1>1, <1>3 DEF PlaceOK
  <2>2. Head(thread[t].work) \in Made
    BY <1>1, <2>1, HeadAndTail
  <2> QED
    BY <1>3, <2>2, MadeObjects DEF Current, Shape, TablesOK
<1> QED
  BY <1>2, <1>3

\* A step of t that creates nothing leaves every other thread in its place.
LEMMA OthersStay ==
    ASSUME Shape, NEW t \in Thread, NEW p \in ThreadState,
           thread' = [thread EXCEPT ![t] = p],
           created' \in Object \cup {0}, created <= created',
           PlaceOK(p, Made')
    PROVE  /\ thread' \in [Thread -> ThreadState]
           /\ \A u \in Thread : PlaceOK(thread'[u], Made')
<1>1. thread' \in [Thread -> ThreadState]
  BY DEF Shape, TablesOK
<1>2. Made \subseteq Made'
  BY ObjectNumbers DEF Made, Shape, TablesOK
<1>3. ASSUME NEW u \in Thread, u # t PROVE PlaceOK(thread'[u], Made')
  <2>1. thread'[u] = thread[u] /\ PlaceOK(thread[u], Made)
    BY <1>3 DEF Shape, TablesOK
  <2>2. thread[u].work \in Seq(Made')
    BY <1>2, <2>1 DEF PlaceOK
  <2> QED
    BY <1>2, <2>1, <2>2 DEF PlaceOK
<1>4. PlaceOK(thread'[t], Made')
  BY DEF Shape, TablesOK
<1> QED
  BY <1>1, <1>3, <1>4

\* What the device methods do to a device record.
LEMMA DeviceMethods ==
    ASSUME NEW d \in DeviceState, NEW reason \in Down
    PROVE  /\ Close(d) \in DeviceState /\ Close(d).address = d.address
           /\ MarkDown(d, reason) \in DeviceState /\ MarkDown(d, reason).address = d.address
           /\ Connected(d) \in DeviceState /\ Connected(d).address = d.address
           /\ Reading(d) \in DeviceState /\ Reading(d).address = d.address
<1>1. /\ FirstBackoff \in FirstBackoff..MaxBackoff /\ 0 \in 0..MaxBackoff
      /\ d.backoff \in 0..MaxBackoff
      /\ Smaller(2 * d.backoff, MaxBackoff) \in FirstBackoff..MaxBackoff
  BY BackoffAssumption DEF DeviceState, Smaller
<1>2. Close(d) \in DeviceState /\ Close(d).address = d.address
  BY DEF DeviceState, Close, Session
<1>3. MarkDown(d, reason) \in DeviceState /\ MarkDown(d, reason).address = d.address
  BY <1>1 DEF DeviceState, Close, MarkDown, Session, Reachability, Down
<1>4. Connected(d) \in DeviceState /\ Connected(d).address = d.address
  BY <1>1 DEF DeviceState, Connected, Session
<1>5. Reading(d) \in DeviceState /\ Reading(d).address = d.address
  BY <1>1 DEF DeviceState, Reading, Reachability
<1> QED
  BY <1>2, <1>3, <1>4, <1>5

\* A step of t that creates nothing and moves no device to another address.
LEMMA ShapeMoves ==
    ASSUME Shape, NEW t \in Thread, NEW p \in ThreadState,
           thread' = [thread EXCEPT ![t] = p], PlaceOK(p, Made),
           created' = created, devices' \in Seq(Made),
           dev' \in [Object -> DeviceState],
           \A o \in Made : dev'[o].address = dev[o].address,
           lock' \in [Object -> Thread \cup {None}], appLock' \in Thread \cup {None},
           up' \in [Address -> BOOLEAN],
           requests' \in 0..MaxRequest, outages' \in 0..MaxOutage
    PROVE  Shape'
<1>1. Made' = Made /\ PlaceOK(p, Made')
  BY DEF Made
<1>2. thread' \in [Thread -> ThreadState] /\ \A u \in Thread : PlaceOK(thread'[u], Made')
  <2>1. created' \in Object \cup {0} /\ created <= created'
    BY ObjectNumbers DEF Shape, TablesOK
  <2> QED
    BY <1>1, <2>1, OthersStay
<1>3. devices' \in Seq(Object)
  BY MadeObjects DEF Shape, TablesOK
<1>4. TablesOK'
  BY <1>2, <1>3 DEF Shape, TablesOK
<1>5. \A o \in Made' : dev'[o].address \in Address
  BY <1>1 DEF Shape
<1> QED
  BY <1>1, <1>2, <1>4, <1>5 DEF Shape

\* The same, where only the thread moves.
LEMMA ShapeQuiet ==
    ASSUME Shape, NEW t \in Thread, NEW p \in ThreadState,
           thread' = [thread EXCEPT ![t] = p], PlaceOK(p, Made),
           UNCHANGED <<devices, dev, created, lock, appLock, up, requests, outages>>
    PROVE  Shape'
BY ShapeMoves DEF Shape, TablesOK

\* The idle thread, and the refresh thread once it has ended.
LEMMA IdleIsPlaced ==
    /\ Idle \in ThreadState /\ PlaceOK(Idle, Made)
    /\ [Idle EXCEPT !.pc = "dead"] \in ThreadState /\ PlaceOK([Idle EXCEPT !.pc = "dead"], Made)
<1>1. <<>> \in Seq(Object) /\ <<>> \in Seq(Made)
  OBVIOUS
<1> QED
  BY <1>1 DEF Idle, ThreadState, PlaceOK, PC, Request, Reachability

\* Facts about the record of one thread, for the steps that only move it on.
LEMMA PlacedThread ==
    ASSUME Shape, NEW t \in Thread
    PROVE  thread[t] \in ThreadState /\ PlaceOK(thread[t], Made)
BY DEF Shape, TablesOK

\* The start of a round, and a device that is not due.
LEMMA RefreshingShape ==
    ASSUME Shape, NEW t \in Thread,
           RefreshOnRequest(t) \/ LoopTick \/ SkipRefresh(t)
    PROVE  Shape'
<1>1. thread[t] \in ThreadState /\ PlaceOK(thread[t], Made) /\ thread[Loop] \in ThreadState /\ PlaceOK(thread[Loop], Made)
  BY PlacedThread DEF Thread
<1>2. devices \in Seq(Made) /\ devices \in Seq(Object)
  BY DEF Shape, TablesOK
<1>3. ASSUME NEW u \in Thread, RefreshAll(u) PROVE Shape'
  <2> DEFINE p == [thread[u] EXCEPT !.pc = "refresh", !.op = "refresh_all", !.work = devices]
  <2>1. p \in ThreadState /\ PlaceOK(p, Made)
    BY <1>2, PlacedThread DEF ThreadState, PlaceOK, PC, Request
  <2>2. thread' = [thread EXCEPT ![u] = p]
    BY <1>3 DEF RefreshAll
  <2> QED
    BY <1>3, <2>1, <2>2, ShapeQuiet DEF RefreshAll, tableVars, worldVars
<1>4. ASSUME SkipRefresh(t) PROVE Shape'
  <2> DEFINE p == [thread[t] EXCEPT !.work = Tail(@)]
  <2>1. Tail(thread[t].work) \in Seq(Made) /\ Tail(thread[t].work) \in Seq(Object)
    BY <1>1, <1>4, HeadAndTail, MadeObjects DEF SkipRefresh, PlaceOK, Shape, TablesOK
  <2>2. p \in ThreadState /\ PlaceOK(p, Made)
    BY <1>1, <1>4, <2>1 DEF ThreadState, PlaceOK, SkipRefresh, At
  <2>3. thread' = [thread EXCEPT ![t] = p]
    BY <1>4 DEF SkipRefresh
  <2> QED
    BY <1>4, <2>2, <2>3, ShapeQuiet DEF SkipRefresh, tableVars, worldVars
<1> QED
  BY <1>3, <1>4 DEF RefreshOnRequest, LoopTick, Thread

\* A thread that goes on to another place with nothing else changed in its hands.
LEMMA GotoIsPlaced ==
    ASSUME Shape, NEW t \in Thread, NEW pc \in PC, Goto(t, pc),
           PlaceOK([thread[t] EXCEPT !.pc = pc], Made)
    PROVE  \E p \in ThreadState : thread' = [thread EXCEPT ![t] = p] /\ PlaceOK(p, Made)
<1> DEFINE p == [thread[t] EXCEPT !.pc = pc]
<1>1. p \in ThreadState
  BY PlacedThread DEF ThreadState
<1>2. thread' = [thread EXCEPT ![t] = p]
  BY DEF Goto
<1> QED
  BY <1>1, <1>2

\* The end of a device method, for each operation that calls one.
LEMMA ReturnIsPlaced ==
    ASSUME Shape, NEW t \in Thread, thread[t].pc \in {"connect", "read", "dispatch"}, Return(t)
    PROVE  /\ \E p \in ThreadState : thread' = [thread EXCEPT ![t] = p] /\ PlaceOK(p, Made)
           /\ lock' \in [Object -> Thread \cup {None}]
<1>1. thread[t] \in ThreadState /\ PlaceOK(thread[t], Made)
  BY PlacedThread
<1>2. lock' \in [Object -> Thread \cup {None}]
  BY DEF Return, Shape, TablesOK
<1>3. CASE thread[t].op = "execute"
  <2> DEFINE p == [thread[t] EXCEPT !.pc = "record"]
  <2>1. p \in ThreadState /\ PlaceOK(p, Made)
    BY <1>1, <1>3 DEF ThreadState, PlaceOK, PC, Request
  <2>2. thread' = [thread EXCEPT ![t] = p]
    BY <1>3 DEF Return, Goto
  <2> QED
    BY <1>2, <2>1, <2>2
<1>4. CASE thread[t].op # "execute"
  <2> DEFINE p == [thread[t] EXCEPT !.pc = "refresh", !.work = Tail(@)]
  <2>1. thread[t].work \in Seq(Made) /\ thread[t].work # <<>>
    BY <1>1, <1>4 DEF PlaceOK
  <2>2. Tail(thread[t].work) \in Seq(Made) /\ Tail(thread[t].work) \in Seq(Object)
    BY <2>1, HeadAndTail, MadeObjects DEF Shape, TablesOK
  <2>3. p \in ThreadState /\ PlaceOK(p, Made)
    BY <1>1, <1>4, <2>2 DEF ThreadState, PlaceOK, PC, Request
  <2>4. thread' = [thread EXCEPT ![t] = p]
    BY <1>4 DEF Return
  <2> QED
    BY <1>2, <2>3, <2>4
<1> QED
  BY <1>3, <1>4

\* An exception drops whatever the thread had in hand.
LEMMA EscapeIsPlaced ==
    ASSUME Shape, NEW t \in Thread, Escape(t)
    PROVE  /\ \E p \in ThreadState : thread' = [thread EXCEPT ![t] = p] /\ PlaceOK(p, Made)
           /\ lock' \in [Object -> Thread \cup {None}]
BY IdleIsPlaced DEF Escape, Shape, TablesOK

\* The same devices at the same addresses, one of them changed by a method.
LEMMA DeviceChanges ==
    ASSUME Shape, NEW o \in Object, NEW d \in DeviceState, d.address = dev[o].address,
           dev' = [dev EXCEPT ![o] = d]
    PROVE  /\ dev' \in [Object -> DeviceState]
           /\ \A q \in Made : dev'[q].address = dev[q].address
BY MadeObjects DEF Shape, TablesOK

\* The steps of Device.refresh.
LEMMA TalkingShape ==
    ASSUME Shape, NEW t \in Thread,
           \/ BeginRefresh(t) \/ ConnectOpens(t) \/ ConnectFails(t)
           \/ ReadDone(t) \/ ReadFails(t) \/ ReadRefused(t)
    PROVE  Shape'
<1> DEFINE o == Current(t)
           Placed == \E p \in ThreadState : thread' = [thread EXCEPT ![t] = p] /\ PlaceOK(p, Made)
           Devices == /\ dev' \in [Object -> DeviceState]
                      /\ \A q \in Made : dev'[q].address = dev[q].address
<1>1. thread[t] \in ThreadState /\ PlaceOK(thread[t], Made)
  BY PlacedThread
<1>2. /\ o \in Made /\ o \in Object /\ dev[o] \in DeviceState
  BY CurrentIsMade
     DEF BeginRefresh, ConnectOpens, ConnectFails, ReadDone, ReadFails, ReadRefused, At, Shape, TablesOK
<1>3. ASSUME Placed, Devices, lock' \in [Object -> Thread \cup {None}],
             UNCHANGED <<devices, created, appLock, up, requests, outages>>
      PROVE  Shape'
  BY <1>3, ShapeMoves DEF Shape, TablesOK
<1>4. UNCHANGED dev => Devices
  BY DEF Shape, TablesOK
<1>5. CASE BeginRefresh(t)
  <2>1. lock' \in [Object -> Thread \cup {None}]
    BY <1>5 DEF BeginRefresh, Shape, TablesOK
  <2>2. CASE Goto(t, "connect") /\ UNCHANGED dev
    <3>1. PlaceOK([thread[t] EXCEPT !.pc = "connect"], Made)
      BY <1>1, <1>5 DEF BeginRefresh, At, PlaceOK, ThreadState, Request
    <3> QED
      BY <1>3, <1>4, <1>5, <2>1, <2>2, <3>1, GotoIsPlaced DEF BeginRefresh, tableVars, worldVars, PC
  <2>3. CASE Goto(t, "read") /\ dev' = [dev EXCEPT ![o] = Reading(@)]
    <3>1. PlaceOK([thread[t] EXCEPT !.pc = "read"], Made)
      BY <1>1, <1>5 DEF BeginRefresh, At, PlaceOK, ThreadState, Request
    <3>2. Devices
      BY <1>2, <2>3, DeviceChanges, DeviceMethods DEF Down
    <3> QED
      BY <1>3, <1>5, <2>1, <2>3, <3>1, <3>2, GotoIsPlaced DEF BeginRefresh, tableVars, worldVars, PC
  <2> QED
    BY <1>5, <2>2, <2>3 DEF BeginRefresh
<1>6. CASE ConnectOpens(t)
  <2>1. Placed
    <3>1. PlaceOK([thread[t] EXCEPT !.pc = "dispatch"], Made) \/ thread[t].op # "execute"
      BY <1>1, <1>6 DEF ConnectOpens, At, PlaceOK, ThreadState, Request
    <3>2. PlaceOK([thread[t] EXCEPT !.pc = "read"], Made)
      BY <1>1, <1>6 DEF ConnectOpens, At, PlaceOK, ThreadState, Request
    <3> QED
      BY <1>6, <3>1, <3>2, GotoIsPlaced DEF ConnectOpens, PC
  <2>2. Devices
    <3>1. Connected(dev[o]) \in DeviceState /\ Connected(dev[o]).address = dev[o].address
      BY <1>2, DeviceMethods DEF Down
    <3>2. Reading(Connected(dev[o])) \in DeviceState /\ Reading(Connected(dev[o])).address = dev[o].address
      BY <3>1, DeviceMethods DEF Down
    <3>3. dev' = [dev EXCEPT ![o] = Connected(@)] \/ dev' = [dev EXCEPT ![o] = Reading(Connected(@))]
      BY <1>6 DEF ConnectOpens
    <3> QED
      BY <1>2, <3>1, <3>2, <3>3, DeviceChanges
  <2> QED
    BY <1>3, <1>6, <2>1, <2>2 DEF ConnectOpens, tableVars, worldVars, Shape, TablesOK
<1>7. CASE ConnectFails(t)
  <2>1. Devices
    <3>1. PICK reason \in Down : dev' = [dev EXCEPT ![o] = MarkDown(@, reason)]
      BY <1>7 DEF ConnectFails
    <3> QED
      BY <1>2, <3>1, DeviceChanges, DeviceMethods
  <2> QED
    BY <1>3, <1>7, <2>1, ReturnIsPlaced DEF ConnectFails, At, tableVars, worldVars
<1>8. CASE ReadDone(t)
  BY <1>3, <1>4, <1>8, ReturnIsPlaced DEF ReadDone, At, tableVars, worldVars
<1>9. CASE ReadFails(t)
  <2>1. Devices
    BY <1>2, <1>4, <1>9, DeviceChanges, DeviceMethods DEF ReadFails, Down
  <2> QED
    BY <1>3, <1>9, <2>1, ReturnIsPlaced DEF ReadFails, At, tableVars, worldVars
<1>10. CASE ReadRefused(t)
  BY <1>3, <1>4, <1>10, EscapeIsPlaced DEF ReadRefused, tableVars, worldVars
<1> QED
  BY <1>5, <1>6, <1>7, <1>8, <1>9, <1>10

\* The steps of evaluate, and the observe of add.
LEMMA EvaluatingShape ==
    ASSUME Shape, NEW t \in Thread,
           Evaluate(t) \/ CopyState(t) \/ CopyAdded(t) \/ Observe(t)
    PROVE  Shape'
<1> DEFINE o == Current(t)
           Placed == \E p \in ThreadState : thread' = [thread EXCEPT ![t] = p] /\ PlaceOK(p, Made)
<1>1. thread[t] \in ThreadState /\ PlaceOK(thread[t], Made)
  BY PlacedThread
<1>2. Idle \in ThreadState /\ PlaceOK(Idle, Made)
  BY IdleIsPlaced
<1>3. devices \in Seq(Made) /\ devices \in Seq(Object)
  BY DEF Shape, TablesOK
<1>4. ASSUME Placed, UNCHANGED <<tableVars, dev, lock, worldVars>> PROVE Shape'
  BY <1>4, ShapeQuiet DEF tableVars, worldVars
<1>5. CASE Evaluate(t)
  <2>1. CASE devices = <<>>
    BY <1>2, <1>4, <1>5, <2>1 DEF Evaluate
  <2>2. CASE devices # <<>>
    <3> DEFINE p == [thread[t] EXCEPT !.pc = "evaluate", !.work = devices]
    <3>1. p \in ThreadState /\ PlaceOK(p, Made)
      BY <1>1, <1>3, <1>5, <2>2 DEF Evaluate, At, ThreadState, PlaceOK, PC, Request
    <3>2. thread' = [thread EXCEPT ![t] = p]
      BY <1>5, <2>2 DEF Evaluate
    <3> QED
      BY <1>4, <1>5, <3>1, <3>2 DEF Evaluate
  <2> QED
    BY <2>1, <2>2
<1>6. CASE CopyState(t)
  <2> DEFINE p == [thread[t] EXCEPT !.pc = "observe", !.seen = dev[o].reachability]
  <2>1. dev[o].reachability \in Reachability
    BY <1>6, CurrentIsMade DEF CopyState, At, Shape, TablesOK, DeviceState
  <2>2. p \in ThreadState /\ PlaceOK(p, Made)
    BY <1>1, <1>6, <2>1 DEF CopyState, At, ThreadState, PlaceOK, PC, Request
  <2>3. thread' = [thread EXCEPT ![t] = p]
    BY <1>6 DEF CopyState
  <2> QED
    BY <1>4, <1>6, <2>2, <2>3 DEF CopyState
<1>7. CASE CopyAdded(t)
  <2> DEFINE q == thread[t].object
             p == [thread[t] EXCEPT !.pc = "observe", !.work = <<q>>, !.seen = dev[q].reachability]
  <2>1. q \in Made /\ q \in Object
    BY <1>1, <1>7, MadeObjects DEF CopyAdded, At, PlaceOK, Shape, TablesOK
  <2>2. dev[q].reachability \in Reachability
    BY <2>1 DEF Shape, TablesOK, DeviceState
  <2>3. <<q>> \in Seq(Made) /\ <<q>> \in Seq(Object) /\ <<q>> # <<>>
    BY <2>1
  <2>4. p \in ThreadState /\ PlaceOK(p, Made)
    BY <1>1, <1>7, <2>2, <2>3 DEF CopyAdded, At, ThreadState, PlaceOK, PC, Request
  <2>5. thread' = [thread EXCEPT ![t] = p]
    BY <1>7 DEF CopyAdded
  <2> QED
    BY <1>4, <1>7, <2>4, <2>5 DEF CopyAdded
<1>8. CASE Observe(t)
  <2>1. "unknown" \in Reachability /\ <<>> \in Seq(Made) /\ <<>> \in Seq(Object)
    BY DEF Reachability
  <2>2. CASE thread[t].op = "add"
    <3> DEFINE p == [thread[t] EXCEPT !.pc = "save", !.work = <<>>, !.seen = "unknown"]
    <3>1. p \in ThreadState /\ PlaceOK(p, Made)
      BY <1>1, <1>8, <2>1, <2>2 DEF Observe, At, ThreadState, PlaceOK, PC, Request
    <3>2. thread' = [thread EXCEPT ![t] = p]
      BY <1>8, <2>2 DEF Observe
    <3> QED
      BY <1>4, <1>8, <3>1, <3>2 DEF Observe
  <2>3. CASE thread[t].op # "add" /\ Len(thread[t].work) = 1
    BY <1>2, <1>4, <1>8, <2>3 DEF Observe
  <2>4. CASE thread[t].op # "add" /\ Len(thread[t].work) # 1
    <3> DEFINE p == [thread[t] EXCEPT !.pc = "evaluate", !.work = Tail(@), !.seen = "unknown"]
    <3>1. thread[t].work \in Seq(Made) /\ thread[t].work # <<>>
      BY <1>1, <1>8, <2>4 DEF Observe, At, PlaceOK
    <3>2. Tail(thread[t].work) \in Seq(Made) /\ Tail(thread[t].work) \in Seq(Object)
      BY <3>1, HeadAndTail, MadeObjects DEF Shape, TablesOK
    <3>3. Tail(thread[t].work) # <<>>
      BY <2>4, <3>1, LongerThanOne
    <3>4. p \in ThreadState /\ PlaceOK(p, Made)
      BY <1>1, <1>8, <2>1, <2>4, <3>2, <3>3 DEF Observe, At, ThreadState, PlaceOK, PC, Request
    <3>5. thread' = [thread EXCEPT ![t] = p]
      BY <1>8, <2>4 DEF Observe
    <3> QED
      BY <1>4, <1>8, <3>4, <3>5 DEF Observe
  <2> QED
    BY <2>2, <2>3, <2>4
<1> QED
  BY <1>5, <1>6, <1>7, <1>8

\* What is listed has been created.
LEMMA ListedIsMade ==
    ASSUME Shape
    PROVE  /\ \A o : Listed(o) => o \in Made
           /\ \A a : ObjectsAt(a) \subseteq Made
<1>1. ASSUME NEW o, Listed(o) PROVE o \in Made
  <2>1. PICK i \in DOMAIN devices : devices[i] = o
    BY <1>1 DEF Listed
  <2>2. DOMAIN devices = 1..Len(devices)
    BY LenProperties DEF Shape
  <2> QED
    BY <2>1, <2>2, ElementOfSeq DEF Shape
<1> QED
  BY <1>1 DEF ObjectsAt

\* A sequence with its i-th element taken out, which is what remove does.
LEMMA CutProperties ==
    ASSUME NEW S, NEW s \in Seq(S), NEW i \in 1..Len(s), NEW cut,
           cut = SubSeq(s, 1, i - 1) \o SubSeq(s, i + 1, Len(s))
    PROVE  /\ cut \in Seq(S)
           /\ DOMAIN cut = 1..(Len(s) - 1)
           /\ \A j \in 1..(Len(s) - 1) :
                (j < i => cut[j] = s[j]) /\ (~(j < i) => cut[j] = s[j + 1])
<1>1. PICK n \in Nat : n = Len(s) /\ i \in 1..n /\ \A j \in 1..n : s[j] \in S
  BY LenProperties, ElementOfSeq
<1>2. PICK front \in Seq(S) :
         /\ front = SubSeq(s, 1, i - 1) /\ Len(front) = i - 1
         /\ \A j \in 1..(i - 1) : front[j] = s[j]
  <2>1. 1 \in Int /\ i - 1 \in Int /\ \A j \in 1..(i - 1) : s[j] \in S
    BY <1>1
  <2>2. /\ SubSeq(s, 1, i - 1) \in Seq(S)
        /\ Len(SubSeq(s, 1, i - 1)) = IF 1 <= i - 1 THEN (i - 1) - 1 + 1 ELSE 0
        /\ \A j \in 1..((i - 1) - 1 + 1) : SubSeq(s, 1, i - 1)[j] = s[1 + j - 1]
    BY <2>1, SubSeqProperties
  <2>3. Len(SubSeq(s, 1, i - 1)) = i - 1
    BY <1>1, <2>2
  <2>4. \A j \in 1..(i - 1) : SubSeq(s, 1, i - 1)[j] = s[j]
    <3>1. (i - 1) - 1 + 1 = i - 1 /\ \A j \in 1..(i - 1) : 1 + j - 1 = j
      BY <1>1
    <3> QED
      BY <2>2, <3>1
  <2> QED
    BY <2>2, <2>3, <2>4, Zenon
<1>3. PICK back \in Seq(S) :
         /\ back = SubSeq(s, i + 1, n) /\ Len(back) = n - i
         /\ \A j \in 1..(n - i) : back[j] = s[i + j]
  <2>1. i + 1 \in Int /\ n \in Int /\ \A j \in (i + 1)..n : s[j] \in S
    BY <1>1
  <2>2. /\ SubSeq(s, i + 1, n) \in Seq(S)
        /\ Len(SubSeq(s, i + 1, n)) = IF i + 1 <= n THEN n - (i + 1) + 1 ELSE 0
        /\ \A j \in 1..(n - (i + 1) + 1) : SubSeq(s, i + 1, n)[j] = s[(i + 1) + j - 1]
    BY <2>1, SubSeqProperties
  <2>3. Len(SubSeq(s, i + 1, n)) = n - i
    BY <1>1, <2>2
  <2>4. \A j \in 1..(n - i) : SubSeq(s, i + 1, n)[j] = s[i + j]
    <3>1. n - (i + 1) + 1 = n - i /\ \A j \in 1..(n - i) : (i + 1) + j - 1 = i + j
      BY <1>1
    <3> QED
      BY <2>2, <3>1
  <2> QED
    BY <2>2, <2>3, <2>4, Zenon
<1>4. cut = front \o back
  BY <1>1, <1>2, <1>3
<1>5. /\ cut \in Seq(S)
      /\ Len(cut) = Len(front) + Len(back)
      /\ \A j \in 1..(Len(front) + Len(back)) :
            cut[j] = IF j <= Len(front) THEN front[j] ELSE back[j - Len(front)]
  BY <1>4, ConcatProperties
<1>6. Len(front) + Len(back) = n - 1
  <2>1. Len(front) = i - 1 /\ Len(back) = n - i
    BY <1>2, <1>3
  <2>2. i \in Int /\ n \in Int
    BY <1>1
  <2> QED
    BY <2>1, <2>2
<1>7. DOMAIN cut = 1..(n - 1)
  <2>1. DOMAIN cut = 1..Len(cut)
    BY <1>5, LenProperties
  <2> QED
    BY <1>5, <1>6, <2>1
<1>8. \A j \in 1..(n - 1) : cut[j] = IF j <= i - 1 THEN front[j] ELSE back[j - (i - 1)]
  <2>1. Len(front) = i - 1
    BY <1>2
  <2> QED
    BY <1>5, <1>6, <2>1
<1>9. \A j \in 1..(n - 1) : (j < i => cut[j] = s[j]) /\ (~(j < i) => cut[j] = s[j + 1])
  <2> TAKE j \in 1..(n - 1)
  <2>1. CASE j < i
    <3>1. j <= i - 1 /\ j \in 1..(i - 1)
      BY <1>1, <2>1
    <3> QED
      BY <1>2, <1>8, <2>1, <3>1
  <2>2. CASE ~(j < i)
    <3>1. j - (i - 1) \in 1..(n - i) /\ i + (j - (i - 1)) = j + 1 /\ ~(j <= i - 1)
      BY <1>1, <2>2
    <3>2. cut[j] = back[j - (i - 1)]
      BY <1>8, <3>1
    <3> QED
      BY <1>3, <2>2, <3>1, <3>2
  <2> QED
    BY <2>1, <2>2
<1> QED
  BY <1>1, <1>5, <1>7, <1>9

\* The steps of add and remove that create nothing.
LEMMA MembershipShape ==
    ASSUME Shape, NEW t \in Thread,
           \/ AddExisting(t) \/ AddReplacing(t) \/ CloseReplaced(t)
           \/ RemoveUnknown(t) \/ Remove(t) \/ CloseRemoved(t) \/ Forget(t) \/ Save(t)
    PROVE  Shape'
<1> DEFINE Placed == \E p \in ThreadState : thread' = [thread EXCEPT ![t] = p] /\ PlaceOK(p, Made)
<1>1. thread[t] \in ThreadState /\ PlaceOK(thread[t], Made)
  BY PlacedThread
<1>2. Made \subseteq Object /\ 0 \notin Made
  BY MadeObjects DEF Shape, TablesOK
<1>3. ASSUME Placed, UNCHANGED <<tableVars, dev, lock, worldVars>> PROVE Shape'
  BY <1>3, ShapeQuiet DEF tableVars, worldVars
<1>4. CASE AddExisting(t)
  <2>1. PICK o \in ObjectsAt(thread[t].address) : StartForced(t, o)
    BY <1>4 DEF AddExisting
  <2> DEFINE p == [thread[t] EXCEPT !.pc = "refresh", !.object = o, !.work = <<o>>]
  <2>2. o \in Made /\ o \in Object /\ <<o>> \in Seq(Made) /\ <<o>> \in Seq(Object) /\ <<o>> # <<>>
    BY <1>2, ListedIsMade
  <2>3. p \in ThreadState /\ PlaceOK(p, Made)
    BY <1>1, <1>2, <1>4, <2>2 DEF AddExisting, At, ThreadState, PlaceOK, PC, Request
  <2>4. thread' = [thread EXCEPT ![t] = p]
    BY <2>1 DEF StartForced
  <2> QED
    BY <1>3, <1>4, <2>3, <2>4 DEF AddExisting
<1>5. CASE AddReplacing(t)
  <2>1. PICK o \in ObjectsAt(thread[t].address) :
            thread' = [thread EXCEPT ![t].pc = "replace", ![t].object = o]
    BY <1>5 DEF AddReplacing
  <2> DEFINE p == [thread[t] EXCEPT !.pc = "replace", !.object = o]
  <2>2. o \in Made /\ o \in Object
    BY <1>2, ListedIsMade
  <2>3. p \in ThreadState /\ PlaceOK(p, Made)
    BY <1>1, <1>2, <1>5, <2>2 DEF AddReplacing, At, ThreadState, PlaceOK, PC, Request
  <2>4. thread' = [thread EXCEPT ![t] = p]
    BY <2>1
  <2> QED
    BY <1>5, <2>3, <2>4, ShapeMoves DEF AddReplacing, worldVars, Shape, TablesOK
<1>6. ASSUME NEW o \in Made, NEW pc \in PC, dev' = [dev EXCEPT ![o] = Close(@)], Goto(t, pc),
             PlaceOK([thread[t] EXCEPT !.pc = pc], Made), UNCHANGED <<tableVars, lock, worldVars>>
      PROVE  Shape'
  <2>1. Placed
    BY <1>6, GotoIsPlaced
  <2>2. o \in Object /\ dev[o] \in DeviceState
    BY <1>2 DEF Shape, TablesOK
  <2>3. Close(dev[o]) \in DeviceState /\ Close(dev[o]).address = dev[o].address
    BY <2>2, DeviceMethods DEF Down
  <2>4. dev' \in [Object -> DeviceState] /\ \A q \in Made : dev'[q].address = dev[q].address
    BY <1>6, <2>2, <2>3, DeviceChanges
  <2> QED
    BY <1>6, <2>1, <2>4, ShapeMoves DEF tableVars, worldVars, Shape, TablesOK
<1>7. CASE CloseReplaced(t)
  <2>1. PlaceOK([thread[t] EXCEPT !.pc = "swap"], Made) /\ thread[t].object \in Made
    BY <1>1, <1>7 DEF CloseReplaced, At, PlaceOK, ThreadState, Request
  <2> QED
    BY <1>6, <1>7, <2>1 DEF CloseReplaced, PC
<1>8. CASE RemoveUnknown(t)
  BY <1>3, <1>8, IdleIsPlaced DEF RemoveUnknown
<1>9. CASE Remove(t)
  <2>1. PICK i \in DOMAIN devices :
            /\ devices' = SubSeq(devices, 1, i - 1) \o SubSeq(devices, i + 1, Len(devices))
            /\ thread' = [thread EXCEPT ![t].pc = "close", ![t].object = devices[i]]
    BY <1>9 DEF Remove
  <2> DEFINE o == devices[i]
             p == [thread[t] EXCEPT !.pc = "close", !.object = o]
  <2>2. devices \in Seq(Made) /\ i \in 1..Len(devices)
    BY LenProperties DEF Shape
  <2>3. o \in Made /\ o \in Object
    BY <1>2, <2>2, ElementOfSeq
  <2>4. devices' \in Seq(Made)
    BY <2>1, <2>2, CutProperties
  <2>5. p \in ThreadState /\ PlaceOK(p, Made)
    BY <1>1, <1>2, <1>9, <2>3 DEF Remove, At, ThreadState, PlaceOK, PC, Request
  <2>6. thread' = [thread EXCEPT ![t] = p]
    BY <2>1
  <2> QED
    BY <1>9, <2>4, <2>5, <2>6, ShapeMoves DEF Remove, worldVars, Shape, TablesOK
<1>10. CASE CloseRemoved(t)
  <2>1. PlaceOK([thread[t] EXCEPT !.pc = "forget"], Made) /\ thread[t].object \in Made
    BY <1>1, <1>10 DEF CloseRemoved, At, PlaceOK, ThreadState, Request
  <2> QED
    BY <1>6, <1>10, <2>1 DEF CloseRemoved, PC
<1>11. CASE Forget(t)
  <2>1. PlaceOK([thread[t] EXCEPT !.pc = "save"], Made)
    BY <1>1, <1>11 DEF Forget, At, PlaceOK, ThreadState, Request
  <2> QED
    BY <1>3, <1>11, <2>1, GotoIsPlaced DEF Forget, PC
<1>12. CASE Save(t)
  BY <1>3, <1>12, IdleIsPlaced DEF Save
<1> QED
  BY <1>4, <1>5, <1>7, <1>8, <1>9, <1>10, <1>11, <1>12

\* A fresh Device, wherever it is.
LEMMA NewDeviceIsTyped ==
    ASSUME NEW a \in Address \cup {None}, NEW ports \in Ports
    PROVE  NewDevice(a, ports) \in DeviceState /\ NewDevice(a, ports).address = a
<1>1. FirstBackoff \in FirstBackoff..MaxBackoff /\ 0 \in 0..MaxBackoff
  BY BackoffAssumption
<1> QED
  BY <1>1 DEF NewDevice, DeviceState, Session, Reachability

\* add makes a device: in a place of its own, or in the place of another.
LEMMA CreatingShape ==
    ASSUME Shape, NEW t \in Thread, AddNew(t) \/ Swap(t)
    PROVE  Shape'
<1> DEFINE o == created + 1
           p == [thread[t] EXCEPT !.pc = "refresh", !.object = o, !.work = <<o>>]
<1>1. thread[t] \in ThreadState /\ PlaceOK(thread[t], Made)
  BY PlacedThread
<1>2. /\ o \in Object /\ created' = o
      /\ thread' = [thread EXCEPT ![t] = p]
      /\ UNCHANGED <<lock, worldVars>>
  BY DEF AddNew, Swap, StartForced
<1>3. /\ created \in Nat /\ created < created'
      /\ Made \subseteq Made' /\ o \in Made' /\ o \notin Made /\ 0 \notin Made'
      /\ Made' \subseteq Object
  BY <1>2, ObjectNumbers DEF Made, Object, Shape, TablesOK
<1>4. /\ thread' \in [Thread -> ThreadState]
      /\ \A u \in Thread : PlaceOK(thread'[u], Made')
  <2>1. <<o>> \in Seq(Made') /\ <<o>> \in Seq(Object) /\ <<o>> # <<>>
    BY <1>2, <1>3
  <2>2. p \in ThreadState
    BY <1>1, <1>2, <2>1 DEF ThreadState, PC
  <2>3. p.op = "add"
    BY <1>1 DEF AddNew, Swap, At, PlaceOK, ThreadState
  <2>4. /\ p.pc = "refresh" /\ p.work = <<o>> /\ p.object = o /\ o # 0
    BY <1>1, <1>3 DEF ThreadState
  <2>5. PlaceOK(p, Made')
    <3> HIDE DEF p
    <3> QED
      BY <1>3, <2>1, <2>3, <2>4 DEF PlaceOK, Request
  <2>6. created' \in Object \cup {0} /\ created <= created'
    BY <1>2, <1>3
  <2> QED
    <3> HIDE DEF p, o
    <3> QED
      BY <1>2, <2>2, <2>5, <2>6, OthersStay
<1>5. PICK a \in Address : dev' = [dev EXCEPT ![o] = NewDevice(a, HttpPorts)]
  <2>1. CASE AddNew(t)
    BY <1>1, <2>1 DEF AddNew, At, PlaceOK, Request
  <2>2. CASE Swap(t)
    <3>1. thread[t].object \in Made
      BY <1>1, <2>2 DEF Swap, At, PlaceOK
    <3> QED
      BY <2>2, <3>1 DEF Swap, AddressOf, Shape
  <2> QED
    BY <2>1, <2>2
<1>6. /\ dev' \in [Object -> DeviceState]
      /\ \A q \in Made' : dev'[q].address \in Address
  <2>1. NewDevice(a, HttpPorts) \in DeviceState /\ NewDevice(a, HttpPorts).address = a
    BY NewDeviceIsTyped, ConfigAssumption
  <2>2. dev' \in [Object -> DeviceState]
    BY <1>5, <2>1 DEF Shape, TablesOK
  <2>3. ASSUME NEW q \in Made', q # o PROVE q \in Made /\ q \in Object
    BY <1>2, <1>3, <2>3, ObjectNumbers DEF Made, Object
  <2> QED
    BY <1>2, <1>5, <2>1, <2>2, <2>3 DEF Shape, TablesOK
<1>7. devices' \in Seq(Made')
  <2>1. devices \in Seq(Made')
    BY <1>3, SeqMonotonic DEF Shape
  <2>2. CASE AddNew(t)
    BY <1>3, <2>1, <2>2, AppendProperties DEF AddNew
  <2>3. CASE Swap(t)
    <3>1. /\ DOMAIN devices = 1..Len(devices) /\ Len(devices) \in Nat
          /\ \A i \in 1..Len(devices) : devices[i] \in Made'
      BY <2>1, LenProperties, ElementOfSeq
    <3>2. devices' \in [1..Len(devices) -> Made']
      BY <1>3, <2>3, <3>1 DEF Swap
    <3> QED
      BY <3>1, <3>2, SeqDef
  <2> QED
    BY <2>2, <2>3
<1>8. devices' \in Seq(Object)
  BY <1>3, <1>7, SeqMonotonic
<1>9. appLock' \in Thread \cup {None}
  BY DEF AddNew, Swap, Shape, TablesOK
<1> QED
  BY <1>2, <1>4, <1>6, <1>7, <1>8, <1>9 DEF Shape, TablesOK, worldVars

\* The steps of execute.
LEMMA CommandingShape ==
    ASSUME Shape, NEW t \in Thread, Commanding(t)
    PROVE  Shape'
<1> DEFINE Placed == \E p \in ThreadState : thread' = [thread EXCEPT ![t] = p] /\ PlaceOK(p, Made)
           Locks == lock' \in [Object -> Thread \cup {None}]
           Devices == /\ dev' \in [Object -> DeviceState]
                      /\ \A q \in Made : dev'[q].address = dev[q].address
<1>1. thread[t] \in ThreadState /\ PlaceOK(thread[t], Made)
  BY PlacedThread
<1>2. Made \subseteq Object /\ 0 \notin Made
  BY MadeObjects DEF Shape, TablesOK
<1>3. ASSUME Placed, Locks, Devices, UNCHANGED <<tableVars, worldVars>> PROVE Shape'
  BY <1>3, ShapeMoves DEF tableVars, worldVars, Shape, TablesOK
<1>4. (UNCHANGED dev => Devices) /\ (UNCHANGED lock => Locks)
  BY DEF Shape, TablesOK
<1>5. CASE ExecuteUnknown(t)
  <2>1. PlaceOK([thread[t] EXCEPT !.pc = "record"], Made)
    BY <1>1, <1>5 DEF ExecuteUnknown, At, PlaceOK, ThreadState, Request
  <2> QED
    BY <1>3, <1>4, <1>5, <2>1, GotoIsPlaced DEF ExecuteUnknown, PC
<1>6. CASE Execute(t)
  <2>1. PICK o \in ObjectsAt(thread[t].address) :
            thread' = [thread EXCEPT ![t].pc = "command", ![t].object = o]
    BY <1>6 DEF Execute
  <2> DEFINE p == [thread[t] EXCEPT !.pc = "command", !.object = o]
  <2>2. o \in Made /\ o \in Object
    BY <1>2, ListedIsMade
  <2>3. p \in ThreadState /\ PlaceOK(p, Made)
    BY <1>1, <1>2, <1>6, <2>2 DEF Execute, At, ThreadState, PlaceOK, PC, Request
  <2>4. thread' = [thread EXCEPT ![t] = p]
    BY <2>1
  <2> QED
    BY <1>3, <1>4, <1>6, <2>3, <2>4 DEF Execute
<1>7. CASE Command(t)
  <2>1. Locks
    BY <1>7 DEF Command, Shape, TablesOK
  <2>2. PlaceOK([thread[t] EXCEPT !.pc = "connect"], Made)
        /\ PlaceOK([thread[t] EXCEPT !.pc = "dispatch"], Made)
    BY <1>1, <1>7 DEF Command, At, PlaceOK, ThreadState, Request
  <2> QED
    BY <1>3, <1>4, <1>7, <2>1, <2>2, GotoIsPlaced DEF Command, PC
<1>8. CASE DispatchDone(t)
  <2>1. PlaceOK([thread[t] EXCEPT !.pc = "read"], Made)
    BY <1>1, <1>8 DEF DispatchDone, At, PlaceOK, ThreadState, Request
  <2>2. Current(t) \in Object /\ dev[Current(t)] \in DeviceState
    BY <1>8, CurrentIsMade DEF DispatchDone, At, Shape, TablesOK
  <2>3. Devices
    BY <1>8, <2>2, DeviceChanges, DeviceMethods DEF DispatchDone, Down
  <2> QED
    BY <1>3, <1>4, <1>8, <2>1, <2>3, GotoIsPlaced DEF DispatchDone, PC
<1>9. CASE DispatchRefused(t)
  BY <1>3, <1>4, <1>9, ReturnIsPlaced DEF DispatchRefused, At
<1>10. CASE DispatchLost(t)
  <2>1. Current(t) \in Object /\ dev[Current(t)] \in DeviceState
    BY <1>10, CurrentIsMade DEF DispatchLost, At, Shape, TablesOK
  <2>2. Devices
    BY <1>10, <2>1, DeviceChanges, DeviceMethods DEF DispatchLost, Down
  <2> QED
    BY <1>3, <1>10, <2>2, ReturnIsPlaced DEF DispatchLost, At
<1>11. CASE DispatchEscapes(t)
  BY <1>3, <1>4, <1>11, EscapeIsPlaced DEF DispatchEscapes
<1>12. CASE Record(t)
  BY <1>3, <1>4, <1>12, IdleIsPlaced DEF Record
<1> QED
  BY <1>5, <1>6, <1>7, <1>8, <1>9, <1>10, <1>11, <1>12 DEF Commanding

\* A request comes in.
LEMMA AcceptShape ==
    ASSUME Shape, NEW t \in Handler, NEW op \in Request, NEW a \in Address, Accept(t, op, a)
    PROVE  Shape'
<1> DEFINE p == [Idle EXCEPT !.pc = op, !.op = op, !.address = a]
<1>1. Idle \in ThreadState /\ PlaceOK(Idle, Made)
  BY IdleIsPlaced
<1>2. p \in ThreadState /\ PlaceOK(p, Made)
  <2>1. /\ p.pc = op /\ p.op = op /\ p.address = a
        /\ p.work = <<>> /\ p.object = 0
    BY DEF Idle
  <2>2. p \in ThreadState
    BY <1>1 DEF ThreadState, PC, Request
  <2>3. <<>> \in Seq(Made)
    OBVIOUS
  <2>4. PlaceOK(p, Made)
    <3> HIDE DEF p
    <3> QED
      BY <2>1, <2>3 DEF PlaceOK, Request
  <2> QED
    BY <2>2, <2>4
<1>3. requests' \in 0..MaxRequest
  BY ConfigAssumption DEF Accept, Shape, TablesOK
<1>4. thread' = [thread EXCEPT ![t] = p] /\ t \in Thread
  BY DEF Accept, Thread
<1> QED
  BY <1>2, <1>3, <1>4, ShapeMoves DEF Accept, tableVars, Shape, TablesOK

\* The world touches no table and no thread.
LEMMA WorldShape ==
    ASSUME Shape, (\E a \in Address : PowerOff(a) \/ PowerOn(a)) \/ Tick
    PROVE  Shape'
<1> DEFINE Devices == /\ dev' \in [Object -> DeviceState]
                      /\ \A q \in Made : dev'[q].address = dev[q].address
<1>1. ASSUME Devices, up' \in [Address -> BOOLEAN], outages' \in 0..MaxOutage,
             UNCHANGED <<tableVars, lock, thread, requests>>
      PROVE  Shape'
  BY <1>1 DEF tableVars, Shape, TablesOK, Made
<1>2. ASSUME NEW a \in Address, PowerOff(a) PROVE Shape'
  <2>1. Devices
    BY <1>2, MadeObjects DEF PowerOff, Shape, TablesOK, DeviceState, Session
  <2>2. outages' \in 0..MaxOutage
    BY <1>2, ConfigAssumption DEF PowerOff, Shape, TablesOK
  <2> QED
    BY <1>1, <1>2, <2>1, <2>2 DEF PowerOff, Shape, TablesOK
<1>3. ASSUME NEW a \in Address, PowerOn(a) PROVE Shape'
  BY <1>1, <1>3 DEF PowerOn, Shape, TablesOK
<1>4. CASE Tick
  <2>1. Devices
    <3>1. \A o \in Object : dev[o].retry_in \in 0..MaxBackoff /\ dev[o] \in DeviceState
      BY DEF Shape, TablesOK, DeviceState
    <3>2. \A o \in Object : dev[o].retry_in > 0 => dev[o].retry_in - 1 \in 0..MaxBackoff
      BY <3>1, BackoffAssumption
    <3> QED
      BY <1>4, <3>1, <3>2, MadeObjects DEF Tick, Shape, TablesOK, DeviceState
  <2> QED
    BY <1>1, <1>4, <2>1 DEF Tick, worldVars, Shape, TablesOK
<1> QED
  BY <1>2, <1>3, <1>4

-----------------------------------------------------------------------------
(* Init *)

\* A device of the config file after its first refresh.
LEMMA RestoredIsTyped ==
    ASSUME NEW i \in DOMAIN Saved, NEW reason \in Down, up \in [Address -> BOOLEAN]
    PROVE  /\ Restored(Saved[i], reason) \in DeviceState
           /\ Restored(Saved[i], reason).address \in Address
<1>1. Saved[i] \in [address : Address, ports : Ports]
  <2>1. Saved \in Seq([address : Address, ports : Ports])
    BY ConfigAssumption
  <2>2. DOMAIN Saved = 1..Len(Saved)
    BY <2>1, LenProperties
  <2> QED
    BY <2>1, <2>2, ElementOfSeq
<1> DEFINE d == NewDevice(Saved[i].address, Saved[i].ports)
<1>2. d \in DeviceState /\ d.address = Saved[i].address /\ Saved[i].address \in Address
  BY <1>1, NewDeviceIsTyped
<1>3. Connected(d) \in DeviceState /\ Connected(d).address = d.address
      /\ MarkDown(d, reason) \in DeviceState /\ MarkDown(d, reason).address = d.address
  BY <1>2, DeviceMethods
<1>4. Reading(Connected(d)) \in DeviceState /\ Reading(Connected(d)).address = Connected(d).address
  BY <1>3, DeviceMethods
<1> HIDE DEF d
<1>5. Restored(Saved[i], reason) = IF up[Saved[i].address] THEN Reading(Connected(d)) ELSE MarkDown(d, reason)
  BY DEF Restored, d
<1> QED
  BY <1>2, <1>3, <1>4, <1>5

\* The shape holds at the start,
LEMMA InitShape == Init => Shape
<1> SUFFICES ASSUME Init PROVE Shape
  OBVIOUS
<1>1. DOMAIN Saved = 1..Len(Saved) /\ Len(Saved) \in Nat /\ MaxRequest \in Nat /\ MaxOutage \in Nat
  BY ConfigAssumption, LenProperties
<1>2. DOMAIN Saved = Made /\ created \in Object \cup {0} /\ Made \subseteq Object
  BY <1>1 DEF Init, Made, Object, MaxObject
<1>3. dev \in [Object -> DeviceState] /\ \A o \in Made : dev[o].address \in Address
  <2>1. PICK reason \in [DOMAIN Saved -> Down] :
          dev = [o \in Object |-> IF o \in DOMAIN Saved THEN Restored(Saved[o], reason[o]) ELSE Blank]
    BY DEF Init
  <2>2. \A o \in DOMAIN Saved : /\ Restored(Saved[o], reason[o]) \in DeviceState
                                /\ Restored(Saved[o], reason[o]).address \in Address
    BY RestoredIsTyped DEF Init
  <2>3. Blank \in DeviceState
    BY NewDeviceIsTyped, ConfigAssumption DEF Blank
  <2> QED
    BY <1>2, <2>1, <2>2, <2>3
<1>4. devices \in Seq(Made) /\ devices \in Seq(Object)
  <2>1. devices \in [1..Len(Saved) -> Made]
    BY <1>1, <1>2 DEF Init
  <2>2. devices \in Seq(Made)
    BY <1>1, <2>1, SeqDef
  <2> QED
    BY <1>2, <2>2, SeqMonotonic
<1>5. thread \in [Thread -> ThreadState] /\ \A t \in Thread : PlaceOK(thread[t], Made)
  BY IdleIsPlaced DEF Init
<1>6. outages \in 0..MaxOutage
  <2>1. IsFiniteSet({a \in Address : ~up[a]})
    BY ConfigAssumption, FS_Subset
  <2> QED
    BY <1>1, <2>1, FS_CardinalityType DEF Init
<1>7. TablesOK
  BY <1>1, <1>2, <1>3, <1>4, <1>5, <1>6 DEF Init, TablesOK
<1> QED
  BY <1>3, <1>4, <1>5, <1>7 DEF Shape

\* every step keeps it,
LEMMA NextShape ==
    ASSUME Shape, [Next]_vars
    PROVE  Shape'
<1>1. CASE \E t \in Thread : Step(t)
  BY <1>1, RefreshingShape, TalkingShape, EvaluatingShape, MembershipShape, CreatingShape,
     CommandingShape DEF Step, Refreshing, Membership
<1>2. CASE \E t \in Handler, op \in Request, a \in Address : Accept(t, op, a)
  BY <1>2, AcceptShape
<1>3. CASE LoopTick
  BY <1>3, RefreshingShape DEF Thread
<1>4. CASE (\E a \in Address : PowerOff(a) \/ PowerOn(a)) \/ Tick
  BY <1>4, WorldShape
<1>5. CASE UNCHANGED vars
  BY <1>5 DEF vars, tableVars, worldVars, Shape, TablesOK, Made
<1> QED
  BY <1>1, <1>2, <1>3, <1>4, <1>5 DEF Next

\* and so it always holds.
LEMMA ShapeHolds == Spec => []Shape
BY InitShape, NextShape, PTL DEF Spec

-----------------------------------------------------------------------------
(* The engine inside *)

EngineProofs == INSTANCE AlertEngine_proofs WITH
    Temperature <- {}, CabinetCount <- {}, Tunable <- {}, Configured <- {Thresholds}

(* The application's interleaved calls are calls of the alert engine and   *)
(* nothing else.                                                           *)
THEOREM EngineInside == Spec => Engine!Spec
<1>1. Init => Engine!Init
  BY DEF Init
<1>2. ASSUME Shape, [Next]_vars PROVE [Engine!Next]_(Engine!vars)
  <2>1. ASSUME NEW t \in Thread, Observe(t) PROVE Engine!Next
    <3> DEFINE s == [reachability |-> thread[t].seen, temperature_c |-> None, cabinets |-> None]
    <3>1. s \in Engine!Report
      BY <1>2, PlacedThread DEF ThreadState, Engine!Report, Reachability, Engine!Reachability
    <3>2. AddressOf(Current(t)) \in Address
      BY <1>2, <2>1, CurrentIsMade DEF Observe, At, AddressOf, Shape
    <3>3. Engine!Observe(AddressOf(Current(t)), s)
      BY <2>1 DEF Observe
    <3> QED
      BY <3>1, <3>2, <3>3 DEF Engine!Next
  <2>2. ASSUME NEW t \in Thread, Forget(t) PROVE Engine!Next
    <3>1. thread[t].address \in Address
      BY <1>2, <2>2, PlacedThread DEF Forget, At, PlaceOK
    <3> QED
      BY <2>2, <3>1 DEF Forget, Engine!Next
  <2>3. ASSUME NEW t \in Thread, Step(t), ~Observe(t), ~Forget(t) PROVE UNCHANGED engineVars
    BY <2>3 DEF Step, Refreshing, Membership, Commanding, RefreshOnRequest, RefreshAll, SkipRefresh,
       BeginRefresh, ConnectOpens, ConnectFails, ReadDone, ReadFails, ReadRefused, Evaluate,
       CopyState, CopyAdded, AddExisting, AddNew, AddReplacing, CloseReplaced, Swap,
       RemoveUnknown, Remove, CloseRemoved, Save, ExecuteUnknown, Execute, Command,
       DispatchDone, DispatchRefused, DispatchLost, DispatchEscapes, Record
  <2>4. CASE LoopTick \/ Tick \/ UNCHANGED vars
    BY <2>4 DEF LoopTick, RefreshAll, Tick, vars, engineVars, Engine!vars
  <2>5. CASE \E a \in Address : PowerOff(a) \/ PowerOn(a)
    BY <2>5 DEF PowerOff, PowerOn, engineVars, Engine!vars
  <2>6. CASE \E t \in Handler, op \in Request, a \in Address : Accept(t, op, a)
    BY <2>6 DEF Accept, engineVars, Engine!vars
  <2> QED
    BY <1>2, <2>1, <2>2, <2>3, <2>4, <2>5, <2>6 DEF Next, engineVars, Engine!vars
<1> QED
  BY <1>1, <1>2, ShapeHolds, PTL DEF Spec, Engine!Spec

\* EngineProofs speaks of the same engine as Engine does.
LEMMA OneEngine ==
    /\ EngineProofs!Init <=> Engine!Init
    /\ [EngineProofs!Next]_(EngineProofs!vars) <=> [Engine!Next]_(Engine!vars)
    /\ EngineProofs!TypeOK <=> Engine!TypeOK
    /\ EngineProofs!OfflineAlertTracksOutage <=> Engine!OfflineAlertTracksOutage
<1> USE DEF EngineProofs!Kind, Engine!Kind, EngineProofs!Key, Engine!Key,
          EngineProofs!KeysOf, Engine!KeysOf, EngineProofs!Severity,
          Engine!Severity, EngineProofs!Alert, Engine!Alert,
          EngineProofs!NoAlert, Engine!NoAlert, EngineProofs!Lifecycle!Kind,
          Engine!Lifecycle!Kind, EngineProofs!Lifecycle!Key,
          Engine!Lifecycle!Key, EngineProofs!Lifecycle!KeysOf,
          Engine!Lifecycle!KeysOf, EngineProofs!Lifecycle!Severity,
          Engine!Lifecycle!Severity, EngineProofs!Lifecycle!Alert,
          Engine!Lifecycle!Alert, EngineProofs!Lifecycle!NoAlert,
          Engine!Lifecycle!NoAlert
<1>1. EngineProofs!Init <=> Engine!Init
  BY DEF EngineProofs!Init, Engine!Init, EngineProofs!Fresh, Engine!Fresh
<1>2. [EngineProofs!Next]_(EngineProofs!vars) <=> [Engine!Next]_(Engine!vars)
  BY DEF EngineProofs!Next, Engine!Next, EngineProofs!vars, Engine!vars,
         EngineProofs!Report, Engine!Report, EngineProofs!Reachability,
         Engine!Reachability, EngineProofs!Observe, Engine!Observe,
         EngineProofs!Observed, Engine!Observed, EngineProofs!Misses,
         Engine!Misses, EngineProofs!Counted, Engine!Counted,
         EngineProofs!Larger, Engine!Larger, EngineProofs!Verdict,
         Engine!Verdict, EngineProofs!ReachabilityVerdict,
         Engine!ReachabilityVerdict, EngineProofs!TemperatureVerdict,
         Engine!TemperatureVerdict, EngineProofs!CabinetVerdict,
         Engine!CabinetVerdict, EngineProofs!Settle, Engine!Settle,
         EngineProofs!EventOf, Engine!EventOf, EngineProofs!Raise, Engine!Raise,
         EngineProofs!Escalates, Engine!Escalates, EngineProofs!Forget,
         Engine!Forget, EngineProofs!Fresh, Engine!Fresh,
         EngineProofs!Acknowledge, Engine!Acknowledge,
         EngineProofs!SetThresholds, Engine!SetThresholds, EngineProofs!Valid,
         Engine!Valid
<1>3. EngineProofs!TypeOK <=> Engine!TypeOK
  BY DEF EngineProofs!TypeOK, Engine!TypeOK, EngineProofs!ThresholdSetting,
         Engine!ThresholdSetting, EngineProofs!History, Engine!History
<1>4. EngineProofs!OfflineAlertTracksOutage <=> Engine!OfflineAlertTracksOutage
  BY DEF EngineProofs!OfflineAlertTracksOutage, Engine!OfflineAlertTracksOutage,
         EngineProofs!ThresholdSetting, Engine!ThresholdSetting
<1> QED
  BY <1>1, <1>2, <1>3, <1>4

\* It meets what AlertEngine assumes of its constants, and runs alike.
LEMMA EngineIsSound ==
    /\ EngineProofs!NumbersAssumption /\ EngineProofs!ThresholdAssumption
    /\ EngineProofs!Spec <=> Engine!Spec
<1>1. EngineProofs!NumbersAssumption /\ EngineProofs!ThresholdAssumption
  BY EngineAssumption
  DEF EngineProofs!NumbersAssumption, EngineProofs!ThresholdAssumption, EngineProofs!ThresholdSetting
<1>2. EngineProofs!Spec <=> Engine!Spec
  BY OneEngine, PTL DEF EngineProofs!Spec, Engine!Spec
<1> QED
  BY <1>1, <1>2

(* Every reachable state is well typed, the engine's part of it included.  *)
THEOREM TypeCorrect == Spec => []TypeOK
<1>1. EngineProofs!Spec => []EngineProofs!TypeOK
  BY EngineProofs!TypeCorrect, EngineIsSound
<1>2. Shape /\ Engine!TypeOK => TypeOK
  BY DEF Shape, TypeOK
<1> QED
  BY <1>1, <1>2, OneEngine, EngineIsSound, EngineInside, ShapeHolds, PTL

(* What AlertEngine promises of the dwell it promises in the application:  *)
(* an offline alert stands in an outage that has been seen offline_ticks   *)
(* times in a row, and in no other, however the calls that evaluate, add   *)
(* and remove make on behalf of different threads follow one another.      *)
THEOREM DwellHolds == Spec => []Engine!OfflineAlertTracksOutage
<1>1. EngineProofs!Spec => []EngineProofs!OfflineAlertTracksOutage
  BY EngineProofs!DwellHolds, EngineIsSound
<1> QED
  BY <1>1, OneEngine, EngineIsSound, EngineInside, PTL
=============================================================================
