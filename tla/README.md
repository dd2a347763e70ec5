# novasun in TLA+

TLA+ models of novasun, an application that monitors and drives NovaStar LED
processors, with the TLC runs that check them and proofs for TLAPS.  Paths are
relative to `src/novasun/` of the repository.

## Inventory

| Component | State | Operations | Hard behaviour | What makes it correct |
|---|---|---|---|---|
| `app/state.py` Device | session, reachability, backoff, next retry, one lock | refresh, execute, close | a session used by one thread and closed by another; failures half way | a session in use is never closed; what is shown has a session behind it |
| `app/state.py` Application | device table, action log, one lock, a refresh thread | add, remove, execute, refresh_all, evaluate, start, stop, discover, screens | refresh thread against server threads; copies used after the lock is gone; nested locks | every request ends; a lasting outage is alerted on, a lasting return is shown; a removed device leaves nothing behind |
| `app/history.py` AlertEngine | histories, alerts, events, thresholds, no lock | observe, forget, acknowledge | counters against alerts, hysteresis, escalation after an acknowledgement | the dwell, no flapping, no silenced critical |
| `app/server.py` | none of its own | one thread per request calls Application | concurrency | (Application) |
| `app/config.py` | the file, a temporary file | load, save | two threads saving, a rename that fails, a restart | the file is always a whole config; nothing saved is lost |
| `app/screens.py` | screens and members | aggregate | stale device states, ports of half a processor | a roll-up never claims more than its members |
| `client.py`, `transport.py`, `protocol.py` | serial number, pending frames, reader buffer | exchange, read, write, probe, walks of chains | late responses, retries, wrap of the serial number, chunks | a response is paired with its own request |
| `processor.py`, `devices.py` | profile, the two connections | connect, identify, the setters | which control path; several writes for one action | the register bus is never opened on a COEX box; an action is whole or reported |
| `monitor.py`, `coex.py` | request budget, slow cache | poll | backoff, staleness | never faster than the budget; read-only |
| `proxy.py`, `capture.py` | sockets, recorded frames | two pump threads, record, pair | order of logging, half-closed sessions | the session is forwarded untouched; each response finds its request |
| `verify.py` | what was sent, what must be restored | run | failures and interrupts between write and restore | everything sent is reversed or reported |
| `bringup.py`, `survey.py`, `passive.py`, `snmp.py`, `discovery.py`, `names.py`, `registers.py`, `cli.py` | none that lasts | probes, tables, formatting | | (algorithms and I/O) |
| `simulator.py`, `coexsim.py` | a simulated device | request handlers | | the device side of the exchanges |

The parts meet in Application: the refresh thread and the server's threads call
`Device.refresh` and `Device.execute` under each device's lock, copy the
device's state without a lock, and give the copy to the AlertEngine, which has
no lock either.  Membership changes take the application lock, close devices
under theirs, make the engine forget, and save the config.

## Modules

| Module | Models | Correspondence |
|---|---|---|
| `Alerting` | what alerting promises, whatever the rules | one standing alert per key; `Report` moves each alert of a device by one stage at most |
| `AlertEngine` | `app/history.py` | one action per method: `Observe`, `Forget`, `Acknowledge`, `SetThresholds`. `_reachability`, `_temperature`, `_cabinets` are *verdicts* on a key (raise at a severity, clear, hold); `_raise`/`_clear` are `Settle`, and `EventOf` for the event they log |
| `Device` | `app/state.py` Device | its attributes as a record, its private methods as operators on the record |
| `Application` | `app/state.py` Application under threads | EXTENDS Device, INSTANCE AlertEngine. One action per stretch between two points where a thread can wait (a lock, a network call) or where another thread can come between a read and its use |
| `Configuration` | `app/config.py`, the requests of `app/server.py` that save | `load` with its ways out (`StartEmpty`, `StartSaved`, `StartSalvaging`, ...), each request's change under the application lock or without it, `save` in its steps (collect, serialise, open, write, rename) per thread, over inodes: two threads that open one name share one file; a crash at any step, an edit by hand |
| `Screens` | `Application.execute_screen`, `Device.execute`, `processor.py` | a command, its members in their order, and for each a *plan*: the writes `dispatch` makes of the action on the device's control path, sent one by one, each done, refused, lost (with or without effect) or ended by an exception nobody catches |
| `RegisterBus` | `client.py` exchange, read, write; `transport.py`; serial numbers of `protocol.py`; the simulator as the device | a transfer in chunks; requests, stream, reader's buffer and parsed frames as queues; `Take` is one turn of exchange's loop |
| `Registers` | what a caller of `read` and `write` is promised | numbered writes over a few registers; a transfer runs, returns or fails; a write that was sent may take effect late, but never over a later one. `RegisterBus` implements it (`ImplementsRegisters`): a transfer is running while it is not idle, and serial numbers, queues and retries are not seen |
| `Contact` | `identify`, `survey_network`, `Processor.connect`, `bringup.run` | one tool at work: HTTP answers of every kind, the ports tried, the session; the classification of a register against a device that echoes its buffer; the walk of the chains |
| `Monitor` | `monitor.py` | polls over three endpoints, the slow cache, the rate limiter, a wall that changes meanwhile; the interpretation of a poll as definitions |
| `Verify` | `verify.py` | each claim's write, observation and restore, with every outcome of a call, writes that take effect late |
| `Recording` | `proxy.py`, `pair_transactions` | two pumps that receive, forward and record, and what ends each; frames travel as halves so that chunks cut them |
| `Readings` | `aggregate`, `diff_snapshots`, `capture._Stream` | pure functions as definitions over a chosen input, held to what they should say |
| `MCParts` | | the parts that share no state with the application's threads, side by side |
| `MCAlertEngine`, `MCApplication`, `MCRegisterBus` | | values for the constants |
| `AlertEngine_proofs` | | theorems about AlertEngine |
| `Application_proofs` | | the shape of Application's states, its types, and AlertEngine's theorems carried over |
| `ApplicationLocks_proofs` | | what the locks of Application guarantee |
| `RegisterBus_proofs` | | what a caller of the register bus is told is true, and that the bus implements `Registers` |
| `Configuration_proofs` | | what the config file keeps |
| `Traffic_proofs` | | the monitor's pace and freshness, what the proxy forwards and logs, the three readings |
| `Tools_proofs` | | first contact and verification leave things as they should |
| `Walls_proofs` | | driving a screen; with the other parts, the types of them all |

In `Application` a thread is a record: where it is (`pc`), the operation, the
object it has its hands on, the objects it has still to visit, and the state it
copied.  `lock[o]` is `Device._lock`, `appLock` is `Application._lock` where it
is held across a wait (only `add` does that); a method that takes the
application lock and lets go without waiting is one step guarded by
`appLock = None`.  `session` is the held `Processor`: a COEX session is just an
address to send HTTP requests to, a register-bus session is a TCP connection
that is "dead" once the device has gone away.

`MCParts` is not a composition that interacts: `Configuration`, `Screens`,
`Verify`, `Contact`, `Monitor`, `Recording` and `Readings` have no variable in
common, the code's parts no memory in common.  A behaviour chooses the part it is
about (`part`, from the constant `Parts`) and the others stay as they began, so
that one run asks every question of each part alone; the product of their states
would say nothing more.

How the state of those modules stands for the code's:

* `Configuration`: `inodes`, `dest`, `temp` are the directory; a thread's `fd` is
  the file it has open and its `snapshot` the Config that `to_config` collected
  under the lock (whose screens are the application's own objects: `serialise`
  reads them again, later).  Two kinds of value for a screen's name and members
  and two thresholds are enough to tell a mix of two requests from either.
* `Screens`: `cards` are the receiving cards' own registers (kill switch, lock,
  brightness, pattern) for each part of a device, `display` and `panel` the
  device's registers or its HTTP resources.  What is `Shown` is what the LEDs of a
  part show under both.
* `RegisterBus`: a register holds the number of the write it last took; a frame
  carries, unseen by the program, how many requests were sent since its own.
* `Contact`: `spoke` remembers every answer of the HTTP API, data or an error code,
  and of which kind it was: one the tools heed ("answer"), an error code for
  device-info ("refusal"), or answers to a survey's poll that described nothing
  ("poll").  `answered` is what the code goes by.
* `Monitor`: time in units of the rate limiter's interval over two; `spacing`
  remembers the last spacing and what it should have been.
* `Verify`: brightness in quarters; `before` is the wall as the session found it;
  `unrestored` remembers that a restore failed and that this was said.
* `Recording`: frames are good, damaged, or "odd": a right checksum over a byte
  that is no `IO`.

The abstractions of `Application`: times are ticks (a retry time is a countdown, `time.time()`
moves by `Tick`); the kinds of control action, inputs and status contents are
left out; what `_autosave` writes is left out, the lock it needs is not; a
snapshot sent after a request only reads and is left out.  History variables:
`pivot` in AlertEngine.  Bounds: `MissBound` (the counter of misses saturates,
which is exact as long as no threshold exceeds it), `MaxRequest`, `MaxOutage`;
the objects (`MaxObject`) follow from the requests.  Connection settings matter
only as equal or not to those a request gives: `Ports` has two values.

## Runs

| Run | Question | Bounds |
|---|---|---|
| `alert_engine` | does every sequence of reports, threshold changes, acknowledgements and removals keep the dwell, the hysteresis and the life of alerts? | one device (keys of different devices share nothing but `thresholds` and WorstSeverity), five readings on both edges of, inside and outside every band, counts with and without a loss, four valid or invalid settings to ask for and two to start from |
| `application` | can a session be closed under its user, a device be shown online without one, threads wait for one another? | one busy COEX device saved with its own ports (so that `add` replaces it), two server threads, two requests, one outage, a wait of one tick |
| `application_liveness` | do requests end, is an outage alerted on, is a return shown? | one COEX device, one server thread, two requests, one outage, backoff of one and two ticks, alert at the first miss |
| `register_bus_loss` | the same for the register bus? *No* | one device, no request |
| `busy_device` | can an answer end the refresh thread? *Yes* | one device, no request |
| `removal` | does a removed device leave no alert? *It may* | one device, one request, `offline_ticks` 1 as in the test quoted |
| `register_bus` | is what a caller of read and write is told true, is a transfer one of abstract registers, and does a client that is out of step come back? | transfers of two chunks, two writes, so that a late one can meet the next, serial numbers modulo 5, one response skipped, answers late by two requests: an answer can meet the retry, the next chunk and the next transfer |
| `parts` | for each part alone, its properties (below) | config: two threads, three requests, one crash, one edit by hand; screens: three devices, one for each control path, three walls, two commands; verify: two cabinets, three levels; contact: two endpoints, three poisons, two ports with chains of up to five of which four are walked, two hosts; monitor: two cabinets, slow every second poll, four polls, one change of the wall; recording: three requests, serial numbers modulo 2, two faults; readings: three members, lists of two, three captured segments of a stream of five bytes, six sequence numbers, so that a stream turns them |
| `config_overlap` | is the config file never half written? *It may be* | the config part |
| `screen_ids` | does a member keep to the parts it names? *Not on COEX* | the screens part |
| `proxy_stall` | can decoding never stall the session? *It can* | the recording part, one odd frame |
| `contact_bus` | is the register bus left alone where HTTP answers? *Not always* | the contact part |

What `parts` shows:

* config: a save that overlaps no other leaves the file whole whenever the program
  is killed (`SoloSavesAreWhole`); when nothing goes on the file has the screens
  and thresholds of the memory, unless saves overlapped or one failed
  (`QuietMeansSaved`); thresholds are valid after any requests, or what the file
  held at the start, which is not validated (`ThresholdsStayValid`); what an operator
  wrote is loaded or kept aside, unless it cannot be moved (`HandEditsSurvive`);
* screens: ports nobody named are left alone (`PortsAreKept`); a member recorded
  as done shows what was asked for, after any failures (`AcknowledgedModeShows`);
* verify: nothing is sent unconfirmed, what is recorded as restored was, and however
  a session ends the wall is as it was, or a restore failed and the operator knows,
  with the two exceptions below (`NothingSentUnconfirmed`, `RestoredIsTrue`,
  `WallIsAsItWas`);
* contact: no register-bus session after an HTTP answer that the tool heeds, none
  left behind, no register misjudged, no card missing but for the reasons there are
  (`HeededAnswersKeepTheBusShut`, `SessionsEnd`, `VerdictIsRight`, `CardsAreAccounted`);
* monitor: readings are this poll's, slow ones of the last few, requests spaced
  (`ShownAsReported`, `SlowIsCurrent`, `RequestsAreSpaced`);
* recording: what was sent arrives, the log is whole, pairs match, also when the log
  file cannot be written
  (`ForwardingIsExact`, `LogIsComplete`, `PairsMatch`);
* readings: `ScreenIsPessimistic`, `DifferenceIsReal`, `ReassemblyIsExact`.

The bounds of `parts` are close to the least at which each property has something to do:
two saves overlap a third request, a chain has a gap, an end and a scan limit, a
serial number is used twice, a cache is used, refreshed and missed, three
segments leave a hole and overlap it.  `parts` and its violations do not check
deadlock: a command, a session and a tool end, and the bounds are reached.
`register_bus` and `alert_engine` do check it.

Two requests are enough to overlap every pair of operations with each other and
with the refresh thread; a third would need three handlers to add an order.
`application` does not check deadlock: when its requests are used up and the
refresh thread has ended on a CoexError the system does stop.
`NoWaitCycle` says there what deadlock freedom would, and
`application_liveness` checks deadlock.

### Fairness

`Application!Fairness`: a thread that can move does (every network call has a
timeout), the refresh thread comes back from its sleep, the clock runs.  Handler
steps are strongly fair, which matters only where a handler waits for a lock
that is taken and given back again and again: the refresh thread sleeps for
`refresh_interval` after each round, and a thread that waits on a free lock
meanwhile gets it.  Requests, outages and returns are not fair: nothing owes
them to the system.

`RegisterBus!Fairness`: the caller is a loop that reads again (the application
refreshes, a tool goes on), its steps are taken (the socket has a timeout), and a
device that is healthy handles what reached it.  Nothing is assumed of
`Weather`: `Recovers` is about a device that is healthy from some time on.

### What the violations say

* `register_bus_loss`: nothing in a refresh of a register-bus device can fail,
  so a device that goes away stays "online", on a dead connection, without an
  alert.  Only a control action notices.
* `busy_device`: `CoexError` is caught neither by `refresh` nor by the loop.
  The passing `application` run includes it (`ReadRefused`); the liveness run
  assumes a device that does not answer with errors (`Busy = {}`).
* `removal`: the refresh thread copies a state, the device is removed and
  forgotten, the copy is observed.

* `config_overlap`: the temporary file's name has only the process id.  Thread A
  has written it, thread B opens (and empties) it, A renames it over the config;
  the program is killed.
* `screen_ids`: `execute_screen` passes `member.ports` on and nothing else.
* `proxy_stall`: `IO(2)` raises ValueError, not ProtocolError.
* `contact_bus`: `identify` drops a CoexError from device-info, which is an answer
  in the API's own format, and goes on to the bus; so does a survey after a poll
  in which something was answered, but no model and no cabinet.  The passing
  `HeededAnswersKeepTheBusShut` says which answers do keep it shut.

Other places where the code and its words part, which the models keep as the code
has them, and no run is spent on:

* identify: something that is no JSON, from an HTTP server that may not be a COEX
  API, opens the register bus too; it is not counted as an answer of the API.  The
  survey tries no port but 5200.
* monitor: when monitoring answers with no cabinets, none is shown offline; a slow
  endpoint whose re-read failed comes back from the cache in the next poll.
* capture: a trimmed segment has the timestamp 0.0, so its frames sort first; a
  retransmission that is longer than the first copy is dropped; gaps are not
  noticed; what was captured before the first segment sorts last.
* alerts: `DeviceHistory.peak_cabinets` is kept and never compared.  A device that
  counted two cabinets and then reports one of one raises no alert, against
  `history.py:211`.
* verify, the two exceptions of `WallIsAsItWas`: an answer that is no JSON is a
  ValueError, which neither the writes of the display mode nor their restore catch,
  so the wall stays black or frozen, against `verify.py:24`, "On any unexpected
  error the display is returned to normal".  A brightness write whose answer is
  lost or an error is reported and not restored, whether it took effect or not, and
  the session ends with `verify.py:325`, "Everything sent has been reversed".  Both
  were seen in the program too, run against a wall that answers so.  And a write
  that timed out may arrive after the restore.
* bringup: `cards == cards_per_port` counts the cards found.  With one position
  unanswered on the way, the last one scanned answers, the chain goes on, and
  nothing says so, against `bringup.py:397`; `CardsAreAccounted` allows it.
* config: when the rename of a broken file fails, the next save replaces it, against
  `config.py:12`, "moved aside rather than overwritten"; `HandEditsSurvive` excepts it.
* proxy: a log file that cannot be written, or an observer that raises, ends a pump
  as an odd frame does (`RecordFails`).
* screens: on one device the display register and the cards' own can hide each
  other's normal and freeze; `ports` in a request's own arguments reach members
  that are whole devices.
* pairing goes wrong after a response is late by a full turn of serial numbers.

## Proofs

`AlertEngine_proofs`, for any set of devices, readings and thresholds that meet
the two assumptions of `AlertEngine` (numbers are numbers; `offline_ticks` lies
in `1..MissBound`):

* `TypeCorrect`: the type invariant, inductive as it stands.
* `DwellHolds`: `OfflineAlertTracksOutage`, inductive with the type invariant.
* `PivotHolds`, `NoFlappingHolds`: the hysteresis.  What is inductive is a
  statement about the past: the reading that toggled the alert last
  (`pivot`) lay outside the band, on the alert's side.  The next toggle is
  decided by the present reading, which lies outside it on the other side, and
  the two are a band apart.
* `ImplementsLifecycle`: every step of the engine is a step of `Alerting` on the
  same variables, or a stutter.
* `EscalationHeard`: by cases on the action; only `Observe` makes an alert
  critical, and `Raise` does that unacknowledged.

`Application_proofs`, for any set of devices and server threads, any number of
requests and outages and any config file without a duplicate address
(`ConfigAssumption`), backoff as in `BackoffAssumption`, and thresholds as in
`EngineAssumption`:

* `Shape` is the inductive invariant everything else stands on: the types, and
  for each thread what its place and its operation say about what it holds
  (`PlaceOK`): the objects in its hands have been created, a thread that talks
  has an object to talk to.  One lemma per group of actions, on lemmas about
  what each device method leaves.
* `EngineInside`: with the tables, threads and locks forgotten, `Application` is
  `AlertEngine`: each step is an `Observe`, a `Forget` or a stutter of the
  engine, with a report and an address the engine knows.
* `TypeCorrect` and `DwellHolds` then follow from the theorems of
  `AlertEngine_proofs`, instantiated: the dwell holds in the application too,
  as long as a call of the engine is one step (see the hazards of `history.py`).

`ApplicationLocks_proofs`: every step is first classified by what it does to the
locks and sessions (`StepKinds`: takes a lock, keeps it, lets it go, closes a
device nobody talks to, creates one, or is quiet), and each invariant is proved
once per kind.

* `SessionsAreHeld`: `NoUseAfterClose` is inductive on `Shape`.
* `RefreshSurvives`: where no COEX device answers with an error code
  (`Busy = {}`), what the run `busy_device` refutes is true.  The refresh thread
  takes no requests, so only `ReadRefused` could end it.
* `NobodyDeadlocks`: `NoWaitCycle` is not inductive; `Holders` and `AppHolder`
  are.  The holder of a device lock is talking to that device and so waits for
  nobody, the holder of the application lock is replacing a device and waits for
  a device lock at most: a chain of waiting threads is two steps long.
* `OnlineIsHonest`: `OnlineMeansSession`, with two facts about the list: no
  object is in it twice, and what `remove` is about to close has left it.

`RegisterBus_proofs`, for any number of serial numbers, retries, chunks and write
transfers.  The lemmas on queues (a head taken, a frame put behind, two queues
joined, one cut in two) come first; then `Typed`, the types, inductive alone
(`TypeCorrect`); then, if `MaxAge < SerialNumbers`, `IInv`:

* `Ordered`: from `pending` over `buffer` and `stream` to `requests` the ages fall.
* `Numbered`: the serial number of a frame is the counter less its age, up to a
  turn.  Nothing is late by a whole turn, so a frame that matches is the answer
  to the newest request, and by `Ordered` nothing stands behind it.
* `Consumed`: between two requests the oldest frame has gone or none is overdue,
  so the bound on ages is met again.
* `Current`, `Told`: what the newest request asks for, what its answer says of
  the register, and what has been read and acknowledged is still true.
* `InOrder`: writes under way are in the order they were begun in, none reaches
  a register before the one in front of it.

`ReadsAreFresh`, `AcknowledgedIsWritten` and `FailedWritesArePrefixes` follow.
The hypothesis is what the 8 bits of a serial number cost: without it a frame
that is late by a turn matches, and the first two are false.

`BusImplementsRegisters` maps every step to one of `Registers` or a stutter, under
the same hypothesis: an accepted answer is a `Return`, as `Current` says that its
value is one the register has had; an acknowledgement is one because `Told` says that
the write is there; a request that the device handles is a `Perform` in the order
that `InOrder` demands; and what the link does, what is sent again and what is
skipped is not seen at all.  `TornWritesArePrefixes` is an invariant of `Registers`, so
the run checks it with the refinement and not once more.

`Configuration_proofs`, for any number of server threads, requests, crashes and
edits by hand (`Configuration` alone, so without the bounds of `MCParts`):

* `InvHolds`: `Inv`, the inductive invariant.  Its heart is `SoloIsAlone`: nobody
  saves beside a save that takes itself to be alone.  So its temporary file is its
  own, empty until it is written and then what was collected (`SoloFiles`), and
  what it collected is the memory (`SoloSnapshots`).  That the file made by an open
  is nobody else's is a count: there are more inodes than threads and names.
* `SoloSavesAreAtomic`, `NothingIsLostQuietly`, `ThresholdsAreValid`,
  `HandEditsAreKept` and `TypeCorrect` follow, with the two exceptions the
  properties name: thresholds that `load` took from the file as they were, and a
  broken file that could not be moved aside.
* `OneThreadNeverHalfWrites`: what the run `config_overlap` refutes of two threads
  is true of one.

The other three are about `PartsSpec`: each part's invariant is kept by its own
steps, and a lemma says that no other part's step touches its variables.

`Traffic_proofs`, for any walls, spacing, back-off, period and number of polls,
any session of any length, any devices and any lists:

* `NeverHammered`: what is inductive is that the time since the last request and
  the wait still asked for are at least the spacing due (`WaitIsEnough`).
* `CacheIsCurrent`: a poll reads the slow endpoints when its number leaves no
  remainder; the poll a slow endpoint was last read in is no further back than
  that remainder, or it is still to be read in this poll (`SlowReads`).
* `ReadingsAreFresh`: what monitoring answered lies between the cabinets that have
  reported all through the poll and those that have at some time (`Reported`).
* `ProxyIsTransparent`: forwarded, held and still on the wire are one after another
  what was sent.  The halves of all frames sent are a function of the index, so
  that this is about concatenation only.
* `LogsAreComplete`: a reader holds the beginning of the last frame forwarded or
  nothing (`BufferIsTail`), so a chunk continues at the first frame not yet
  forwarded whole, or one later when a beginning was dropped (`ReaderFollows`);
  the frames of a direction are sent, decoded and recorded in order (`InOrder`),
  and all of them are recorded as long as they decode (`AllRecorded`).
* `OnlyOddFramesStall`, of decoding: what the run `proxy_stall` refutes is true of a session in
  which no frame with an unknown io byte is sent: where a reader stops it stands on
  a frame that was sent (`ReaderFollows` again).
* `PairsAreMatched`: after each part of the log a request waits under its number
  unless an event of that number followed (`Waiting`); where requests and responses
  keep in step nothing of the number stands between the two (`NothingBetween`).
* `DifferencesAreReal`: with a key that identifies the elements of two lists, the
  table of a list holds at an identity exactly the elements that have it
  (`AtAnIdentity`).
* `ScreensArePessimistic`: of two sums over one set that of the smaller values is
  the smaller, and equal only where the values are (`SumsCompare`).
* `ReassemblyHolds`, of segments none of which begins before the one captured first,
  with or without gaps: the sequence numbers of two bytes of a stream are as far apart
  as the bytes, up to a turn (`DistanceIs`), so that an offset is a position.  The
  rest is about the fold over the offsets in their order: what has been put together
  of those below a number has its bytes in order, each once, and ends where the
  furthest of the segments does (`Rightly`); one more segment keeps that, whether
  it is new, known or overlaps (`NextSegment`).
* `MonitorIsWellFormed`, `ProxyIsWellFormed`, `ReadingsAreWellFormed`: the types.  That
  a log is no longer than twice the requests is a count: it has a number of each
  direction once at most (`LogIsShort`).

The pairing, the sums and the reassembly are folds.  `FoldExists` shows that one over a finite set
is defined, whatever is chosen from each subset and whatever is done with it: a
table for the subsets of up to n elements gives one for those of n + 1, and of the
sizes without a table there would be a least.  What a fold computes is then shown
the same way, by the least part of it for which it is wrong; the library's
theorems on induction, which take an operator, are not needed.

`Tools_proofs`, for any number of endpoints, poisons, ports and cards, any chains,
and any set of cabinets:

* `ConInv` of Contact: what chooses the bus was allowed to and had had no answer
  (`BusWasChosen`); where a session may be open (`SessionIsHeld`); each read of a
  register answered what it holds, or what the device had in its buffer
  (`AnswersAreTrue`); and of the walk, that every card passed over did not answer,
  stands behind a gap of two or beyond what is scanned (`Passed`, `Accounted`).
  `SessionsAreClosed`, `RegistersAreJudgedRightly`, `CardsAreReported` and the
  action property `HeededAnswersKeepItShut` follow: the last is about the answers
  that the tools heed, as the run `contact_bus` refutes it of the others.
* `VerInv` of Verify: what was sent, or may still arrive, was confirmed
  (`SentConfirmed`); an endpoint that is absent changed nothing
  (`AbsentIsUntouched`); the levels are untouched until the last claim
  (`LevelsUntouched`); between two claims the display is back, or it was said that
  it may not be (`ModeIsBack`).  The action properties `NothingIsSentUnconfirmed`,
  `TheWallIsAsItWas` and `WhatIsRestoredWas` follow.  The second has the two
  exceptions of its property, in which the code does not do what it says.
* `ContactIsWellFormed` and `VerifyIsWellFormed`: their types, which need a little more
  than is in the two invariants: which endpoints are left at each step of a tool, and
  that what is to be restored was read before.

`Walls_proofs`, for any parts of the devices and any number of commands (the
screens are those of `MCParts`).  `DispatchFits` says what an action becomes: on
each control path its writes are toward the action, for the member's ports only,
and reach everything it names unless the first of them refuses; for `PortWrites`
that is a count of ports by rank.  The invariant carries this through the plan:

* `PlanIsToward`: each write still to come is toward the action and within the
  ports.  With what a write does (`EffectOnCards`, `EffectElsewhere`) this gives
  `OtherPortsAreKept`, for writes that were refused or lost too.
* `PlanIsComplete`: what is not done is still to come.  `RereadIsLast`: a record is
  ok only when nothing is still to come.  So a member recorded as ok is done, and
  as every later write of the command is toward the same action it stays done
  (`RecordsAreDone`).
* `PathsTell`: a way in which a device was never addressed is as it was, so it
  cannot hide the mode: `AcknowledgedIsShown`.
* `PortMembersKeepToTheirParts`: what the run `screen_ids` refutes is true of a
  command whose members name ports or whole devices.
* `ScreensAreWellFormed`: the types of this part, with who is connected while a plan
  is under way.

`PartsAreWellFormed` puts the types of all parts together.  `Configuration_proofs`
proves its own of `Configuration!Spec`; `PartsServe` shows that the parts side by side
are a behaviour of it.

Every invariant and action property of the passing runs, and both refinements, are
theorems.  Only model-checked is the liveness (`RequestsFinish`, `OutageIsAlerted`,
`ReturnIsShown`, `Recovers`): fairness and ENABLED are out of the provers' reach.
The reach of some is less than every value of the constants: what is proved of the
register bus beyond its types assumes answers late by less than a turn, and the screens
driven are the walls of `MCParts`, whatever the parts of their devices.

## Plan

What would come next, in this order:

1. `Configuration` refining what it promises: an atomic register of layouts, for
   saves that do not overlap.
2. `Application`: start and stop, discover; the calls of the engine in their parts,
   so that two observations of one device can overlap.
3. Screens next to the threads of `Application`; two drivers on one controller.

## Not modelled

Decoding of payloads (monitoring blocks, capture files, link layers), formatting,
the tables of profiles, registers and names, SNMP, passive listening, the command
line and the page in the browser: no state that lasts and nothing to interleave.
Of `app/state.py`, start and stop of the refresh thread and discover.
