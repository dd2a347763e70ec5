------------------------------- MODULE Monitor ------------------------------
(* The read-only monitor of a COEX controller: CoexMonitor.poll over its     *)
(* endpoints, the cache of those that change slowly, the rate limiter, and   *)
(* what _interpret makes of the answers, while the controller goes on.       *)
EXTENDS Integers, FiniteSets, Sequences, SequencesExt, FiniteSetsExt

CONSTANTS
    Cabinet,    \* cabinets a wall may have
    Every,      \* slow endpoints are read again every so many polls
    Interval,   \* spacing of requests
    Backoff,    \* spacing after a controller that is busy
    MaxPolls,   \* bound: polls of a behaviour
    MaxChanges  \* bound: changes of the wall

MonitorAssumption ==
    /\ IsFiniteSet(Cabinet) /\ Every \in Nat \ {0}
    /\ Interval \in Nat \ {0} /\ Backoff \in Nat /\ Backoff >= Interval
    /\ MaxPolls \in Nat /\ MaxChanges \in Nat

VARIABLES
    topology,   \* the controller: cabinets of the wall
    present,    \* and those of them whose receiving card reports
    changes,
    polls,      \* polls begun
    slow,       \* this poll reads the slow endpoints too
    toRead,     \* endpoints this poll has still to read
    raw,        \* what the snapshot holds: endpoint -> {} or {answer}
    cache,      \* _slow_cache, the same way
    allowed,    \* time until the next request is allowed
    since,      \* time since the last request began
    spacing,    \* history: the last spacing, and what the answer before it asked for
    reads,      \* history: poll of the last good read of each slow endpoint, and whether the last failed
    during      \* history: cabinets that reported at some, at every moment of this poll
vars == <<topology, present, changes, polls, slow, toRead, raw, cache, allowed,
          since, spacing, reads, during>>

MONITORING_ENDPOINTS == <<"device", "cabinets", "monitoring">>     \* in their order
Monitored == ToSet(MONITORING_ENDPOINTS)
Slow_all == Monitored
Slow == {"device", "cabinets"}

Init ==
    /\ topology = Cabinet /\ present = Cabinet /\ changes = 0
    /\ polls = 0 /\ slow = FALSE /\ toRead = <<>>
    /\ raw = [e \in Monitored |-> {}] /\ cache = [e \in Monitored |-> {}]
    /\ allowed = 0 /\ since = Backoff
    /\ spacing = [was |-> Backoff, owed |-> 0, next |-> 0]
    /\ reads = [e \in Monitored |-> [poll |-> 0, failed |-> FALSE]]
    /\ during = [some |-> Cabinet, every |-> Cabinet]

-----------------------------------------------------------------------------
(* The wall: cabinets come and go, are added to it and taken from it.        *)
Change ==
    /\ polls > 0 /\ changes < MaxChanges
    /\ topology' \in SUBSET Cabinet /\ present' \in SUBSET topology'
    /\ <<topology', present'>> # <<topology, present>>
    /\ changes' = changes + 1
    /\ during' = [some |-> during.some \cup present', every |-> during.every \cap present']
    /\ UNCHANGED <<polls, slow, toRead, raw, cache, allowed, since, spacing, reads>>

Lower(a, b) == IF a < b THEN a ELSE b
Left(time, passed) == IF time > passed THEN time - passed ELSE 0

\* The caller waits, as long as it likes, between two polls.
Idle ==
    /\ toRead = <<>> /\ polls \in 1..MaxPolls-1
    /\ since < Backoff
    /\ since' = since + 1 /\ allowed' = Left(allowed, 1)
    /\ UNCHANGED <<topology, present, changes, polls, slow, toRead, raw, cache,
                   spacing, reads, during>>

-----------------------------------------------------------------------------
DueSlow_once == polls = 0
DueSlow == polls % Every = 0

Poll ==
    /\ toRead = <<>> /\ polls < MaxPolls
    /\ slow' = DueSlow /\ polls' = polls + 1
    /\ toRead' = MONITORING_ENDPOINTS /\ raw' = [e \in Monitored |-> {}]
    /\ during' = [some |-> present, every |-> present]
    /\ UNCHANGED <<topology, present, changes, cache, allowed, since, spacing, reads>>

Reading == Head(toRead)
FromCache == Reading \in Slow /\ ~slow /\ cache[Reading] # {}
Answer == CASE Reading = "device" -> {}
            [] Reading = "cabinets" -> topology
            [] Reading = "monitoring" -> present

UseCache ==
    /\ toRead # <<>> /\ FromCache
    /\ raw' = [raw EXCEPT ![Reading] = cache[Reading]]
    /\ toRead' = Tail(toRead)
    /\ UNCHANGED <<topology, present, changes, polls, slow, cache, allowed, since,
                   spacing, reads, during>>

Allowance_plain(busy, took) == Left(Interval, took)
\* wait() counts from the request, back_off() from the answer.
Allowance(busy, took) == IF busy THEN Backoff ELSE Left(Interval, took)

\* RateLimiter.wait and the request, which takes no time or one unit.
Request(busy, took) ==
    /\ spacing' = [was |-> Lower(since + allowed, Backoff), owed |-> spacing.next,
                   next |-> IF busy THEN Backoff ELSE Interval]
    /\ allowed' = Allowance(busy, took) /\ since' = took

Read ==
    /\ toRead # <<>> /\ ~FromCache
    /\ \E took \in 0..1 : Request(FALSE, took)
    /\ raw' = [raw EXCEPT ![Reading] = {Answer}]
    /\ cache' = IF Reading \in Slow THEN [cache EXCEPT ![Reading] = {Answer}] ELSE cache
    /\ reads' = [reads EXCEPT ![Reading] = [poll |-> polls, failed |-> FALSE]]
    /\ toRead' = Tail(toRead)
    /\ UNCHANGED <<topology, present, changes, polls, slow, during>>

\* Code 5, Busying, backs the monitor off; other errors, of any kind, do not.
ReadFails ==
    /\ toRead # <<>> /\ ~FromCache
    /\ \E busy \in BOOLEAN, took \in 0..1 : Request(busy, took)
    /\ reads' = [reads EXCEPT ![Reading].failed = TRUE]
    /\ toRead' = Tail(toRead)
    /\ UNCHANGED <<topology, present, changes, polls, slow, raw, cache, during>>

Next == Change \/ Idle \/ Poll \/ UseCache \/ Read \/ ReadFails

Spec == Init /\ [][Next]_vars

-----------------------------------------------------------------------------
(* _interpret, of a finished poll.                                           *)

Listed == UNION raw["cabinets"]
live == UNION raw["monitoring"]
online == Listed \cap live
\* Nothing is said of a cabinet when monitoring did not answer, or named none.
offline == IF live = {} THEN {} ELSE Listed \ live
healthy == online # {} /\ offline = {}

\* What the application shows of monitor/info, and what a survey shows of a poll.
interpret_monitor_info ==
    [cabinets_total |-> Cardinality(live), cabinets_online |-> Cardinality(live)]
survey_status ==
    [cabinets_total |-> Cardinality(Listed), cabinets_online |-> Cardinality(online),
     cabinets_offline |-> offline, healthy |-> healthy]

TypeOK ==
    /\ present \subseteq topology /\ polls \in 0..MaxPolls
    /\ allowed \in 0..Backoff /\ since \in 0..Backoff
    /\ \A e \in Monitored : Cardinality(raw[e]) <= 1 /\ Cardinality(cache[e]) <= 1

Finished == polls > 0 /\ toRead = <<>>

\* A cabinet shown online reported during this very poll, one shown offline did
\* not all the time, and a healthy wall has no cabinet, as last listed, that did
\* not report: the cache never stands in for readings (monitor.py:344).
ShownAsReported ==
    Finished =>
        /\ online \subseteq during.some
        /\ offline \cap during.every = {}
        /\ healthy => Listed \subseteq during.some
        /\ interpret_monitor_info.cabinets_online <= Cardinality(during.some)
        /\ live # {} => survey_status.cabinets_total
              = survey_status.cabinets_online + Cardinality(survey_status.cabinets_offline)

\* What a snapshot shows of a slow endpoint was read at most Every polls before,
\* unless the controller did not answer when it was asked again (monitor.py:195).
SlowIsCurrent ==
    Finished => \A e \in Slow : raw[e] # {} =>
        polls - reads[e].poll < Every \/ reads[e].failed

\* The controller is never hammered: two requests are an interval apart, and a
\* busy controller is left alone for the back-off, across polls (monitor.py:9).
RequestsAreSpaced == spacing.was >= spacing.owed
=============================================================================
