--------------------------- MODULE Traffic_proofs ---------------------------
(* Proofs about three parts of MCParts that look on: the monitor, for every   *)
(* wall, spacing, back-off and period of the slow endpoints; the recording    *)
(* proxy, its log and the pairing of the log, for every session; and three    *)
(* pure readings, the aggregate of a screen, the difference of two snapshots  *)
(* and the bytes of a captured stream, for any devices, lists and segments.   *)
(* Each part's invariant is kept by its own steps and no other part touches   *)
(* its variables.                                                             *)
EXTENDS MCParts, TLAPS, FiniteSetTheorems, SequenceTheorems, WellFoundedInduction

-----------------------------------------------------------------------------
(* The monitor: the inductive invariant                                      *)

Remaining == {<<>>, <<"monitoring">>, <<"cabinets", "monitoring">>,
              <<"device", "cabinets", "monitoring">>}
\* How much of a poll is left when an endpoint's turn comes.
Turn == [device |-> 3, cabinets |-> 2, monitoring |-> 1]
Given == {{}} \cup {{S} : S \in SUBSET Cabinet}

MonTyped ==
    /\ topology \in SUBSET Cabinet /\ present \in SUBSET topology
    /\ polls \in 0..MaxPolls /\ slow \in BOOLEAN
    /\ toRead \in Remaining
    /\ raw \in [Mon!Monitored -> Given] /\ cache \in [Mon!Monitored -> Given]
    /\ allowed \in 0..Backoff /\ since \in 0..Backoff
    /\ spacing \in [was : 0..Backoff, owed : 0..Backoff, next : 0..Backoff]
    /\ reads \in [Mon!Monitored -> [poll : 0..MaxPolls, failed : BOOLEAN]]
    /\ during \in [some : SUBSET Cabinet, every : SUBSET Cabinet]

\* What the next request will have waited is at least what the last one asks for.
WaitIsEnough ==
    /\ since + allowed >= spacing.next
    /\ Mon!RequestsAreSpaced

\* A slow endpoint is read at the latest in a poll that reads it whatever the
\* cache holds, and such a poll is never further back than the period.
SlowReads ==
    polls > 0 =>
        /\ slow <=> (polls - 1) % Every = 0
        /\ \A e \in Mon!Slow :
            \/ slow /\ Turn[e] <= Len(toRead)
            \/ polls - reads[e].poll <= (polls - 1) % Every
            \/ reads[e].failed

\* What monitoring answered in this poll lies between the cabinets that have
\* reported all through it and those that have reported at some time.
Reported ==
    /\ during.every \subseteq present /\ present \subseteq during.some
    /\ UNION raw["monitoring"] \subseteq during.some
    /\ raw["monitoring"] # {} => during.every \subseteq UNION raw["monitoring"]

MonInv == MonTyped /\ WaitIsEnough /\ SlowReads /\ Reported

-----------------------------------------------------------------------------
(* The monitor: arithmetic and the endpoints                                 *)

\* What the remainder is, and that there is one.
LEMMA Division ==
    ASSUME NEW n \in Nat, NEW k \in Nat \ {0}
    PROVE  n \div k \in Int /\ n % k \in 0..k-1 /\ n = k * (n \div k) + (n % k)
OBVIOUS

LEMMA OneRemainder ==
    ASSUME NEW k \in Nat \ {0}, NEW p \in Int, NEW q \in Int,
           NEW r \in 0..k-1, NEW s \in 0..k-1, k * p + r = k * q + s
    PROVE  r = s
<1>1. CASE p >= q + 1
  <2>1. k * p >= k * (q + 1)
    BY <1>1
  <2> QED
    BY <2>1
<1>2. CASE p <= q - 1
  <2>1. k * p <= k * (q - 1)
    BY <1>2
  <2> QED
    BY <2>1
<1>3. CASE p = q
  BY <1>3
<1> QED
  BY <1>1, <1>2, <1>3

\* The remainder goes up by one, or is back at zero.
LEMMA NextRemainder ==
    ASSUME NEW n \in Nat, NEW k \in Nat \ {0}, (n + 1) % k # 0
    PROVE  (n + 1) % k = (n % k) + 1
<1> DEFINE p == n \div k
           r == n % k
           q == (n + 1) \div k
           s == (n + 1) % k
<1>1. p \in Int /\ r \in 0..k-1 /\ n = k * p + r
  BY Division
<1>2. q \in Int /\ s \in 0..k-1 /\ n + 1 = k * q + s /\ s # 0
  BY Division
<1> HIDE DEF p, r, q, s
<1>3. s - 1 \in 0..k-1 /\ k * q + (s - 1) = k * p + r
  BY <1>1, <1>2
<1>4. s - 1 = r
  BY <1>1, <1>2, <1>3, OneRemainder
<1> QED
  BY <1>1, <1>2, <1>4 DEF r, s

\* The operators that an instance brings along are the ones of the library.
LEMMA SameOperators ==
    ASSUME NEW S
    PROVE  /\ Mon!IsFiniteSet(S) <=> IsFiniteSet(S)
           /\ Mon!Cardinality(S) = Cardinality(S)
<1>1. Mon!IsFiniteSet(S) <=> IsFiniteSet(S)
  BY DEF Mon!IsFiniteSet, IsFiniteSet
<1>2. Mon!Cardinality(S) = Cardinality(S)
  BY DEF Mon!Cardinality, Cardinality
<1> QED
  BY <1>1, <1>2

LEMMA MonAssumed ==
    /\ IsFiniteSet(Cabinet) /\ Every \in Nat \ {0} /\ Interval \in Nat \ {0}
    /\ Backoff \in Nat /\ Backoff >= Interval /\ MaxPolls \in Nat
BY PartsAssumption, SameOperators DEF Mon!MonitorAssumption

LEMMA EndpointsAre ==
    /\ Mon!MONITORING_ENDPOINTS = <<"device", "cabinets", "monitoring">>
    /\ Mon!Monitored = {"device", "cabinets", "monitoring"}
    /\ Mon!Slow = {"device", "cabinets"}
BY DEF Mon!MONITORING_ENDPOINTS, Mon!Monitored, Mon!Slow, Mon!ToSet

\* A poll takes its endpoints one at a time.
LEMMA ReadingOne ==
    ASSUME toRead \in Remaining, toRead # <<>>
    PROVE  /\ Mon!Reading \in Mon!Monitored /\ Turn[Mon!Reading] = Len(toRead)
           /\ Tail(toRead) \in Remaining /\ Len(Tail(toRead)) = Len(toRead) - 1
           /\ Len(toRead) \in 1..3
           /\ \A e \in Mon!Monitored : Turn[e] = Len(toRead) => e = Mon!Reading
           /\ \A e \in Mon!Monitored : Turn[e] \in 1..3
<1>1. CASE toRead = <<"monitoring">>
  BY <1>1, EndpointsAre DEF Remaining, Turn, Mon!Reading
<1>2. CASE toRead = <<"cabinets", "monitoring">>
  BY <1>2, EndpointsAre DEF Remaining, Turn, Mon!Reading
<1>3. CASE toRead = <<"device", "cabinets", "monitoring">>
  BY <1>3, EndpointsAre DEF Remaining, Turn, Mon!Reading
<1> QED
  BY <1>1, <1>2, <1>3 DEF Remaining

-----------------------------------------------------------------------------
(* The monitor: its steps                                                    *)

LEMMA MonInitHolds == Mon!Init => MonInv
<1> SUFFICES ASSUME Mon!Init PROVE MonInv
  OBVIOUS
<1>1. MonTyped
  <2>1. toRead \in Remaining /\ {} \in Given
    BY DEF Mon!Init, Remaining, Given
  <2>2. raw \in [Mon!Monitored -> Given] /\ cache \in [Mon!Monitored -> Given]
    BY <2>1 DEF Mon!Init
  <2>3. /\ 0 \in 0..Backoff /\ Backoff \in 0..Backoff /\ 0 \in 0..MaxPolls
    BY MonAssumed
  <2>4. /\ spacing \in [was : 0..Backoff, owed : 0..Backoff, next : 0..Backoff]
        /\ reads \in [Mon!Monitored -> [poll : 0..MaxPolls, failed : BOOLEAN]]
    BY <2>3 DEF Mon!Init
  <2> QED
    BY <2>1, <2>2, <2>3, <2>4 DEF Mon!Init, MonTyped
<1>2. WaitIsEnough
  BY MonAssumed DEF Mon!Init, WaitIsEnough, Mon!RequestsAreSpaced
<1>3. SlowReads
  BY DEF Mon!Init, SlowReads
<1>4. Reported
  BY EndpointsAre DEF Mon!Init, Reported
<1> QED
  BY <1>1, <1>2, <1>3, <1>4 DEF MonInv

LEMMA ChangeStep == MonInv /\ Mon!Change => MonInv'
<1> SUFFICES ASSUME MonInv, Mon!Change PROVE MonInv'
  OBVIOUS
<1>1. MonTyped'
  BY DEF MonInv, MonTyped, Mon!Change
<1>2. WaitIsEnough'
  BY DEF MonInv, WaitIsEnough, Mon!RequestsAreSpaced, Mon!Change
<1>3. SlowReads'
  BY DEF MonInv, SlowReads, Mon!Change
<1>4. Reported'
  BY DEF MonInv, MonTyped, Reported, Mon!Change
<1> QED
  BY <1>1, <1>2, <1>3, <1>4 DEF MonInv

LEMMA IdleStep == MonInv /\ Mon!Idle => MonInv'
<1> SUFFICES ASSUME MonInv, Mon!Idle PROVE MonInv'
  OBVIOUS
<1>1. MonTyped' /\ since' + allowed' >= since + allowed
  BY MonAssumed DEF MonInv, MonTyped, Mon!Idle, Mon!Left
<1>2. WaitIsEnough'
  <2>1. /\ since \in Nat /\ allowed \in Nat /\ since' \in Nat /\ allowed' \in Nat
        /\ spacing.next \in 0..Backoff /\ Backoff \in Nat
    BY <1>1, MonAssumed DEF MonInv, MonTyped
  <2> QED
    BY <1>1, <2>1 DEF MonInv, WaitIsEnough, Mon!RequestsAreSpaced, Mon!Idle
<1>3. SlowReads'
  BY DEF MonInv, SlowReads, Mon!Idle
<1>4. Reported'
  BY DEF MonInv, Reported, Mon!Idle
<1> QED
  BY <1>1, <1>2, <1>3, <1>4 DEF MonInv

LEMMA PollStep == MonInv /\ Mon!Poll => MonInv'
<1> SUFFICES ASSUME MonInv, Mon!Poll PROVE MonInv'
  OBVIOUS
<1>1. /\ toRead = <<>> /\ polls < MaxPolls /\ polls' = polls + 1
      /\ (slow' <=> polls % Every = 0) /\ slow' \in BOOLEAN
      /\ toRead' = <<"device", "cabinets", "monitoring">>
      /\ raw' = [e \in Mon!Monitored |-> {}]
      /\ during' = [some |-> present, every |-> present]
      /\ UNCHANGED <<topology, present, changes, cache, allowed, since, spacing, reads>>
  BY EndpointsAre DEF Mon!Poll, Mon!DueSlow
<1>2. MonTyped'
  <2>1. toRead' \in Remaining /\ {} \in Given
    BY <1>1 DEF Remaining, Given
  <2>2. raw' \in [Mon!Monitored -> Given]
    BY <1>1, <2>1
  <2>3. polls' \in 0..MaxPolls
    BY <1>1, MonAssumed DEF MonInv, MonTyped
  <2>4. during' \in [some : SUBSET Cabinet, every : SUBSET Cabinet]
    BY <1>1 DEF MonInv, MonTyped
  <2> QED
    BY <1>1, <2>1, <2>2, <2>3, <2>4 DEF MonInv, MonTyped
<1>3. WaitIsEnough'
  BY <1>1 DEF MonInv, WaitIsEnough, Mon!RequestsAreSpaced
<1>4. SlowReads'
  <2>1. ASSUME NEW e \in Mon!Slow, ~slow'
        PROVE  \/ polls' - reads'[e].poll <= (polls' - 1) % Every
               \/ reads'[e].failed
    <3>1. polls \in Nat /\ Every \in Nat \ {0} /\ polls % Every # 0 /\ e \in Mon!Monitored
      BY <1>1, <2>1, MonAssumed, EndpointsAre DEF MonInv, MonTyped
    <3>2. polls # 0
      <4>1. 0 % Every \in 0..Every-1 /\ 0 \div Every \in Int
            /\ 0 = Every * (0 \div Every) + (0 % Every)
        BY <3>1, Division
      <4>2. 0 % Every = 0
        <5> DEFINE d == 0 \div Every
                   r == 0 % Every
        <5>1. d \in Int /\ r \in 0..Every-1 /\ Every * d + r = Every * 0 + 0
          BY <4>1, <3>1
        <5> HIDE DEF d, r
        <5>2. r = 0
          BY <3>1, <5>1, OneRemainder
        <5> QED
          BY <5>2 DEF r
      <4> QED
        BY <3>1, <4>2
    <3> DEFINE n == polls - 1
    <3>3. n \in Nat /\ n + 1 = polls
      BY <3>1, <3>2
    <3>4. polls % Every = (n % Every) + 1
      BY <3>1, <3>3, NextRemainder
    <3>5. Turn[e] >= 1
      BY EndpointsAre DEF Turn
    <3>6. \/ polls - reads[e].poll <= n % Every
          \/ reads[e].failed
      BY <1>1, <3>1, <3>2, <3>5, EndpointsAre DEF MonInv, SlowReads, Turn
    <3>7. n % Every \in Nat /\ reads[e].poll \in Nat
      BY <3>1, <3>3, Division DEF MonInv, MonTyped
    <3> HIDE DEF n
    <3>8. polls' - 1 = polls /\ reads' = reads
      BY <1>1, <3>1
    <3> QED
      BY <1>1, <3>1, <3>4, <3>6, <3>7, <3>8
  <2>2. \A e \in Mon!Slow : Turn[e] <= Len(toRead')
    BY <1>1, EndpointsAre DEF Turn
  <2>3. slow' <=> (polls' - 1) % Every = 0
    BY <1>1 DEF MonInv, MonTyped
  <2> QED
    BY <1>1, <2>1, <2>2, <2>3 DEF SlowReads
<1>5. Reported'
  BY <1>1, EndpointsAre DEF Reported
<1> QED
  BY <1>2, <1>3, <1>4, <1>5 DEF MonInv

\* An endpoint that is not the slow one whose turn it is stays as it was read.
LEMMA ReadOn ==
    ASSUME MonInv, toRead # <<>>, toRead' = Tail(toRead),
           UNCHANGED <<polls, slow>>,
           reads' \in [Mon!Monitored -> [poll : 0..MaxPolls, failed : BOOLEAN]],
           \A e \in Mon!Monitored \ {Mon!Reading} : reads'[e] = reads[e],
           Mon!Reading \in Mon!Slow =>
               \/ reads'[Mon!Reading].poll = polls
               \/ reads'[Mon!Reading].failed
               \/ reads'[Mon!Reading] = reads[Mon!Reading] /\ ~slow
    PROVE  SlowReads' /\ toRead' \in Remaining
<1>1. /\ Turn[Mon!Reading] = Len(toRead) /\ Len(toRead') = Len(toRead) - 1
      /\ toRead' \in Remaining /\ Len(toRead) \in 1..3
      /\ \A e \in Mon!Monitored : Turn[e] = Len(toRead) => e = Mon!Reading
      /\ \A e \in Mon!Monitored : Turn[e] \in 1..3
  BY ReadingOne DEF MonInv, MonTyped
<1>2. ASSUME polls > 0, NEW e \in Mon!Slow
      PROVE  \/ slow /\ Turn[e] <= Len(toRead')
             \/ polls - reads'[e].poll <= (polls - 1) % Every
             \/ reads'[e].failed
  <2>1. /\ polls \in Nat /\ polls - 1 \in Nat /\ Every \in Nat \ {0}
        /\ e \in Mon!Monitored
    BY <1>2, MonAssumed, EndpointsAre DEF MonInv, MonTyped
  <2>2. (polls - 1) % Every \in Nat
    BY <2>1, Division
  <2>3. CASE e = Mon!Reading /\ reads'[e].poll = polls
    BY <2>1, <2>2, <2>3
  <2>4. CASE reads'[e] = reads[e] /\ (e = Mon!Reading => ~slow)
    <3>1. slow /\ Turn[e] <= Len(toRead) => Turn[e] <= Len(toRead')
      BY <1>1, <2>1, <2>4
    <3> QED
      BY <1>2, <2>4, <3>1 DEF MonInv, SlowReads
  <2> QED
    BY <1>2, <2>1, <2>3, <2>4
<1>3. SlowReads'
  BY <1>2 DEF MonInv, SlowReads
<1> QED
  BY <1>1, <1>3

LEMMA UseCacheStep == MonInv /\ Mon!UseCache => MonInv'
<1> SUFFICES ASSUME MonInv, Mon!UseCache PROVE MonInv'
  OBVIOUS
<1>1. /\ toRead # <<>> /\ toRead' = Tail(toRead)
      /\ Mon!Reading \in Mon!Slow /\ ~slow
      /\ raw' = [raw EXCEPT ![Mon!Reading] = cache[Mon!Reading]]
      /\ UNCHANGED <<topology, present, changes, polls, slow, cache, allowed, since,
                     spacing, reads, during>>
  BY DEF Mon!UseCache, Mon!FromCache
<1>2. SlowReads' /\ toRead' \in Remaining
  BY <1>1, ReadOn DEF MonInv, MonTyped
<1>3. /\ Mon!Reading \in Mon!Monitored /\ Mon!Reading # "monitoring"
      /\ "monitoring" \in Mon!Monitored
  BY <1>1, EndpointsAre
<1>4. raw' \in [Mon!Monitored -> Given] /\ raw'["monitoring"] = raw["monitoring"]
  BY <1>1, <1>3 DEF MonInv, MonTyped
<1>5. MonTyped'
  BY <1>1, <1>2, <1>4 DEF MonInv, MonTyped
<1>6. WaitIsEnough'
  BY <1>1 DEF MonInv, WaitIsEnough, Mon!RequestsAreSpaced
<1>7. Reported'
  BY <1>1, <1>4 DEF MonInv, Reported
<1> QED
  BY <1>2, <1>5, <1>6, <1>7 DEF MonInv

\* Whatever the answer, the next request will have waited for what it asks.
LEMMA RequestSpaced ==
    ASSUME MonInv, NEW busy \in BOOLEAN, NEW took \in 0..1, Mon!Request(busy, took)
    PROVE  /\ allowed' \in 0..Backoff /\ since' \in 0..Backoff
           /\ spacing' \in [was : 0..Backoff, owed : 0..Backoff, next : 0..Backoff]
           /\ WaitIsEnough'
<1>1. /\ since \in Nat /\ allowed \in Nat /\ since + allowed \in Nat
      /\ spacing.next \in 0..Backoff /\ since + allowed >= spacing.next
      /\ Backoff \in Nat /\ Interval \in Nat /\ Backoff >= Interval /\ Interval >= 1
  BY MonAssumed DEF MonInv, MonTyped, WaitIsEnough
<1>2. /\ Mon!Lower(since + allowed, Backoff) \in 0..Backoff
      /\ Mon!Lower(since + allowed, Backoff) >= spacing.next
  BY <1>1 DEF Mon!Lower
<1>3. /\ spacing' = [was |-> Mon!Lower(since + allowed, Backoff), owed |-> spacing.next,
                     next |-> IF busy THEN Backoff ELSE Interval]
      /\ allowed' = Mon!Allowance(busy, took) /\ since' = took
  BY DEF Mon!Request
<1>4. /\ allowed' \in 0..Backoff /\ since' \in 0..Backoff
      /\ since' + allowed' >= (IF busy THEN Backoff ELSE Interval)
  BY <1>1, <1>3 DEF Mon!Allowance, Mon!Left
<1>5. spacing' \in [was : 0..Backoff, owed : 0..Backoff, next : 0..Backoff]
  BY <1>1, <1>2, <1>3
<1>6. WaitIsEnough'
  BY <1>2, <1>3, <1>4 DEF WaitIsEnough, Mon!RequestsAreSpaced
<1> QED
  BY <1>4, <1>5, <1>6

LEMMA ReadStep == MonInv /\ Mon!Read => MonInv'
<1> SUFFICES ASSUME MonInv, Mon!Read PROVE MonInv'
  OBVIOUS
<1>1. /\ toRead # <<>> /\ toRead' = Tail(toRead)
      /\ \E took \in 0..1 : Mon!Request(FALSE, took)
      /\ raw' = [raw EXCEPT ![Mon!Reading] = {Mon!Answer}]
      /\ cache' = IF Mon!Reading \in Mon!Slow
                  THEN [cache EXCEPT ![Mon!Reading] = {Mon!Answer}] ELSE cache
      /\ reads' = [reads EXCEPT ![Mon!Reading] = [poll |-> polls, failed |-> FALSE]]
      /\ UNCHANGED <<topology, present, changes, polls, slow, during>>
  BY DEF Mon!Read
<1>2. Mon!Reading \in Mon!Monitored
  BY <1>1, ReadingOne DEF MonInv, MonTyped
<1>3. /\ Mon!Answer \in SUBSET Cabinet
      /\ Mon!Reading = "monitoring" => Mon!Answer = present
  BY <1>2, EndpointsAre DEF MonInv, MonTyped, Mon!Answer
<1>4. {Mon!Answer} \in Given
  BY <1>3 DEF Given
<1>5. raw' \in [Mon!Monitored -> Given] /\ cache' \in [Mon!Monitored -> Given]
  BY <1>1, <1>2, <1>4 DEF MonInv, MonTyped
<1>6. /\ reads' \in [Mon!Monitored -> [poll : 0..MaxPolls, failed : BOOLEAN]]
      /\ reads'[Mon!Reading].poll = polls
      /\ \A e \in Mon!Monitored \ {Mon!Reading} : reads'[e] = reads[e]
  BY <1>1, <1>2 DEF MonInv, MonTyped
<1>7. SlowReads' /\ toRead' \in Remaining
  BY <1>1, <1>6, ReadOn
<1>8. /\ allowed' \in 0..Backoff /\ since' \in 0..Backoff
      /\ spacing' \in [was : 0..Backoff, owed : 0..Backoff, next : 0..Backoff]
      /\ WaitIsEnough'
  BY <1>1, RequestSpaced
<1>9. MonTyped'
  BY <1>1, <1>5, <1>6, <1>7, <1>8 DEF MonInv, MonTyped
<1>10. Reported'
  <2>1. "monitoring" \in Mon!Monitored
    BY EndpointsAre
  <2>2. CASE Mon!Reading = "monitoring"
    <3>1. raw'["monitoring"] = {present}
      BY <1>1, <1>3, <2>1, <2>2 DEF MonInv, MonTyped
    <3> QED
      BY <1>1, <3>1 DEF MonInv, Reported
  <2>3. CASE Mon!Reading # "monitoring"
    <3>1. raw'["monitoring"] = raw["monitoring"]
      BY <1>1, <2>1, <2>3 DEF MonInv, MonTyped
    <3> QED
      BY <1>1, <3>1 DEF MonInv, Reported
  <2> QED
    BY <2>2, <2>3
<1> QED
  BY <1>7, <1>8, <1>9, <1>10 DEF MonInv

LEMMA ReadFailsStep == MonInv /\ Mon!ReadFails => MonInv'
<1> SUFFICES ASSUME MonInv, Mon!ReadFails PROVE MonInv'
  OBVIOUS
<1>1. /\ toRead # <<>> /\ toRead' = Tail(toRead)
      /\ \E busy \in BOOLEAN, took \in 0..1 : Mon!Request(busy, took)
      /\ reads' = [reads EXCEPT ![Mon!Reading].failed = TRUE]
      /\ UNCHANGED <<topology, present, changes, polls, slow, raw, cache, during>>
  BY DEF Mon!ReadFails
<1>2. Mon!Reading \in Mon!Monitored
  BY <1>1, ReadingOne DEF MonInv, MonTyped
<1>3. /\ reads' \in [Mon!Monitored -> [poll : 0..MaxPolls, failed : BOOLEAN]]
      /\ reads'[Mon!Reading].failed
      /\ \A e \in Mon!Monitored \ {Mon!Reading} : reads'[e] = reads[e]
  BY <1>1, <1>2 DEF MonInv, MonTyped
<1>4. SlowReads' /\ toRead' \in Remaining
  BY <1>1, <1>3, ReadOn
<1>5. /\ allowed' \in 0..Backoff /\ since' \in 0..Backoff
      /\ spacing' \in [was : 0..Backoff, owed : 0..Backoff, next : 0..Backoff]
      /\ WaitIsEnough'
  BY <1>1, RequestSpaced
<1>6. MonTyped'
  BY <1>1, <1>3, <1>4, <1>5 DEF MonInv, MonTyped
<1>7. Reported'
  BY <1>1 DEF MonInv, Reported
<1> QED
  BY <1>4, <1>5, <1>6, <1>7 DEF MonInv

-----------------------------------------------------------------------------
(* The monitor: the theorems                                                 *)

\* The parts beside the monitor leave it as it is.
LEMMA MonitorAlone == [PartsNext]_<<part, vars, scrVars, verVars, conVars, monVars, recVars, reaVars>>
                        => Mon!Next \/ UNCHANGED monVars
BY DEF PartsNext, Server, DrivingScreens, Verifying, Contacting, Monitoring, Proxying,
   Interpreting

LEMMA MonNextHolds == MonInv /\ (Mon!Next \/ UNCHANGED monVars) => MonInv'
<1>1. MonInv /\ Mon!Next => MonInv'
  BY ChangeStep, IdleStep, PollStep, UseCacheStep, ReadStep, ReadFailsStep DEF Mon!Next
<1>2. MonInv /\ UNCHANGED monVars => MonInv'
  BY DEF monVars, MonInv, MonTyped, WaitIsEnough, SlowReads, Reported, Mon!RequestsAreSpaced
<1> QED
  BY <1>1, <1>2

\* The monitor's invariant, whatever the wall does while it polls.
THEOREM MonitorInvariant == PartsSpec => []MonInv
<1>1. PartsInit => MonInv
  BY MonInitHolds DEF PartsInit
<1> QED
  BY <1>1, MonitorAlone, MonNextHolds, PTL DEF PartsSpec

\* The controller is never hammered: two requests are an interval apart, and one
\* that is busy is left alone for the back-off, across polls (monitor.py:9).
THEOREM NeverHammered == PartsSpec => []RequestsAreSpaced
<1>1. MonInv => RequestsAreSpaced
  BY DEF MonInv, WaitIsEnough, RequestsAreSpaced
<1> QED
  BY <1>1, MonitorInvariant, PTL

\* What a snapshot shows of a slow endpoint was read at most a period before, or
\* the controller did not answer when it was asked again (monitor.py:195).
THEOREM CacheIsCurrent == PartsSpec => []SlowIsCurrent
<1>1. ASSUME MonInv, Mon!Finished, NEW e \in Mon!Slow
      PROVE  polls - reads[e].poll < Every \/ reads[e].failed
  <2>1. /\ polls \in Nat /\ polls - 1 \in Nat /\ polls > 0 /\ Every \in Nat \ {0}
        /\ Len(toRead) = 0 /\ Turn[e] > 0 /\ e \in Mon!Monitored
    BY <1>1, MonAssumed, EndpointsAre DEF MonInv, MonTyped, Mon!Finished, Turn
  <2>2. (polls - 1) % Every \in 0..Every-1
    BY <2>1, Division
  <2>3. ~(Turn[e] <= Len(toRead))
    BY <2>1, EndpointsAre DEF Turn
  <2>4. polls - reads[e].poll <= (polls - 1) % Every \/ reads[e].failed
    BY <1>1, <2>1, <2>3 DEF MonInv, SlowReads
  <2>5. reads[e].poll \in 0..MaxPolls /\ MaxPolls \in Nat
    BY <1>1, <2>1, MonAssumed DEF MonInv, MonTyped
  <2> QED
    BY <2>1, <2>2, <2>4, <2>5
<1>2. MonInv => SlowIsCurrent
  BY <1>1 DEF SlowIsCurrent, Mon!SlowIsCurrent
<1> QED
  BY <1>2, MonitorInvariant, PTL

\* What is shown online reported in this very poll, what is shown offline did not
\* all through it, and the counts add up: the cache never stands in for readings
\* (monitor.py:344).
THEOREM ReadingsAreFresh == PartsSpec => []ShownAsReported
<1>1. ASSUME MonInv PROVE Mon!ShownAsReported
  <2> DEFINE some == during.some
             every == during.every
             listed == Mon!Listed
             heard == Mon!live
  <2>1. /\ some \in SUBSET Cabinet /\ every \subseteq some
        /\ listed \in SUBSET Cabinet /\ heard \in SUBSET Cabinet
    <3>1. raw["cabinets"] \in Given /\ raw["monitoring"] \in Given
      BY <1>1, EndpointsAre DEF MonInv, MonTyped
    <3>2. \A g \in Given : UNION g \in SUBSET Cabinet
      BY DEF Given
    <3> QED
      BY <1>1, <3>1, <3>2 DEF MonInv, MonTyped, Reported, Mon!Listed, Mon!live
  <2>2. heard \subseteq some /\ (heard # {} => every \subseteq heard)
    BY <1>1 DEF MonInv, Reported, Mon!live
  <2>3. /\ Mon!online = listed \cap heard
        /\ Mon!offline = IF heard = {} THEN {} ELSE listed \ heard
        /\ Mon!healthy <=> Mon!online # {} /\ Mon!offline = {}
    BY DEF Mon!online, Mon!offline, Mon!healthy
  <2>4. /\ Mon!interpret_monitor_info.cabinets_online = Cardinality(heard)
        /\ Mon!survey_status.cabinets_total = Cardinality(listed)
        /\ Mon!survey_status.cabinets_online = Cardinality(Mon!online)
        /\ Mon!survey_status.cabinets_offline = Mon!offline
    BY SameOperators DEF Mon!interpret_monitor_info, Mon!survey_status
  <2> HIDE DEF some, every, listed, heard
  <2>5. /\ Mon!online \subseteq some /\ Mon!offline \cap every = {}
        /\ Mon!healthy => listed \subseteq some
    BY <2>1, <2>2, <2>3
  <2>6. IsFiniteSet(some) /\ IsFiniteSet(listed)
    BY <2>1, MonAssumed, FS_Subset
  <2>7. Cardinality(heard) <= Cardinality(some)
    BY <2>2, <2>6, FS_Subset
  <2>8. heard # {} => Cardinality(listed) = Cardinality(Mon!online) + Cardinality(Mon!offline)
    <3>1. Cardinality(listed \ heard) = Cardinality(listed) - Cardinality(listed \cap heard)
      BY <2>6, FS_Difference
    <3>2. Cardinality(listed) \in Nat /\ Cardinality(listed \cap heard) \in Nat
      BY <2>6, FS_CardinalityType, FS_Intersection
    <3>3. heard # {} => Mon!offline = listed \ heard
      BY <2>3
    <3> QED
      BY <2>3, <3>1, <3>2, <3>3
  <2>9. /\ Mon!Cardinality(some) = Cardinality(some)
        /\ Mon!Cardinality(Mon!offline) = Cardinality(Mon!offline)
    BY SameOperators
  <2> QED
    BY <2>4, <2>5, <2>7, <2>8, <2>9 DEF Mon!ShownAsReported, some, every, listed, heard
<1>2. MonInv => ShownAsReported
  BY <1>1 DEF ShownAsReported
<1> QED
  BY <1>2, MonitorInvariant, PTL

-----------------------------------------------------------------------------
(* Numbers, and folds over finite sets                                       *)

\* A set of numbers has a smallest, and a bounded one a greatest: what the
\* operators that choose them return is one of them.
LEMMA LeastOf ==
    ASSUME NEW S \in SUBSET Nat, S # {}
    PROVE  \E x \in S : \A y \in S : x <= y
<1>1. PICK x \in S : \A y \in S : ~ (<<y, x>> \in OpToRel(<, Nat))
  BY NatLessThanWellFounded, WFMin
<1>2. \A y \in S : ~ (y < x)
  BY <1>1 DEF OpToRel
<1> QED
  BY <1>2

LEMMA SmallestIsOne ==
    ASSUME NEW S \in SUBSET Nat, S # {}
    PROVE  Rea!Min(S) \in S
BY LeastOf DEF Rea!Min

LEMMA LargestIsOne ==
    ASSUME NEW n \in Nat, NEW S \in SUBSET (1..n), S # {}
    PROVE  Rea!Max(S) \in S /\ Rec!Max(S) \in S
<1> DEFINE T == {n - i : i \in S}
<1>1. \A i \in S : i \in Int /\ 1 <= i /\ i <= n
  OBVIOUS
<1>2. T \in SUBSET Nat /\ T # {}
  <2>1. \A i \in S : n - i \in Nat
    BY <1>1
  <2> QED
    BY <2>1
<1>3. PICK x \in T : \A y \in T : x <= y
  BY <1>2, LeastOf
<1>4. PICK m \in S : x = n - m
  OBVIOUS
<1>5. \A i \in S : n - m <= n - i
  BY <1>3, <1>4
<1>6. \A i \in S : m >= i
  BY <1>1, <1>5
<1> QED
  BY <1>6 DEF Rea!Max, Rec!Max

\* Half of a number, and what is left.
LEMMA Halved ==
    ASSUME NEW n \in Nat
    PROVE  n \div 2 \in Nat /\ n % 2 \in {0, 1} /\ n = 2 * (n \div 2) + (n % 2)
<1>1. n \div 2 \in Int /\ n % 2 \in 0..1 /\ n = 2 * (n \div 2) + (n % 2)
  BY Division
<1> QED
  BY <1>1

LEMMA HalfAtMost ==
    ASSUME NEW n \in Nat, NEW m \in Nat, n <= 2 * m
    PROVE  n \div 2 \in 0..m
<1> DEFINE d == n \div 2
           r == n % 2
<1>1. d \in Nat /\ r \in {0, 1} /\ n = 2 * d + r
  BY Halved
<1> HIDE DEF d, r
<1>2. d <= m
  BY <1>1
<1> QED
  BY <1>1, <1>2 DEF d

Smaller(S, n) == {s \in SUBSET S : Cardinality(s) <= n}
FoldStep(base, c, h, g, s) == IF s = {} THEN base ELSE h[c[s], g[s \ {c[s]}]]

Chooses(S, c) == \A s \in SUBSET S : s # {} => c[s] \in s
IsFold(S, V, base, c, h, g) ==
    g \in [SUBSET S -> V] /\ \A s \in SUBSET S : g[s] = FoldStep(base, c, h, g, s)

\* A fold over a finite set is defined: whatever is chosen from each subset, and
\* whatever is done with it.
LEMMA FoldExists ==
    ASSUME NEW S, IsFiniteSet(S), NEW V, NEW base \in V,
           NEW c, Chooses(S, c), NEW h \in [S \X V -> V]
    PROVE  \E g : IsFold(S, V, base, c, h, g)
<1> DEFINE Table(n, g) == /\ g \in [Smaller(S, n) -> V]
                          /\ \A s \in Smaller(S, n) : g[s] = FoldStep(base, c, h, g, s)
           Bad == {n \in Nat : ~ \E g : Table(n, g)}
<1>1. \A s \in SUBSET S :
         IsFiniteSet(s) /\ Cardinality(s) \in Nat /\ Cardinality(s) <= Cardinality(S)
  BY FS_Subset, FS_CardinalityType
<1>2. \A s \in SUBSET S : s # {} =>
         /\ c[s] \in s /\ s \ {c[s]} \in SUBSET S
         /\ Cardinality(s \ {c[s]}) = Cardinality(s) - 1
  BY <1>1, FS_RemoveElement DEF Chooses
<1>3. \A s \in SUBSET S : Cardinality(s) = 0 <=> s = {}
  BY <1>1, FS_EmptySet
<1>4. Table(0, [s \in Smaller(S, 0) |-> base])
  <2>1. \A s \in Smaller(S, 0) : s = {}
    BY <1>1, <1>3 DEF Smaller
  <2> QED
    BY <2>1 DEF FoldStep
<1>5. ASSUME NEW n \in Nat, n # 0, NEW g, Table(n - 1, g)
      PROVE  \E k : Table(n, k)
  <2> DEFINE k == [s \in Smaller(S, n) |-> FoldStep(base, c, h, g, s)]
  <2>1. ASSUME NEW s \in Smaller(S, n), s # {}
        PROVE  s \ {c[s]} \in Smaller(S, n - 1) /\ c[s] \in S
    BY <1>1, <1>2, <2>1 DEF Smaller
  <2>2. \A s \in Smaller(S, n - 1) : s \in Smaller(S, n) /\ g[s] \in V
    BY <1>1, <1>5 DEF Smaller
  <2>3. \A s \in Smaller(S, n - 1) : k[s] = g[s]
    BY <1>5, <2>2
  <2>4. k \in [Smaller(S, n) -> V]
    BY <2>1, <2>2 DEF FoldStep
  <2>5. \A s \in Smaller(S, n) : k[s] = FoldStep(base, c, h, k, s)
    BY <2>1, <2>3 DEF FoldStep
  <2> QED
    BY <2>4, <2>5
<1>6. Bad = {}
  <2> SUFFICES ASSUME Bad # {} PROVE FALSE
    OBVIOUS
  <2>1. PICK n \in Bad : \A m \in Bad : n <= m
    BY LeastOf
  <2>2. n # 0 /\ n \in Nat
    BY <1>4, <2>1
  <2>3. n - 1 \in Nat /\ n - 1 \notin Bad
    BY <2>1, <2>2
  <2>4. \E g : Table(n - 1, g)
    BY <2>3
  <2> QED
    BY <1>5, <2>1, <2>2, <2>4
<1>7. Smaller(S, Cardinality(S)) = SUBSET S /\ Cardinality(S) \in Nat
  BY <1>1 DEF Smaller
<1>8. PICK g : Table(Cardinality(S), g)
  BY <1>6, <1>7
<1> QED
  BY <1>7, <1>8 DEF IsFold

-----------------------------------------------------------------------------
(* The proxy: the inductive invariant                                        *)

Frame == [n : Nat, kind : Rec!Kind]
Half == [frame : Frame, half : 1..2]

RecTyped ==
    /\ sent \in [Rec!Way -> Seq(Frame)]
    /\ wire \in [Rec!Way -> Seq(Half)] /\ chunk \in [Rec!Way -> Seq(Half)]
    /\ forwarded \in [Rec!Way -> Seq(Half)]
    /\ DOMAIN pump = Rec!Way

\* A pump that receives, or records, has forwarded what it received before.
NothingHeldBack ==
    \A w \in Rec!Way : pump[w] \in {"off", "recv", "record"} => chunk[w] = <<>>

\* The two pumps of a session are started together.
StartedTogether == \A v, w \in Rec!Way : pump[v] = "off" => pump[w] = "off"

\* Where every half that was sent is, even in a session that has broken.
NothingLost ==
    \A w \in Rec!Way : forwarded[w] \o chunk[w] \o wire[w] = Rec!AllHalves(w)

RecInv == RecTyped /\ NothingHeldBack /\ StartedTogether /\ NothingLost

-----------------------------------------------------------------------------
(* The proxy: sequences of halves                                            *)

LEMMA HalvesTyped ==
    ASSUME NEW f \in Frame
    PROVE  /\ Rec!Halves(f) \in Seq(Half) /\ Len(Rec!Halves(f)) = 2
           /\ \A i \in 1..2 : Rec!Halves(f)[i] \in Half
BY DEF Rec!Halves, Half

\* All the halves of a list of frames, and of the list with one more.
Split(frames) == [k \in 1..2 * Len(frames) |-> Rec!Halves(frames[(k + 1) \div 2])[2 - (k % 2)]]

LEMMA SplitTyped ==
    ASSUME NEW s \in Seq(Frame)
    PROVE  Split(s) \in Seq(Half) /\ Len(Split(s)) = 2 * Len(s)
<1>1. Len(s) \in Nat /\ 2 * Len(s) \in Nat
  BY LenProperties
<1>2. ASSUME NEW k \in 1..2 * Len(s)
      PROVE  Rec!Halves(s[(k + 1) \div 2])[2 - (k % 2)] \in Half
  <2> DEFINE i == (k + 1) \div 2
             half == 2 - (k % 2)
  <2>1. i \in 1..Len(s) /\ half \in 1..2
    BY <1>1, <1>2
  <2> HIDE DEF i, half
  <2>2. s[i] \in Frame
    BY <2>1, ElementOfSeq
  <2>3. Rec!Halves(s[i])[half] \in Half
    BY <2>1, <2>2, HalvesTyped
  <2> QED
    BY <2>3 DEF i, half
<1>3. Split(s) \in [1..2 * Len(s) -> Half]
  BY <1>2 DEF Split
<1> QED
  BY <1>1, <1>3, IsASeq

LEMMA SplitAppend ==
    ASSUME NEW s \in Seq(Frame), NEW f \in Frame
    PROVE  Split(Append(s, f)) = Split(s) \o Rec!Halves(f)
<1> DEFINE t == Append(s, f)
           a == Split(s)
           h == Rec!Halves(f)
           left == Split(t)
           right == a \o h
<1>1. /\ t \in Seq(Frame) /\ Len(t) = Len(s) + 1 /\ Len(s) \in Nat
      /\ \A i \in 1..Len(s) : t[i] = s[i]
      /\ t[Len(s) + 1] = f
  BY AppendProperties, LenProperties
<1>2. a \in Seq(Half) /\ Len(a) = 2 * Len(s) /\ h \in Seq(Half) /\ Len(h) = 2
  BY SplitTyped, HalvesTyped
<1>3. \A k \in 1..2 * Len(t) : left[k] = Rec!Halves(t[(k + 1) \div 2])[2 - (k % 2)]
  BY DEF Split
<1>4. \A k \in 1..2 * Len(s) : a[k] = Rec!Halves(s[(k + 1) \div 2])[2 - (k % 2)]
  BY DEF Split
<1> HIDE DEF t
<1>5. left \in Seq(Half) /\ Len(left) = 2 * Len(t)
  BY <1>1, SplitTyped
<1>6. Len(left) = 2 * Len(s) + 2
  BY <1>1, <1>5
<1> HIDE DEF a, h, left
<1>7. /\ right \in Seq(Half) /\ Len(right) = 2 * Len(s) + 2
      /\ \A k \in 1..2 * Len(s) + 2 :
            right[k] = IF k <= 2 * Len(s) THEN a[k] ELSE h[k - 2 * Len(s)]
  <2>1. /\ right \in Seq(Half) /\ Len(right) = Len(a) + Len(h)
        /\ \A k \in 1..Len(a) + Len(h) :
              right[k] = IF k <= Len(a) THEN a[k] ELSE h[k - Len(a)]
    BY <1>2, ConcatProperties
  <2> HIDE DEF right
  <2> QED
    BY <1>1, <1>2, <2>1
<1> HIDE DEF right
<1>8. ASSUME NEW k \in 1..2 * Len(s) + 2 PROVE left[k] = right[k]
  <2>1. CASE k <= 2 * Len(s)
    <3>1. k \in 1..2 * Len(s) /\ (k + 1) \div 2 \in 1..Len(s) /\ k \in 1..2 * Len(t)
      BY <1>1, <2>1
    <3>2. t[(k + 1) \div 2] = s[(k + 1) \div 2]
      BY <1>1, <3>1
    <3> QED
      BY <1>3, <1>4, <1>7, <2>1, <3>1, <3>2
  <2>2. CASE k > 2 * Len(s)
    <3>1. /\ (k + 1) \div 2 = Len(s) + 1 /\ k \in 1..2 * Len(t)
          /\ 2 - (k % 2) = k - 2 * Len(s)
      BY <1>1, <2>2
    <3>2. left[k] = Rec!Halves(t[(k + 1) \div 2])[2 - (k % 2)]
      BY <1>3, <3>1
    <3>3. left[k] = h[k - 2 * Len(s)]
      BY <1>1, <3>1, <3>2 DEF h
    <3>4. right[k] = h[k - 2 * Len(s)]
      BY <1>1, <1>7, <2>2
    <3> QED
      BY <3>3, <3>4
  <2> QED
    BY <1>1, <2>1, <2>2
<1>9. left = right
  BY <1>1, <1>5, <1>6, <1>7, <1>8, SeqEqual
<1> QED
  BY <1>9 DEF t, a, h, left, right

LEMMA HalvesAssociate ==
    ASSUME NEW a \in Seq(Half), NEW b \in Seq(Half), NEW c \in Seq(Half)
    PROVE  (a \o b) \o c = a \o (b \o c)
BY ConcatAssociative

LEMMA AllHalvesIsSplit == \A w : Rec!AllHalves(w) = Split(sent[w])
BY DEF Rec!AllHalves, Split

-----------------------------------------------------------------------------
(* The proxy: its steps                                                      *)

LEMMA RecInitHolds == Rec!Init => RecInv
<1> SUFFICES ASSUME Rec!Init PROVE RecInv
  OBVIOUS
<1>1. \A S : <<>> \in Seq(S)
  BY EmptySeq
<1>2. RecTyped
  BY <1>1 DEF Rec!Init, RecTyped
<1>3. NothingHeldBack /\ StartedTogether
  BY DEF Rec!Init, NothingHeldBack, StartedTogether
<1>4. ASSUME NEW w \in Rec!Way
      PROVE  forwarded[w] \o chunk[w] \o wire[w] = Rec!AllHalves(w)
  <2>1. forwarded[w] = <<>> /\ chunk[w] = <<>> /\ wire[w] = <<>> /\ sent[w] = <<>>
    BY DEF Rec!Init
  <2> DEFINE none == <<>>
  <2>2. Split(<<>>) \in Seq(Half) /\ Len(Split(<<>>)) = 0
    <3>1. none \in Seq(Frame) /\ Len(none) = 0
      BY <1>1
    <3> HIDE DEF none
    <3>2. Split(none) \in Seq(Half) /\ Len(Split(none)) = 2 * Len(none)
      BY <3>1, SplitTyped
    <3> HIDE DEF Split
    <3>3. Len(Split(none)) = 0
      BY <3>1, <3>2
    <3> QED
      BY <3>2, <3>3 DEF none
  <2>3. Split(<<>>) = <<>>
    BY <2>2, EmptySeq
  <2>4. <<>> \o <<>> \o <<>> = <<>>
    BY <1>1, ConcatEmptySeq
  <2> QED
    BY <2>1, <2>3, <2>4, AllHalvesIsSplit
<1> QED
  BY <1>2, <1>3, <1>4 DEF RecInv, NothingLost

\* What a program sends goes to the end of the wire.
LEMMA TransmitStep ==
    ASSUME RecInv, NEW v \in Rec!Way, NEW f \in Frame, Rec!Transmit(v, f)
    PROVE  RecInv'
<1>1. /\ sent' = [sent EXCEPT ![v] = Append(@, f)]
      /\ wire' = [wire EXCEPT ![v] = @ \o Rec!Halves(f)]
      /\ UNCHANGED <<pump, chunk, forwarded>>
  BY DEF Rec!Transmit
<1>2. /\ sent[v] \in Seq(Frame) /\ wire[v] \in Seq(Half) /\ chunk[v] \in Seq(Half)
      /\ forwarded[v] \in Seq(Half)
  BY DEF RecInv, RecTyped
<1>3. Append(sent[v], f) \in Seq(Frame)
  BY <1>2, AppendProperties
<1>4. wire[v] \o Rec!Halves(f) \in Seq(Half)
  BY <1>2, HalvesTyped, ConcatProperties
<1>5. RecTyped'
  BY <1>1, <1>3, <1>4 DEF RecInv, RecTyped
<1>6. NothingHeldBack' /\ StartedTogether'
  BY <1>1 DEF RecInv, NothingHeldBack, StartedTogether
<1>7. ASSUME NEW w \in Rec!Way
      PROVE  forwarded'[w] \o chunk'[w] \o wire'[w] = Split(sent'[w])
  <2>1. CASE w # v
    BY <1>1, <2>1, AllHalvesIsSplit DEF RecInv, RecTyped, NothingLost
  <2>2. CASE w = v
    <3> DEFINE passed == forwarded[v] \o chunk[v]
               rest == wire[v]
               new == Rec!Halves(f)
    <3>1. passed \in Seq(Half) /\ rest \in Seq(Half) /\ new \in Seq(Half)
      BY <1>2, ConcatProperties, HalvesTyped
    <3>2. passed \o rest = Split(sent[v])
      BY AllHalvesIsSplit DEF RecInv, NothingLost
    <3>3. Split(Append(sent[v], f)) = Split(sent[v]) \o new
      BY <1>2, SplitAppend
    <3>4. sent'[v] = Append(sent[v], f) /\ wire'[v] = rest \o new
      BY <1>1 DEF RecInv, RecTyped
    <3>5. forwarded'[v] \o chunk'[v] = passed
      BY <1>1
    <3> HIDE DEF passed, rest, new
    <3>6. (passed \o rest) \o new = passed \o (rest \o new)
      BY <3>1, ConcatAssociative
    <3> QED
      BY <2>2, <3>2, <3>3, <3>4, <3>5, <3>6
  <2> QED
    BY <2>1, <2>2
<1>8. NothingLost'
  BY <1>7 DEF NothingLost, Rec!AllHalves, Split
<1> QED
  BY <1>5, <1>6, <1>8 DEF RecInv

LEMMA AskAnswerSteps == RecInv /\ (Rec!Ask \/ Rec!Answer) => RecInv'
<1>1. "request" \in Rec!Way /\ "response" \in Rec!Way
  BY DEF Rec!Way
<1>2. ASSUME RecInv, Rec!Ask PROVE RecInv'
  <2>1. PICK kind \in Rec!Kind :
          Rec!Transmit("request", [n |-> Len(sent["request"]) + 1, kind |-> kind])
    BY <1>2 DEF Rec!Ask
  <2>2. Len(sent["request"]) \in Nat
    BY <1>1, <1>2, LenProperties DEF RecInv, RecTyped
  <2>3. [n |-> Len(sent["request"]) + 1, kind |-> kind] \in Frame
    BY <2>2 DEF Frame
  <2> QED
    BY <1>1, <1>2, <2>1, <2>3, TransmitStep
<1>3. ASSUME RecInv, Rec!Answer PROVE RecInv'
  <2>1. Len(sent["request"]) \in Nat
    BY <1>1, <1>3, LenProperties DEF RecInv, RecTyped
  <2>2. PICK n \in 1..Len(sent["request"]), kind \in Rec!Kind :
          Rec!Transmit("response", [n |-> n, kind |-> kind])
    BY <1>3 DEF Rec!Answer
  <2>3. [n |-> n, kind |-> kind] \in Frame
    BY <2>1 DEF Frame
  <2> QED
    BY <1>1, <1>3, <2>2, <2>3, TransmitStep
<1> QED
  BY <1>2, <1>3

\* A pump takes what it can get off the wire, and it had forwarded all before.
LEMMA ReceiveStep == ASSUME RecInv, NEW v \in Rec!Way, Rec!Receive(v) PROVE RecInv'
<1>1. PICK n \in 1..Len(wire[v]) :
        /\ chunk' = [chunk EXCEPT ![v] = SubSeq(wire[v], 1, n)]
        /\ wire' = [wire EXCEPT ![v] = SubSeq(@, n + 1, Len(@))]
  BY DEF Rec!Receive
<1>2. /\ pump[v] = "recv" /\ pump' = [pump EXCEPT ![v] = "send"]
      /\ UNCHANGED <<sent, forwarded>>
  BY DEF Rec!Receive
<1> DEFINE rest == wire[v]
           taken == SubSeq(rest, 1, n)
           left == SubSeq(rest, n + 1, Len(rest))
<1>3. rest \in Seq(Half) /\ forwarded[v] \in Seq(Half) /\ chunk[v] = <<>>
  BY <1>2 DEF RecInv, RecTyped, NothingHeldBack
<1>4. chunk' = [chunk EXCEPT ![v] = taken] /\ wire' = [wire EXCEPT ![v] = left]
  BY <1>1
<1> HIDE DEF rest
<1>5. Len(rest) \in Nat /\ n \in 1..Len(rest)
  BY <1>3, LenProperties DEF rest
<1>6. taken \in Seq(Half) /\ left \in Seq(Half)
  <2>1. \A i \in 1..Len(rest) : rest[i] \in Half
    BY <1>3, ElementOfSeq
  <2>2. taken \in Seq(Half)
    BY <1>5, <2>1, SubSeqProperties
  <2>3. left \in Seq(Half)
    BY <1>5, <2>1, SubSeqProperties
  <2> QED
    BY <2>2, <2>3
<1>7. taken \o left = rest
  <2>1. taken \o left = SubSeq(rest, 1, Len(rest))
    BY <1>3, <1>5, ConcatAdjacentSubSeq
  <2> QED
    BY <1>3, <2>1, SubSeqFull
<1> HIDE DEF taken, left
<1>8. RecTyped'
  BY <1>2, <1>4, <1>6 DEF RecInv, RecTyped
<1>9. NothingHeldBack' /\ StartedTogether'
  BY <1>2, <1>4 DEF RecInv, RecTyped, NothingHeldBack, StartedTogether
<1>10. ASSUME NEW w \in Rec!Way
       PROVE  forwarded'[w] \o chunk'[w] \o wire'[w] = Split(sent'[w])
  <2>1. CASE w # v
    BY <1>2, <1>4, <2>1, AllHalvesIsSplit DEF RecInv, RecTyped, NothingLost
  <2>2. CASE w = v
    <3>1. forwarded[v] \o <<>> \o rest = Split(sent[v])
      BY <1>3, AllHalvesIsSplit DEF RecInv, NothingLost, rest
    <3>2. forwarded[v] \o <<>> = forwarded[v]
      BY <1>3, ConcatEmptySeq
    <3> DEFINE earlier == forwarded[v]
    <3>3. (earlier \o taken) \o left = earlier \o (taken \o left)
      <4>1. earlier \in Seq(Half)
        BY <1>3
      <4> HIDE DEF earlier
      <4> QED
        BY <1>6, <4>1, HalvesAssociate
    <3>4. chunk'[v] = taken /\ wire'[v] = left /\ forwarded'[v] = forwarded[v]
          /\ sent'[v] = sent[v]
      BY <1>2, <1>4 DEF RecInv, RecTyped
    <3> QED
      BY <1>7, <2>2, <3>1, <3>2, <3>3, <3>4
  <2> QED
    BY <2>1, <2>2
<1>11. NothingLost'
  BY <1>10 DEF NothingLost, Rec!AllHalves, Split
<1> QED
  BY <1>8, <1>9, <1>11 DEF RecInv

\* A pump forwards all it holds, whatever its reader then makes of it.
LEMMA ForwardStep == ASSUME RecInv, NEW v \in Rec!Way, Rec!Forward(v) PROVE RecInv'
<1>1. /\ forwarded' = [forwarded EXCEPT ![v] = @ \o chunk[v]]
      /\ chunk' = [chunk EXCEPT ![v] = <<>>]
      /\ UNCHANGED <<sent, wire>>
  BY DEF Rec!Forward, Rec!Forwarded
<1>2. /\ pump[v] = "send"
      /\ \E next \in {"record", "recv", "dead"} : pump' = [pump EXCEPT ![v] = next]
  BY DEF Rec!Forward
<1>3. forwarded[v] \in Seq(Half) /\ chunk[v] \in Seq(Half) /\ wire[v] \in Seq(Half)
  BY DEF RecInv, RecTyped
<1>4. forwarded[v] \o chunk[v] \in Seq(Half) /\ <<>> \in Seq(Half)
  BY <1>3, ConcatProperties, EmptySeq
<1>5. RecTyped'
  BY <1>1, <1>2, <1>4 DEF RecInv, RecTyped
<1>6. NothingHeldBack' /\ StartedTogether'
  BY <1>1, <1>2 DEF RecInv, RecTyped, NothingHeldBack, StartedTogether
<1>7. ASSUME NEW w \in Rec!Way
      PROVE  forwarded'[w] \o chunk'[w] \o wire'[w] = Split(sent'[w])
  <2>1. CASE w # v
    BY <1>1, <2>1, AllHalvesIsSplit DEF RecInv, RecTyped, NothingLost
  <2>2. CASE w = v
    <3>1. (forwarded[v] \o chunk[v]) \o <<>> = forwarded[v] \o chunk[v]
      BY <1>4, ConcatEmptySeq
    <3>2. forwarded'[v] = forwarded[v] \o chunk[v] /\ chunk'[v] = <<>>
      BY <1>1 DEF RecInv, RecTyped
    <3> QED
      BY <1>1, <2>2, <3>1, <3>2, AllHalvesIsSplit DEF RecInv, NothingLost
  <2> QED
    BY <2>1, <2>2
<1>8. NothingLost'
  BY <1>7 DEF NothingLost, Rec!AllHalves, Split
<1> QED
  BY <1>5, <1>6, <1>8 DEF RecInv

\* The other steps move no halves, and stop no pump with some in its hands.
LEMMA StillSteps ==
    ASSUME RecInv, UNCHANGED <<sent, wire, chunk, forwarded>>, DOMAIN pump' = Rec!Way,
           \A w \in Rec!Way : pump'[w] \in {"off", "recv", "record"} => chunk[w] = <<>>,
           pump' = pump \/ \A w \in Rec!Way : pump'[w] # "off"
    PROVE  RecInv'
<1>1. RecTyped' /\ NothingHeldBack' /\ StartedTogether'
  BY DEF RecInv, RecTyped, NothingHeldBack, StartedTogether
<1>2. NothingLost'
  BY DEF RecInv, NothingLost, Rec!AllHalves
<1> QED
  BY <1>1, <1>2 DEF RecInv

LEMMA RecNextHolds == RecInv /\ (Rec!Next \/ UNCHANGED recVars) => RecInv'
<1> SUFFICES ASSUME RecInv, Rec!Next \/ UNCHANGED recVars PROVE RecInv'
  OBVIOUS
<1>1. /\ DOMAIN pump = Rec!Way
      /\ \A w \in Rec!Way : pump[w] \in {"off", "recv", "record"} => chunk[w] = <<>>
      /\ \A v, w \in Rec!Way : pump[v] = "off" => pump[w] = "off"
  BY DEF RecInv, RecTyped, NothingHeldBack, StartedTogether
<1>2. CASE Rec!Accept
  <2>1. /\ UNCHANGED <<sent, wire, chunk, forwarded>> /\ pump["request"] = "off"
        /\ pump' = [w \in Rec!Way |-> "recv"]
    BY <1>2 DEF Rec!Accept
  <2>2. \A w \in Rec!Way : pump[w] = "off"
    BY <1>1, <2>1 DEF Rec!Way
  <2> QED
    BY <1>1, <2>1, <2>2, StillSteps
<1>3. CASE Rec!Ask \/ Rec!Answer
  BY <1>3, AskAnswerSteps
<1>4. CASE Rec!Break \/ UNCHANGED recVars
  <2>1. UNCHANGED <<sent, wire, chunk, forwarded, pump>>
    BY <1>4 DEF Rec!Break, recVars
  <2> QED
    BY <1>1, <2>1, StillSteps
<1>5. ASSUME NEW w \in Rec!Way, Rec!Receive(w) \/ Rec!Forward(w) PROVE RecInv'
  BY <1>5, ReceiveStep, ForwardStep
<1>6. ASSUME NEW w \in Rec!Way, Rec!HangUp(w) PROVE RecInv'
  <2>1. /\ UNCHANGED <<sent, wire, chunk, forwarded>> /\ pump' = [pump EXCEPT ![w] = "ended"]
        /\ pump[w] # "off"
    BY <1>6 DEF Rec!HangUp
  <2>2. \A v \in Rec!Way : pump'[v] # "off"
    BY <1>1, <2>1
  <2> QED
    BY <1>1, <2>1, <2>2, StillSteps
<1>8. ASSUME NEW w \in Rec!Way, Rec!RecordFails(w) PROVE RecInv'
  <2>1. /\ UNCHANGED <<sent, wire, chunk, forwarded>> /\ pump' = [pump EXCEPT ![w] = "failed"]
        /\ pump[w] # "off"
    BY <1>8 DEF Rec!RecordFails
  <2>2. \A v \in Rec!Way : pump'[v] # "off"
    BY <1>1, <2>1
  <2> QED
    BY <1>1, <2>1, <2>2, StillSteps
<1>7. ASSUME NEW w \in Rec!Way, Rec!Record(w) PROVE RecInv'
  <2>1. UNCHANGED <<sent, wire, chunk, forwarded>> /\ pump[w] = "record"
    BY <1>7 DEF Rec!Record
  <2>2. CASE toRecord[w] = <<>>
    <3>1. pump' = [pump EXCEPT ![w] = "recv"]
      BY <1>7, <2>2 DEF Rec!Record
    <3>2. chunk[w] = <<>>
      BY <2>1 DEF RecInv, NothingHeldBack
    <3>3. \A v \in Rec!Way : pump'[v] # "off"
      BY <1>1, <2>1, <3>1
    <3> QED
      BY <1>1, <2>1, <3>1, <3>2, <3>3, StillSteps
  <2>3. CASE toRecord[w] # <<>>
    <3>1. pump' = pump
      BY <1>7, <2>3 DEF Rec!Record
    <3> QED
      BY <1>1, <2>1, <3>1, StillSteps
  <2> QED
    BY <2>2, <2>3
<1> QED
  BY <1>2, <1>3, <1>4, <1>5, <1>6, <1>7, <1>8 DEF Rec!Next

-----------------------------------------------------------------------------
(* The proxy: the theorems                                                   *)

LEMMA ProxyAlone == [PartsNext]_<<part, vars, scrVars, verVars, conVars, monVars, recVars, reaVars>>
                        => Rec!Next \/ UNCHANGED recVars
BY DEF PartsNext, Server, DrivingScreens, Verifying, Contacting, Monitoring, Proxying,
   Interpreting

\* The proxy's invariant, however the sockets cut the frames and break.
THEOREM ProxyInvariant == PartsSpec => []RecInv
<1>1. PartsInit => RecInv
  BY RecInitHolds DEF PartsInit
<1> QED
  BY <1>1, ProxyAlone, RecNextHolds, PTL DEF PartsSpec

\* Whatever fails to decode, and wherever the session breaks, the other side has
\* received what was sent, as it was sent, up to some point (proxy.py:86).
THEOREM ProxyIsTransparent == PartsSpec => []ForwardingIsExact
<1>1. ASSUME RecInv, NEW w \in Rec!Way
      PROVE  Rec!IsPrefix(forwarded[w], Rec!AllHalves(w))
  <2> DEFINE f == forwarded[w]
             c == chunk[w]
             r == wire[w]
             all == Rec!AllHalves(w)
  <2>1. f \in Seq(Half) /\ c \in Seq(Half) /\ r \in Seq(Half)
    BY <1>1 DEF RecInv, RecTyped
  <2>2. (f \o c) \o r = all
    BY <1>1 DEF RecInv, NothingLost
  <2> HIDE DEF f, c, r, all
  <2>3. (f \o c) \o r = f \o (c \o r)
    BY <2>1, HalvesAssociate
  <2> DEFINE g == c \o r
  <2>4. g \in Seq(Half) /\ all = f \o g
    BY <2>1, <2>2, <2>3, ConcatProperties
  <2> HIDE DEF g
  <2>5. Len(f) \in Nat /\ Len(g) \in Nat
    BY <2>1, <2>4, LenProperties
  <2>6. Len(f) <= Len(all)
    BY <2>1, <2>4, <2>5, ConcatProperties
  <2>7. SubSeq(all, 1, Len(f)) = SubSeq(f, 1, Len(f))
    <3>1. CASE Len(f) = 0
      BY <2>1, <3>1, SubSeqEmpty
    <3>2. CASE Len(f) > 0
      BY <2>1, <2>4, <2>5, <3>2, SubSeqOfConcat1
    <3> QED
      BY <2>5, <3>1, <3>2
  <2> QED
    BY <2>6, <2>7 DEF Rec!IsPrefix, f, all
<1>2. ASSUME RecInv PROVE Rec!ForwardingIsExact
  BY <1>1, <1>2 DEF Rec!ForwardingIsExact, RecInv, NothingLost
<1>3. RecInv => ForwardingIsExact
  BY <1>2 DEF ForwardingIsExact
<1> QED
  BY <1>3, ProxyInvariant, PTL

-----------------------------------------------------------------------------
(* The log: the inductive invariant                                          *)

Event == [way : Rec!Way, n : Nat]

LogTyped ==
    /\ buffer \in [Rec!Way -> Seq(Half)] /\ toRecord \in [Rec!Way -> Seq(Frame)]
    /\ log \in Seq(Event)

Upcoming(w) == {toRecord[w][r].n : r \in DOMAIN toRecord[w]}
\* The numbers of the frames that were forwarded whole.
Known(w) == {sent[w][k].n : k \in 1..Len(forwarded[w]) \div 2}

\* A reader holds the beginning of the last frame forwarded, or nothing; the
\* beginning it does not hold was dropped with a frame that did not decode.
BufferIsTail(w) ==
    pump[w] # "dead" =>
        /\ \/ buffer[w] = <<>>
           \/ /\ Len(forwarded[w]) % 2 = 1
              /\ buffer[w] = <<forwarded[w][Len(forwarded[w])]>>
        /\ w \notin lossy /\ buffer[w] = <<>> => Len(forwarded[w]) % 2 = 0

\* The frames of a direction are numbered in order as they are sent, decoded and
\* recorded, and what is still to be recorded comes after what was.
InOrder(w) ==
    /\ \A j, k \in DOMAIN sent[w] : j < k => sent[w][j].n < sent[w][k].n
    /\ \A j, k \in DOMAIN toRecord[w] : j < k => toRecord[w][j].n < toRecord[w][k].n
    /\ \A a \in Rec!LoggedOf(w), b \in Upcoming(w) : a < b
    /\ pump[w] \notin {"record", "failed"} => toRecord[w] = <<>>

\* What was recorded, or is to be, was forwarded, and all that was forwarded is.
AllRecorded(w) ==
    /\ Rec!LoggedOf(w) \cup Upcoming(w) \subseteq Known(w)
    /\ pump[w] # "dead" /\ w \notin lossy => Known(w) \subseteq Rec!LoggedOf(w) \cup Upcoming(w)

LogOrdered ==
    \A i, j \in DOMAIN log : i < j /\ log[i].way = log[j].way => log[i].n < log[j].n
RequestsCount == \A k \in DOMAIN sent["request"] : sent["request"][k].n = k

LogInv ==
    /\ LogTyped /\ LogOrdered /\ RequestsCount
    /\ \A w \in Rec!Way : BufferIsTail(w) /\ InOrder(w) /\ AllRecorded(w)

-----------------------------------------------------------------------------
(* The log: what a reader decodes                                            *)

\* A half of a list of frames.
LEMMA HalfOf ==
    ASSUME NEW s \in Seq(Frame), NEW k \in 1..2 * Len(s)
    PROVE  /\ (k + 1) \div 2 \in 1..Len(s)
           /\ Split(s)[k].frame = s[(k + 1) \div 2] /\ Split(s)[k].half = 2 - (k % 2)
<1> DEFINE i == (k + 1) \div 2
           half == 2 - (k % 2)
<1>1. Len(s) \in Nat
  BY LenProperties
<1>2. i \in 1..Len(s) /\ half \in 1..2
  BY <1>1
<1>3. Split(s)[k] = Rec!Halves(s[i])[half]
  BY <1>1 DEF Split
<1> HIDE DEF i, half
<1>4. Rec!Halves(s[i])[half].frame = s[i] /\ Rec!Halves(s[i])[half].half = half
  BY <1>2 DEF Rec!Halves
<1> QED
  BY <1>2, <1>3, <1>4 DEF i, half

\* A position after an even number of halves, and what it is an index of.
Begins(b, m, s) ==
    2 * m + Len(b) <= 2 * Len(s) /\ \A i \in 1..Len(b) : b[i] = Split(s)[2 * m + i]

\* What a reader decodes from the beginning of a frame on is the frames.
LEMMA WholeIs ==
    ASSUME NEW s \in Seq(Frame), NEW b \in Seq(Half), NEW m \in Nat, Begins(b, m, s)
    PROVE  /\ Rec!Whole(b) \in Seq(Frame) /\ Len(Rec!Whole(b)) = Len(b) \div 2
           /\ m + (Len(b) \div 2) <= Len(s)
           /\ \A i \in 1..Len(b) \div 2 : Rec!Whole(b)[i] = s[m + i]
<1> DEFINE n == Len(b) \div 2
<1>1. Len(b) \in Nat /\ Len(s) \in Nat
  BY LenProperties
<1>2. n \in Nat /\ 2 * n <= Len(b) /\ Len(b) <= 2 * n + 1
  BY <1>1
<1>3. m + n <= Len(s)
  BY <1>1, <1>2 DEF Begins
<1>4. Rec!Whole(b) = [i \in 1..n |-> b[2 * i].frame]
  BY DEF Rec!Whole
<1> HIDE DEF n
<1>5. ASSUME NEW i \in 1..n PROVE b[2 * i].frame = s[m + i]
  <2> DEFINE k == 2 * m + 2 * i
  <2>1. 2 * i \in 1..Len(b) /\ k \in 1..2 * Len(s) /\ (k + 1) \div 2 = m + i
    BY <1>1, <1>2, <1>3
  <2>2. b[2 * i] = Split(s)[k]
    BY <2>1 DEF Begins
  <2> HIDE DEF k
  <2> QED
    BY <2>1, <2>2, HalfOf
<1>6. \A i \in 1..n : Rec!Whole(b)[i] = s[m + i]
  BY <1>4, <1>5
<1>7. \A i \in 1..n : s[m + i] \in Frame
  BY <1>1, <1>2, <1>3, ElementOfSeq
<1>8. Rec!Whole(b) \in [1..n -> Frame]
  BY <1>4, <1>5, <1>7
<1>9. Rec!Whole(b) \in Seq(Frame) /\ Len(Rec!Whole(b)) = n
  BY <1>2, <1>8, SeqDef
<1> QED
  BY <1>3, <1>6, <1>9 DEF n

\* The halves of a chunk are those that follow what was forwarded.
LEMMA ChunkFollows ==
    ASSUME RecInv, NEW w \in Rec!Way
    PROVE  /\ Len(forwarded[w]) \in Nat /\ Len(chunk[w]) \in Nat /\ Len(sent[w]) \in Nat
           /\ Len(forwarded[w]) + Len(chunk[w]) <= 2 * Len(sent[w])
           /\ \A i \in 1..Len(forwarded[w]) : forwarded[w][i] = Split(sent[w])[i]
           /\ \A i \in 1..Len(chunk[w]) : chunk[w][i] = Split(sent[w])[Len(forwarded[w]) + i]
<1> DEFINE f == forwarded[w]
           c == chunk[w]
           r == wire[w]
           s == sent[w]
<1>1. f \in Seq(Half) /\ c \in Seq(Half) /\ r \in Seq(Half) /\ s \in Seq(Frame)
  BY DEF RecInv, RecTyped
<1>2. (f \o c) \o r = Split(s)
  BY AllHalvesIsSplit DEF RecInv, NothingLost
<1>3. Len(Split(s)) = 2 * Len(s)
  BY <1>1, SplitTyped
<1> HIDE DEF f, c, r, s
<1>4. Len(f) \in Nat /\ Len(c) \in Nat /\ Len(r) \in Nat /\ Len(s) \in Nat
  BY <1>1, LenProperties
<1>5. /\ f \o c \in Seq(Half) /\ Len(f \o c) = Len(f) + Len(c)
      /\ \A i \in 1..Len(f) + Len(c) : (f \o c)[i] = IF i <= Len(f) THEN f[i] ELSE c[i - Len(f)]
  BY <1>1, ConcatProperties
<1> DEFINE g == f \o c
<1> HIDE DEF g
<1>6. /\ Len(g \o r) = Len(g) + Len(r)
      /\ \A i \in 1..Len(g) + Len(r) : (g \o r)[i] = IF i <= Len(g) THEN g[i] ELSE r[i - Len(g)]
  BY <1>1, <1>5, ConcatProperties DEF g
<1>7. Len(g) = Len(f) + Len(c) /\ Len(g) + Len(r) = 2 * Len(s)
  BY <1>2, <1>3, <1>5, <1>6 DEF g
<1>8. \A i \in 1..Len(g) : g[i] = Split(s)[i]
  BY <1>2, <1>4, <1>6, <1>7 DEF g
<1>9. \A i \in 1..Len(f) : f[i] = Split(s)[i]
  BY <1>4, <1>5, <1>7, <1>8 DEF g
<1>10. \A i \in 1..Len(c) : c[i] = Split(s)[Len(f) + i]
  <2> SUFFICES ASSUME NEW i \in 1..Len(c) PROVE c[i] = Split(s)[Len(f) + i]
    OBVIOUS
  <2>1. Len(f) + i \in 1..Len(g) /\ ~ (Len(f) + i <= Len(f)) /\ Len(f) + i - Len(f) = i
    BY <1>4, <1>7
  <2> QED
    BY <1>5, <1>7, <1>8, <2>1 DEF g
<1>11. Len(f) + Len(c) <= 2 * Len(s)
  BY <1>4, <1>7
<1> QED
  BY <1>4, <1>9, <1>10, <1>11 DEF f, c, s

LEMMA PartOfSplit ==
    ASSUME NEW s \in Seq(Frame), NEW x \in Seq(Half), x # <<>>, NEW F \in Nat,
           F + Len(x) <= 2 * Len(s), \A i \in 1..Len(x) : x[i] = Split(s)[F + i]
    PROVE  Head(x).half = 2 - ((F + 1) % 2)
<1>1. Len(x) \in Nat /\ Len(x) >= 1 /\ Len(s) \in Nat
  BY EmptySeq, LenProperties
<1>2. F + 1 \in 1..2 * Len(s) /\ 1 \in 1..Len(x)
  BY <1>1
<1>3. Head(x) = x[1]
  OBVIOUS
<1>4. x[1] = Split(s)[F + 1]
  BY <1>2
<1> QED
  BY <1>2, <1>3, <1>4, HalfOf

\* Where the frames of a chunk begin, with what the reader holds: at the first
\* that was not forwarded whole, or one later when its beginning was dropped.
Follows(b, w, m) ==
    /\ Begins(b, m, sent[w]) /\ m >= Len(forwarded[w]) \div 2
    /\ b = <<>> \/ 2 * m + Len(b) = Len(forwarded[w]) + Len(chunk[w])
    /\ w \notin lossy => m = Len(forwarded[w]) \div 2
                         /\ 2 * m + Len(b) = Len(forwarded[w]) + Len(chunk[w])

LEMMA ReaderFollows ==
    ASSUME RecInv, LogTyped, NEW w \in Rec!Way, BufferIsTail(w), pump[w] = "send"
    PROVE  /\ Rec!Synchronised(buffer[w] \o chunk[w]) \in Seq(Half)
           /\ \E m \in Nat : Follows(Rec!Synchronised(buffer[w] \o chunk[w]), w, m)
<1> DEFINE f == forwarded[w]
           c == chunk[w]
           s == sent[w]
           F == Len(f)
           C == Len(c)
           x == buffer[w] \o c
           b == Rec!Synchronised(x)
<1>1. f \in Seq(Half) /\ c \in Seq(Half) /\ s \in Seq(Frame) /\ buffer[w] \in Seq(Half)
  BY DEF RecInv, RecTyped, LogTyped
<1>2. /\ F \in Nat /\ C \in Nat /\ Len(s) \in Nat /\ F + C <= 2 * Len(s)
      /\ \A i \in 1..F : f[i] = Split(s)[i]
      /\ \A i \in 1..C : c[i] = Split(s)[F + i]
  BY ChunkFollows
<1>3. /\ \/ buffer[w] = <<>>
         \/ F % 2 = 1 /\ buffer[w] = <<f[F]>>
      /\ w \notin lossy /\ buffer[w] = <<>> => F % 2 = 0
  BY DEF BufferIsTail
<1>4. b = IF x # <<>> /\ Head(x).half = 2 THEN Tail(x) ELSE x
  BY DEF Rec!Synchronised
<1>5. F = 2 * (F \div 2) + (F % 2) /\ F % 2 \in {0, 1} /\ F \div 2 \in Nat
  BY <1>2, Halved
<1> DEFINE Goal == b \in Seq(Half) /\ \E k \in Nat : Follows(b, w, k)
<1>6. ASSUME NEW m \in Nat, NEW y \in Seq(Half), y = b, Begins(y, m, s), m >= F \div 2,
             y = <<>> \/ 2 * m + Len(y) = F + C,
             w \notin lossy => m = F \div 2 /\ 2 * m + Len(y) = F + C
      PROVE  Goal
  BY <1>6 DEF Follows
<1> HIDE DEF f, c, s, F, C, b, Goal
<1>7. ASSUME buffer[w] = <<>> /\ c = <<>> PROVE Goal
  <2>1. x = <<>> /\ b = <<>> /\ C = 0
    BY <1>4, <1>7 DEF C
  <2>2. <<>> \in Seq(Half) /\ Len(<<>>) = 0
    BY EmptySeq
  <2>3. Begins(<<>>, F \div 2, s)
    BY <1>2, <1>5, <2>1, <2>2 DEF Begins
  <2>4. w \notin lossy => 2 * (F \div 2) + 0 = F + C
    BY <1>2, <1>3, <1>5, <1>7, <2>1
  <2> DEFINE m == F \div 2
  <2>5. m \in Nat /\ m >= F \div 2 /\ m = F \div 2 /\ Begins(<<>>, m, s)
    BY <1>5, <2>3
  <2>6. w \notin lossy => 2 * m + Len(<<>>) = F + C
    BY <2>2, <2>4
  <2> HIDE DEF m
  <2> QED
    BY <1>6, <2>1, <2>2, <2>5, <2>6
<1>8. ASSUME buffer[w] = <<>> /\ c # <<>> PROVE Goal
  <2>1. x = c
    BY <1>1, <1>8, ConcatEmptySeq
  <2>2. Head(c).half = 2 - ((F + 1) % 2)
    BY <1>1, <1>2, <1>8, PartOfSplit DEF C
  <2>3. ASSUME F % 2 = 0 PROVE Goal
    <3>1. (F + 1) % 2 = 1 /\ F = 2 * (F \div 2)
      BY <1>5, <2>3
    <3>2. b = c
      BY <1>4, <2>1, <2>2, <3>1
    <3>3. Begins(c, F \div 2, s)
      BY <1>2, <3>1 DEF Begins, C
    <3> DEFINE m == F \div 2
    <3>4. m \in Nat /\ m >= F \div 2 /\ m = F \div 2 /\ Begins(c, m, s)
      BY <1>5, <3>3
    <3>5. 2 * m + Len(c) = F + C
      BY <3>1 DEF C
    <3> HIDE DEF m
    <3> QED
      BY <1>1, <1>6, <3>2, <3>4, <3>5
  <2>4. ASSUME F % 2 = 1 PROVE Goal
    <3>1. (F + 1) % 2 = 0 /\ F = 2 * (F \div 2) + 1
      BY <1>5, <2>4
    <3>2. b = Tail(c)
      BY <1>4, <1>8, <2>1, <2>2, <3>1
    <3>3. /\ Tail(c) \in Seq(Half) /\ Len(Tail(c)) = C - 1
          /\ \A i \in 1..C - 1 : Tail(c)[i] = c[i + 1]
      BY <1>1, <1>8, HeadTailProperties DEF C
    <3> DEFINE m == (F \div 2) + 1
    <3>4. m \in Nat /\ 2 * m = F + 1
      BY <1>5, <3>1
    <3>5. \A i \in 1..C - 1 : Tail(c)[i] = Split(s)[2 * m + i]
      <4> SUFFICES ASSUME NEW i \in 1..C - 1 PROVE Tail(c)[i] = Split(s)[2 * m + i]
        OBVIOUS
      <4>1. i + 1 \in 1..C /\ F + (i + 1) = 2 * m + i
        BY <1>2, <3>4
      <4>2. c[i + 1] = Split(s)[F + (i + 1)]
        BY <1>2, <4>1
      <4> QED
        BY <3>3, <4>1, <4>2
    <3> HIDE DEF m
    <3>6. Begins(Tail(c), m, s)
      BY <1>2, <3>3, <3>4, <3>5 DEF Begins
    <3>7. w \in lossy
      BY <1>3, <1>8, <2>4
    <3>8. m >= F \div 2 /\ 2 * m + Len(Tail(c)) = F + C
      BY <1>2, <1>5, <3>3, <3>4 DEF m
    <3> QED
      BY <1>6, <3>2, <3>3, <3>4, <3>6, <3>7, <3>8
  <2> QED
    BY <1>5, <2>3, <2>4
<1>9. ASSUME F % 2 = 1 /\ buffer[w] = <<f[F]>> PROVE Goal
  <2>1. F = 2 * (F \div 2) + 1 /\ F \in 1..2 * Len(s) /\ F \in 1..F
    <3> DEFINE d == F \div 2
    <3>1. d \in Nat /\ F = 2 * d + 1
      BY <1>5, <1>9
    <3> HIDE DEF d
    <3>2. F \in 1..2 * Len(s) /\ F \in 1..F
      BY <1>2, <3>1
    <3> QED
      BY <3>1, <3>2 DEF d
  <2>2. f[F] = Split(s)[F] /\ f[F] \in Half
    BY <1>1, <1>2, <2>1, ElementOfSeq DEF F
  <2> DEFINE one == <<f[F]>>
  <2>3. one \in Seq(Half) /\ Len(one) = 1 /\ one[1] = f[F]
    BY <2>2
  <2> HIDE DEF one
  <2>4. /\ x \in Seq(Half) /\ Len(x) = 1 + C
        /\ \A i \in 1..1 + C : x[i] = IF i <= 1 THEN one[i] ELSE c[i - 1]
    BY <1>1, <1>9, <2>3, ConcatProperties DEF C, one
  <2> DEFINE m == F \div 2
  <2>5. m \in Nat /\ F = 2 * m + 1
    BY <1>5, <2>1
  <2> HIDE DEF x, m
  <2>6. \A i \in 1..Len(x) : x[i] = Split(s)[2 * m + i]
    <3> SUFFICES ASSUME NEW i \in 1..1 + C PROVE x[i] = Split(s)[2 * m + i]
      BY <2>4
    <3>1. CASE i = 1
      BY <1>2, <2>2, <2>3, <2>4, <2>5, <3>1
    <3>2. CASE i # 1
      <4>1. i - 1 \in 1..C /\ F + (i - 1) = 2 * m + i /\ ~ (i <= 1)
        BY <1>2, <2>5, <3>2
      <4>2. c[i - 1] = Split(s)[F + (i - 1)]
        BY <1>2, <4>1
      <4> QED
        BY <2>4, <4>1, <4>2
    <3> QED
      BY <3>1, <3>2
  <2>7. 2 * m + Len(x) = F + C
    BY <1>2, <2>4, <2>5
  <2>8. Begins(x, m, s)
    BY <1>2, <2>6, <2>7 DEF Begins
  <2>9. x # <<>>
    BY <1>2, <2>4, EmptySeq
  <2>10. Head(x).half = 1
    <3>1. 2 * m \in Nat /\ 2 - ((2 * m + 1) % 2) = 1 /\ 2 * m + Len(x) <= 2 * Len(s)
      BY <1>2, <2>5, <2>7
    <3> QED
      BY <1>1, <2>4, <2>6, <2>9, <3>1, PartOfSplit
  <2>11. b = x
    BY <1>4, <2>10
  <2>12. m >= F \div 2
    BY <2>5 DEF m
  <2> QED
    BY <1>6, <2>4, <2>5, <2>7, <2>8, <2>11, <2>12 DEF m
<1> QED
  BY <1>3, <1>7, <1>8, <1>9 DEF b, c, Goal

-----------------------------------------------------------------------------
(* The log: its steps                                                        *)

WayInv(w) == BufferIsTail(w) /\ InOrder(w) /\ AllRecorded(w)

\* A direction of which nothing changed that its part is about.
LEMMA SameWay ==
    ASSUME NEW w, WayInv(w),
           buffer'[w] = buffer[w], toRecord'[w] = toRecord[w], sent'[w] = sent[w],
           forwarded'[w] = forwarded[w], Rec!LoggedOf(w)' = Rec!LoggedOf(w),
           w \in lossy' <=> w \in lossy,
           pump'[w] = pump[w] \/ (pump[w] # "dead" /\ toRecord[w] = <<>>)
    PROVE  WayInv(w)'
<1>1. Known(w)' = Known(w) /\ Upcoming(w)' = Upcoming(w)
  BY DEF Known, Upcoming
<1>2. pump'[w] # "dead" => pump[w] # "dead"
  OBVIOUS
<1>3. BufferIsTail(w)'
  BY <1>2 DEF WayInv, BufferIsTail
<1>4. InOrder(w)'
  BY <1>1 DEF WayInv, InOrder
<1>5. AllRecorded(w)'
  BY <1>1, <1>2 DEF WayInv, AllRecorded
<1> QED
  BY <1>3, <1>4, <1>5 DEF WayInv

LEMMA LogInitHolds == Rec!Init => LogInv
<1> SUFFICES ASSUME Rec!Init PROVE LogInv
  OBVIOUS
<1>1. \A S : <<>> \in Seq(S) /\ Len(<<>>) = 0 /\ DOMAIN <<>> = {}
  BY EmptySeq
<1>2. LogTyped
  BY <1>1 DEF Rec!Init, LogTyped
<1>3. LogOrdered /\ RequestsCount
  BY <1>1 DEF Rec!Init, LogOrdered, RequestsCount, Rec!Way
<1>4. ASSUME NEW w \in Rec!Way PROVE BufferIsTail(w) /\ InOrder(w) /\ AllRecorded(w)
  <2>1. /\ buffer[w] = <<>> /\ toRecord[w] = <<>> /\ sent[w] = <<>> /\ forwarded[w] = <<>>
        /\ log = <<>>
    BY DEF Rec!Init
  <2>2. Rec!LoggedOf(w) = {} /\ Upcoming(w) = {}
    BY <1>1, <2>1 DEF Rec!LoggedOf, Upcoming
  <2>3. Known(w) = {}
    BY <1>1, <2>1 DEF Known
  <2>4. BufferIsTail(w)
    BY <1>1, <2>1 DEF BufferIsTail
  <2>5. InOrder(w)
    BY <1>1, <2>1, <2>2 DEF InOrder
  <2> QED
    BY <2>2, <2>3, <2>4, <2>5 DEF AllRecorded
<1> QED
  BY <1>2, <1>3, <1>4 DEF LogInv

\* The steps that neither transmit, decode nor record.
LEMMA LogStillSteps ==
    ASSUME RecInv, LogInv, UNCHANGED <<sent, buffer, toRecord, forwarded, log, lossy>>,
           \A w \in Rec!Way : pump'[w] = pump[w] \/ (pump[w] # "dead" /\ toRecord[w] = <<>>)
    PROVE  LogInv'
<1>1. LogTyped' /\ LogOrdered' /\ RequestsCount'
  BY DEF LogInv, LogTyped, LogOrdered, RequestsCount
<1>2. ASSUME NEW w \in Rec!Way PROVE WayInv(w)'
  <2>1. Rec!LoggedOf(w)' = Rec!LoggedOf(w)
    BY DEF Rec!LoggedOf
  <2>2. WayInv(w)
    BY DEF LogInv, WayInv
  <2> QED
    BY <2>1, <2>2, SameWay
<1> QED
  BY <1>1, <1>2 DEF LogInv, WayInv

LEMMA LogTransmitStep ==
    ASSUME RecInv, LogInv, NEW v \in Rec!Way, NEW f \in Frame, Rec!Transmit(v, f),
           \A k \in DOMAIN sent[v] : sent[v][k].n < f.n,
           v = "request" => f.n = Len(sent[v]) + 1
    PROVE  LogInv'
<1>1. /\ sent' = [sent EXCEPT ![v] = Append(@, f)]
      /\ UNCHANGED <<pump, buffer, toRecord, forwarded, log, lossy>>
  BY DEF Rec!Transmit
<1> DEFINE s == sent[v]
           t == Append(s, f)
<1>2. s \in Seq(Frame) /\ DOMAIN sent = Rec!Way
  BY DEF RecInv, RecTyped
<1>3. /\ t \in Seq(Frame) /\ Len(t) = Len(s) + 1 /\ Len(s) \in Nat
      /\ \A k \in 1..Len(s) : t[k] = s[k]
      /\ t[Len(s) + 1] = f
      /\ DOMAIN s = 1..Len(s) /\ DOMAIN t = 1..Len(s) + 1
  <2>1. s \in Seq(Frame) /\ f \in Frame
    BY <1>2
  <2> HIDE DEF s
  <2> QED
    BY <2>1, AppendProperties, LenProperties
<1>4. sent'[v] = t /\ \A w \in Rec!Way : w # v => sent'[w] = sent[w]
  BY <1>1, <1>2
<1>5. Len(forwarded[v]) \div 2 \in 0..Len(s)
  <2> DEFINE F == Len(forwarded[v])
             C == Len(chunk[v])
  <2>1. F \in Nat /\ C \in Nat /\ F + C <= 2 * Len(s)
    BY ChunkFollows
  <2> HIDE DEF F, C, s
  <2>2. F <= 2 * Len(s)
    BY <1>3, <2>1
  <2> QED
    BY <1>3, <2>1, <2>2, HalfAtMost DEF F
<1>6. /\ \A j, k \in DOMAIN s : j < k => s[j].n < s[k].n
      /\ \A k \in DOMAIN s : s[k].n < f.n
      /\ v = "request" => f.n = Len(s) + 1 /\ \A k \in DOMAIN s : s[k].n = k
  BY DEF LogInv, InOrder, RequestsCount
<1> HIDE DEF s, t
<1>7. \A j, k \in DOMAIN t : j < k => t[j].n < t[k].n
  <2> SUFFICES ASSUME NEW j \in DOMAIN t, NEW k \in DOMAIN t, j < k PROVE t[j].n < t[k].n
    OBVIOUS
  <2>1. j \in 1..Len(s) /\ t[j] = s[j]
    BY <1>3
  <2>2. CASE k \in 1..Len(s)
    BY <1>3, <1>6, <2>1, <2>2
  <2>3. CASE k = Len(s) + 1
    BY <1>3, <1>6, <2>1, <2>3
  <2> QED
    BY <1>3, <2>2, <2>3
<1>8. v = "request" => \A k \in DOMAIN t : t[k].n = k
  BY <1>3, <1>6
<1>9. \A w \in Rec!Way : Rec!LoggedOf(w)' = Rec!LoggedOf(w) /\ Upcoming(w)' = Upcoming(w)
  BY <1>1 DEF Rec!LoggedOf, Upcoming
<1>10. Known(v)' = Known(v)
  <2>1. Known(v) = {s[k].n : k \in 1..Len(forwarded[v]) \div 2}
    BY DEF Known, s
  <2>2. Known(v)' = {t[k].n : k \in 1..Len(forwarded[v]) \div 2}
    BY <1>1, <1>4 DEF Known
  <2>3. \A k \in 1..Len(forwarded[v]) \div 2 : t[k] = s[k]
    <3> DEFINE h == Len(forwarded[v]) \div 2
    <3>1. h \in 0..Len(s)
      BY <1>5
    <3> HIDE DEF h
    <3>2. \A k \in 1..h : t[k] = s[k]
      BY <1>3, <3>1
    <3> QED
      BY <3>2 DEF h
  <2> QED
    BY <2>1, <2>2, <2>3
<1>11. WayInv(v)'
  <2>1. BufferIsTail(v)'
    BY <1>1 DEF LogInv, BufferIsTail
  <2>2. InOrder(v)'
    BY <1>1, <1>4, <1>7, <1>9 DEF LogInv, InOrder
  <2>3. AllRecorded(v)'
    BY <1>1, <1>9, <1>10 DEF LogInv, AllRecorded
  <2> QED
    BY <2>1, <2>2, <2>3 DEF WayInv
<1>12. ASSUME NEW w \in Rec!Way, w # v PROVE WayInv(w)'
  BY <1>1, <1>4, <1>9, <1>12, SameWay DEF LogInv, WayInv
<1>13. LogTyped' /\ LogOrdered'
  BY <1>1 DEF LogInv, LogTyped, LogOrdered
<1>14. RequestsCount'
  <2>1. CASE v = "request"
    BY <1>4, <1>8, <2>1 DEF RequestsCount
  <2>2. CASE v # "request"
    BY <1>4, <2>2 DEF LogInv, RequestsCount, Rec!Way
  <2> QED
    BY <2>1, <2>2
<1> QED
  BY <1>11, <1>12, <1>13, <1>14 DEF LogInv, WayInv

LEMMA LogAskAnswer == ASSUME RecInv, LogInv, Rec!Ask \/ Rec!Answer PROVE LogInv'
<1>1. /\ "request" \in Rec!Way /\ "response" \in Rec!Way
      /\ \A w \in Rec!Way : sent[w] \in Seq(Frame)
  BY DEF Rec!Way, RecInv, RecTyped
<1>2. Len(sent["request"]) \in Nat /\ DOMAIN sent["request"] = 1..Len(sent["request"])
  BY <1>1, LenProperties
<1>3. CASE Rec!Ask
  <2>1. PICK kind \in Rec!Kind :
          Rec!Transmit("request", [n |-> Len(sent["request"]) + 1, kind |-> kind])
    BY <1>3 DEF Rec!Ask
  <2> DEFINE f == [n |-> Len(sent["request"]) + 1, kind |-> kind]
  <2>2. f \in Frame /\ f.n = Len(sent["request"]) + 1
    BY <1>2 DEF Frame
  <2>3. \A k \in DOMAIN sent["request"] : sent["request"][k].n < f.n
    BY <1>2, <2>2 DEF LogInv, RequestsCount
  <2> QED
    BY <1>1, <2>1, <2>2, <2>3, LogTransmitStep
<1>4. CASE Rec!Answer
  <2>1. PICK n \in 1..Len(sent["request"]), kind \in Rec!Kind :
          /\ \A f \in Rec!Range(sent["response"]) : f.n < n
          /\ Rec!Transmit("response", [n |-> n, kind |-> kind])
    BY <1>4 DEF Rec!Answer
  <2> DEFINE f == [n |-> n, kind |-> kind]
  <2>2. f \in Frame /\ f.n = n
    BY <1>2 DEF Frame
  <2>3. \A k \in DOMAIN sent["response"] : sent["response"][k].n < f.n
    BY <2>1, <2>2 DEF Rec!Range
  <2> QED
    BY <1>1, <2>1, <2>2, <2>3, LogTransmitStep
<1> QED
  BY <1>3, <1>4

LEMMA LogRecordStep ==
    ASSUME RecInv, LogInv, NEW v \in Rec!Way, Rec!Record(v) \/ Rec!RecordFails(v)
    PROVE  LogInv'
<1>1. /\ pump[v] = "record" /\ UNCHANGED <<sent, wire, chunk, buffer, forwarded, lossy>>
      /\ DOMAIN pump = Rec!Way /\ DOMAIN toRecord = Rec!Way
  BY DEF Rec!Record, Rec!RecordFails, RecInv, RecTyped, LogInv, LogTyped
<1>2. CASE toRecord[v] = <<>>
  <2>1. pump' = [pump EXCEPT ![v] = "recv"] /\ UNCHANGED <<toRecord, log>>
    BY <1>2 DEF Rec!Record, Rec!RecordFails
  <2>2. \A w \in Rec!Way : pump'[w] = pump[w] \/ (pump[w] # "dead" /\ toRecord[w] = <<>>)
    BY <1>1, <1>2, <2>1
  <2> QED
    BY <1>1, <2>1, <2>2, LogStillSteps
<1>3. CASE toRecord[v] # <<>>
  <2> DEFINE q == toRecord[v]
             n == Head(q).n
             e == [way |-> v, n |-> n]
             t == Tail(q)
             l == log
             m == Append(l, e)
  <2>1. /\ log' = m /\ toRecord' = [toRecord EXCEPT ![v] = t]
        /\ pump' = pump \/ pump' = [pump EXCEPT ![v] = "failed"]
    BY <1>3 DEF Rec!Record, Rec!RecordFails, Rec!Note
  <2>2. q \in Seq(Frame) /\ l \in Seq(Event)
    BY DEF LogInv, LogTyped
  <2>3. /\ Head(q) \in Frame /\ t \in Seq(Frame) /\ Len(t) = Len(q) - 1
        /\ \A i \in 1..Len(q) - 1 : t[i] = q[i + 1]
        /\ Head(q) = q[1]
    <3> HIDE DEF q
    <3> QED
      BY <1>3, <2>2, HeadTailProperties DEF q
  <2>4. Len(q) \in Nat \ {0} /\ DOMAIN q = 1..Len(q) /\ DOMAIN t = 1..Len(q) - 1
    <3> HIDE DEF q, t
    <3> QED
      BY <1>3, <2>2, <2>3, LenProperties, EmptySeq DEF q
  <2>5. n \in Nat /\ e \in Event /\ e.way = v /\ e.n = n
    BY <2>3 DEF Frame, Event
  <2>6. /\ m \in Seq(Event) /\ DOMAIN l = 1..Len(l) /\ DOMAIN m = 1..Len(l) + 1
        /\ Len(l) \in Nat /\ \A i \in 1..Len(l) : m[i] = l[i]
        /\ m[Len(l) + 1] = e
    <3>1. e \in Event
      BY <2>5
    <3> HIDE DEF l, e
    <3>2. m \in Seq(Event) /\ Len(m) = Len(l) + 1
      BY <2>2, <3>1, AppendProperties
    <3> QED
      BY <2>2, <3>1, <3>2, AppendProperties, LenProperties
  <2>7. n = q[1].n
    BY <2>3
  <2> HIDE DEF n
  <2>8. Upcoming(v) = {n} \cup {t[r].n : r \in DOMAIN t}
    <3>1. Upcoming(v) = {q[r].n : r \in DOMAIN q}
      BY DEF Upcoming
    <3> HIDE DEF q, t
    <3>2. ASSUME NEW r \in DOMAIN q PROVE q[r].n \in {n} \cup {t[i].n : i \in DOMAIN t}
      <4>1. CASE r = 1
        BY <2>7, <4>1
      <4>2. CASE r # 1
        <5>1. r - 1 \in 1..Len(q) - 1 /\ (r - 1) + 1 = r
          BY <2>4, <3>2, <4>2
        <5>2. r - 1 \in DOMAIN t /\ t[r - 1] = q[r]
          BY <2>3, <2>4, <5>1
        <5> QED
          BY <5>2
      <4> QED
        BY <4>1, <4>2
    <3>3. 1 \in DOMAIN q
      BY <2>4
    <3>4. ASSUME NEW i \in DOMAIN t PROVE i + 1 \in DOMAIN q /\ t[i] = q[i + 1]
      BY <2>3, <2>4, <3>4
    <3> QED
      BY <2>7, <3>1, <3>2, <3>3, <3>4
  <2>9. Upcoming(v)' = {t[r].n : r \in DOMAIN t}
    <3>1. toRecord'[v] = t
      BY <1>1, <2>1
    <3> QED
      BY <3>1 DEF Upcoming
  <2>10. Rec!LoggedOf(v)' = Rec!LoggedOf(v) \cup {n}
    <3>1. Rec!LoggedOf(v) = {l[i].n : i \in {k \in DOMAIN l : l[k].way = v}}
      BY DEF Rec!LoggedOf
    <3>2. Rec!LoggedOf(v)' = {m[i].n : i \in {k \in DOMAIN m : m[k].way = v}}
      BY <2>1 DEF Rec!LoggedOf
    <3> HIDE DEF l, m, e
    <3>3. \A i \in DOMAIN m : m[i].way = v => m[i].n \in Rec!LoggedOf(v) \cup {n}
      <4> SUFFICES ASSUME NEW i \in DOMAIN m, m[i].way = v
                   PROVE  m[i].n \in Rec!LoggedOf(v) \cup {n}
        OBVIOUS
      <4>1. CASE i = Len(l) + 1
        BY <2>5, <2>6, <4>1
      <4>2. CASE i \in 1..Len(l)
        BY <2>6, <3>1, <4>2
      <4> QED
        BY <2>6, <4>1, <4>2
    <3>4. \A i \in DOMAIN l : i \in DOMAIN m /\ m[i] = l[i]
      BY <2>6
    <3>5. Len(l) + 1 \in DOMAIN m /\ m[Len(l) + 1].way = v /\ m[Len(l) + 1].n = n
      BY <2>5, <2>6
    <3> QED
      BY <3>1, <3>2, <3>3, <3>4, <3>5
  <2>11. ASSUME NEW w \in Rec!Way, w # v PROVE Rec!LoggedOf(w)' = Rec!LoggedOf(w)
    <3>1. Rec!LoggedOf(w) = {l[i].n : i \in {k \in DOMAIN l : l[k].way = w}}
      BY DEF Rec!LoggedOf
    <3>2. Rec!LoggedOf(w)' = {m[i].n : i \in {k \in DOMAIN m : m[k].way = w}}
      BY <2>1 DEF Rec!LoggedOf
    <3> HIDE DEF l, m, e
    <3>3. {k \in DOMAIN m : m[k].way = w} = {k \in DOMAIN l : l[k].way = w}
      BY <2>5, <2>6, <2>11
    <3>4. \A i \in DOMAIN l : m[i] = l[i]
      BY <2>6
    <3> QED
      BY <3>1, <3>2, <3>3, <3>4
  <2>12. /\ \A a \in Rec!LoggedOf(v), b \in Upcoming(v) : a < b
         /\ \A j, k \in DOMAIN q : j < k => q[j].n < q[k].n
    BY DEF LogInv, InOrder
  <2>13. \A b \in {t[r].n : r \in DOMAIN t} : n < b
    <3> SUFFICES ASSUME NEW r \in DOMAIN t PROVE n < t[r].n
      OBVIOUS
    <3> HIDE DEF q, t
    <3>1. r + 1 \in DOMAIN q /\ 1 \in DOMAIN q /\ 1 < r + 1 /\ t[r] = q[r + 1]
      BY <2>3, <2>4
    <3> QED
      BY <2>7, <2>12, <3>1
  <2>14. \A j, k \in DOMAIN t : j < k => t[j].n < t[k].n
    <3> SUFFICES ASSUME NEW j \in DOMAIN t, NEW k \in DOMAIN t, j < k PROVE t[j].n < t[k].n
      OBVIOUS
    <3> HIDE DEF q, t
    <3>1. /\ j + 1 \in DOMAIN q /\ t[j] = q[j + 1] /\ k + 1 \in DOMAIN q /\ t[k] = q[k + 1]
          /\ j + 1 < k + 1
      BY <2>3, <2>4
    <3> QED
      BY <2>12, <3>1
  <2>15. LogTyped'
    BY <1>1, <2>1, <2>3, <2>6 DEF LogInv, LogTyped
  <2>16. LogOrdered'
    <3> SUFFICES ASSUME NEW i \in DOMAIN m, NEW j \in DOMAIN m, i < j, m[i].way = m[j].way
                 PROVE  m[i].n < m[j].n
      BY <2>1 DEF LogOrdered
    <3>1. \A a, b \in DOMAIN l : a < b /\ l[a].way = l[b].way => l[a].n < l[b].n
      BY DEF LogInv, LogOrdered
    <3>2. \A a \in DOMAIN l : l[a].way = v => l[a].n \in Rec!LoggedOf(v)
      BY DEF Rec!LoggedOf
    <3> HIDE DEF l, m, e
    <3>3. i \in DOMAIN l /\ m[i] = l[i]
      BY <2>6
    <3>4. CASE j = Len(l) + 1
      <4>1. m[j].n = n /\ l[i].way = v
        BY <2>5, <2>6, <3>3, <3>4
      <4> QED
        BY <2>8, <2>12, <3>2, <3>3, <4>1
    <3>5. CASE j \in 1..Len(l)
      BY <2>6, <3>1, <3>3, <3>5
    <3> QED
      BY <2>6, <3>4, <3>5
  <2>17. WayInv(v)'
    <3>1. Known(v)' = Known(v)
      BY <1>1 DEF Known
    <3>2. Rec!LoggedOf(v)' \cup Upcoming(v)' = Rec!LoggedOf(v) \cup Upcoming(v)
      BY <2>8, <2>9, <2>10
    <3>3. AllRecorded(v)'
      BY <1>1, <2>1, <3>1, <3>2 DEF LogInv, AllRecorded
    <3>4. BufferIsTail(v)'
      BY <1>1, <2>1 DEF LogInv, BufferIsTail
    <3>5. toRecord'[v] = t
      BY <1>1, <2>1
    <3>6. \A a \in Rec!LoggedOf(v)', b \in Upcoming(v)' : a < b
      BY <2>8, <2>9, <2>10, <2>12, <2>13
    <3>7. \A j, k \in DOMAIN sent[v] : j < k => sent[v][j].n < sent[v][k].n
      BY DEF LogInv, InOrder
    <3> HIDE DEF q, t
    <3>8. InOrder(v)'
      BY <1>1, <2>1, <2>14, <3>5, <3>6, <3>7 DEF InOrder
    <3> QED
      BY <3>3, <3>4, <3>8 DEF WayInv
  <2>18. ASSUME NEW w \in Rec!Way, w # v PROVE WayInv(w)'
    BY <1>1, <2>1, <2>11, <2>18, SameWay DEF LogInv, WayInv
  <2>19. RequestsCount'
    BY <1>1 DEF LogInv, RequestsCount
  <2> QED
    BY <2>15, <2>16, <2>17, <2>18, <2>19 DEF LogInv, WayInv
<1> QED
  BY <1>2, <1>3

LEMMA LogForwardStep == ASSUME RecInv, LogInv, NEW v \in Rec!Way, Rec!Forward(v) PROVE LogInv'
<1> DEFINE f == forwarded[v]
           c == chunk[v]
           s == sent[v]
           b == Rec!Synchronised(buffer[v] \o c)
           g == f \o c
           F == Len(f)
           C == Len(c)
           L == Rec!LoggedOf(v)
           q == Rec!Whole(b)
<1>1. /\ pump[v] = "send" /\ forwarded' = [forwarded EXCEPT ![v] = g]
      /\ UNCHANGED <<sent, log>>
      /\ \/ /\ toRecord' = [toRecord EXCEPT ![v] = q]
            /\ buffer' = [buffer EXCEPT ![v] = Rec!Kept(b)]
            /\ pump' = [pump EXCEPT ![v] = "record"] /\ UNCHANGED lossy
         \/ /\ buffer' = [buffer EXCEPT ![v] = <<>>] /\ pump' = [pump EXCEPT ![v] = "recv"]
            /\ lossy' = lossy \cup {v} /\ UNCHANGED toRecord
         \/ pump' = [pump EXCEPT ![v] = "dead"] /\ UNCHANGED <<buffer, toRecord, lossy>>
  BY DEF Rec!Forward, Rec!Forwarded
<1>2. /\ f \in Seq(Half) /\ c \in Seq(Half) /\ s \in Seq(Frame)
      /\ DOMAIN pump = Rec!Way /\ DOMAIN forwarded = Rec!Way
      /\ DOMAIN buffer = Rec!Way /\ DOMAIN toRecord = Rec!Way
  BY DEF RecInv, RecTyped, LogInv, LogTyped
<1>3. /\ F \in Nat /\ C \in Nat /\ Len(s) \in Nat /\ F + C <= 2 * Len(s)
      /\ \A i \in 1..F : f[i] = Split(s)[i]
      /\ \A i \in 1..C : c[i] = Split(s)[F + i]
  BY ChunkFollows
<1>4. b \in Seq(Half) /\ \E m \in Nat : Follows(b, v, m)
  BY <1>1, ReaderFollows DEF LogInv
<1>5. PICK m \in Nat : Follows(b, v, m)
  BY <1>4
<1>6. /\ Begins(b, m, s) /\ m >= F \div 2
      /\ b = <<>> \/ 2 * m + Len(b) = F + C
      /\ v \notin lossy => m = F \div 2 /\ 2 * m + Len(b) = F + C
  BY <1>5 DEF Follows
<1>7. toRecord[v] = <<>> /\ Upcoming(v) = {}
  <2>1. toRecord[v] = <<>>
    BY <1>1 DEF LogInv, InOrder
  <2>2. DOMAIN <<>> = {}
    OBVIOUS
  <2> QED
    BY <2>1, <2>2 DEF Upcoming
<1>8. Known(v) = {s[k].n : k \in 1..F \div 2}
  BY DEF Known
<1>9. /\ L \subseteq Known(v)
      /\ v \notin lossy => Known(v) \subseteq L
      /\ \A j, k \in DOMAIN s : j < k => s[j].n < s[k].n
  BY <1>1, <1>7 DEF LogInv, AllRecorded, InOrder
<1>10. forwarded'[v] = g /\ \A w \in Rec!Way : w # v => forwarded'[w] = forwarded[w]
  BY <1>1, <1>2
<1>11. \A w \in Rec!Way : Rec!LoggedOf(w)' = Rec!LoggedOf(w)
  BY <1>1 DEF Rec!LoggedOf
<1>12. \A w \in Rec!Way : w # v => WayInv(w)'
  <2> SUFFICES ASSUME NEW w \in Rec!Way, w # v PROVE WayInv(w)'
    OBVIOUS
  <2>1. /\ buffer'[w] = buffer[w] /\ toRecord'[w] = toRecord[w] /\ pump'[w] = pump[w]
        /\ w \in lossy' <=> w \in lossy
    BY <1>1, <1>2
  <2>2. sent'[w] = sent[w]
    BY <1>1
  <2>3. WayInv(w)
    BY DEF LogInv, WayInv
  <2> QED
    BY <1>10, <1>11, <2>1, <2>2, <2>3, SameWay
<1>13. LogOrdered' /\ RequestsCount' /\ sent'[v] = s
  BY <1>1 DEF LogInv, LogOrdered, RequestsCount
<1>14. L' = L
  BY <1>11
<1> HIDE DEF f, c, s, b, F, C, L, q
<1>15. /\ g \in Seq(Half) /\ Len(g) = F + C
       /\ \A i \in 1..F + C : g[i] = Split(s)[i]
  <2>1. /\ g \in Seq(Half) /\ Len(g) = F + C
        /\ \A i \in 1..F + C : g[i] = IF i <= F THEN f[i] ELSE c[i - F]
    BY <1>2, ConcatProperties DEF F, C
  <2>2. ASSUME NEW i \in 1..F + C PROVE g[i] = Split(s)[i]
    <3>1. CASE i <= F
      BY <1>3, <2>1, <3>1
    <3>2. CASE ~ (i <= F)
      <4>1. i - F \in 1..C /\ F + (i - F) = i
        BY <1>3, <3>2
      <4>2. c[i - F] = Split(s)[F + (i - F)]
        BY <1>3, <4>1
      <4> QED
        BY <2>1, <3>2, <4>1, <4>2
    <3> QED
      BY <3>1, <3>2
  <2> QED
    BY <2>1, <2>2
<1> HIDE DEF g
<1> DEFINE h == F \div 2
           k1 == (F + C) \div 2
           n == Len(b) \div 2
<1>16. /\ F % 2 \in {0, 1} /\ h \in Nat /\ F = 2 * h + (F % 2)
       /\ (F + C) % 2 \in {0, 1} /\ k1 \in Nat /\ F + C = 2 * k1 + ((F + C) % 2)
       /\ Len(b) % 2 \in {0, 1} /\ n \in Nat /\ Len(b) = 2 * n + (Len(b) % 2) /\ Len(b) \in Nat
  <2>1. F + C \in Nat /\ Len(b) \in Nat
    BY <1>3, <1>4, LenProperties
  <2> HIDE DEF h, k1, n
  <2> QED
    BY <1>3, <2>1, Halved DEF h, k1, n
<1>17. m >= h /\ (v \notin lossy => m = h)
  BY <1>6
<1>18. Known(v) = {s[k].n : k \in 1..h} /\ Known(v)' = {s[k].n : k \in 1..k1}
  BY <1>8, <1>10, <1>13, <1>15 DEF Known
<1> HIDE DEF h, k1, n
<1>19. h <= k1 /\ k1 <= Len(s) /\ DOMAIN s = 1..Len(s)
  <2>1. h <= k1 /\ k1 <= Len(s)
    BY <1>3, <1>16
  <2> QED
    BY <1>2, <2>1, LenProperties
<1>20. Known(v) \subseteq Known(v)'
  BY <1>16, <1>18, <1>19
<1>21. b # <<>> => m + n = k1 /\ Len(b) % 2 = (F + C) % 2
  BY <1>6, <1>16
<1>22. b = <<>> => n = 0 /\ Len(b) % 2 = 0
  <2>1. b = <<>> => Len(b) = 0
    OBVIOUS
  <2> QED
    BY <1>16, <2>1
<1>23. v \notin lossy => m + n = k1 /\ Len(b) % 2 = (F + C) % 2
  BY <1>6, <1>16
\* Everything decodes.
<1>24. ASSUME toRecord' = [toRecord EXCEPT ![v] = q],
              buffer' = [buffer EXCEPT ![v] = Rec!Kept(b)],
              pump' = [pump EXCEPT ![v] = "record"], UNCHANGED lossy
       PROVE  LogInv'
  <2>1. toRecord'[v] = q /\ buffer'[v] = Rec!Kept(b) /\ pump'[v] = "record"
    BY <1>2, <1>24
  <2>2. q \in Seq(Frame) /\ Len(q) = n /\ \A i \in 1..n : q[i] = s[m + i]
    BY <1>2, <1>4, <1>6, WholeIs DEF q, n
  <2>3. DOMAIN q = 1..n
    BY <2>2, LenProperties
  <2>4. Upcoming(v)' = {s[m + i].n : i \in 1..n}
    BY <2>1, <2>2, <2>3 DEF Upcoming
  <2>5. \A i \in 1..n : m + i \in 1..k1 /\ m + i \in 1..Len(s)
    BY <1>16, <1>19, <1>21, <1>22, <1>3
  <2>6. Rec!Kept(b) \in Seq(Half)
        /\ \/ Rec!Kept(b) = <<>> /\ Len(b) % 2 = 0
           \/ (F + C) % 2 = 1 /\ Rec!Kept(b) = <<g[F + C]>>
    <3>1. CASE Len(b) % 2 = 1
      <4>1. b # <<>> /\ 2 * m + Len(b) = F + C /\ (F + C) % 2 = 1
        BY <1>6, <1>21, <1>22, <3>1
      <4>2. Len(b) \in 1..Len(b) /\ F + C \in 1..F + C
        BY <1>3, <1>16, <3>1, <4>1
      <4>3. b[Len(b)] = Split(s)[F + C]
        BY <1>6, <4>1, <4>2 DEF Begins
      <4>4. Rec!Kept(b) = <<b[Len(b)]>>
        BY <3>1 DEF Rec!Kept, Rec!Last
      <4>5. b[Len(b)] \in Half
        BY <1>4, <4>2, ElementOfSeq
      <4> QED
        BY <1>15, <4>1, <4>2, <4>3, <4>4, <4>5
    <3>2. CASE Len(b) % 2 # 1
      <4>1. <<>> \in Seq(Half)
        OBVIOUS
      <4> QED
        BY <1>16, <3>2, <4>1 DEF Rec!Kept
    <3> QED
      BY <3>1, <3>2
  <2>7. LogTyped'
    BY <1>1, <1>24, <2>2, <2>6 DEF LogInv, LogTyped
  <2>8. BufferIsTail(v)'
    <3>1. v \notin lossy => Len(b) % 2 = (F + C) % 2
      BY <1>23
    <3>2. <<g[F + C]>> # <<>>
      OBVIOUS
    <3> DEFINE k == Rec!Kept(b)
    <3>3. /\ \/ k = <<>>
             \/ (F + C) % 2 = 1 /\ k = <<g[F + C]>>
          /\ v \notin lossy /\ k = <<>> => (F + C) % 2 = 0
      BY <2>6, <3>1, <3>2
    <3> HIDE DEF k
    <3>4. forwarded'[v] = g /\ Len(g) = F + C /\ buffer'[v] = k /\ lossy' = lossy
      BY <1>10, <1>15, <1>24, <2>1 DEF k
    <3> QED
      BY <3>3, <3>4 DEF BufferIsTail
  <2>9. InOrder(v)'
    <3>1. \A i, j \in DOMAIN q : i < j => q[i].n < q[j].n
      <4> SUFFICES ASSUME NEW i \in 1..n, NEW j \in 1..n, i < j PROVE q[i].n < q[j].n
        BY <2>3
      <4>1. m + i < m + j /\ m + i \in DOMAIN s /\ m + j \in DOMAIN s
        BY <1>19, <2>5
      <4> QED
        BY <1>9, <2>2, <4>1
    <3>2. \A a \in L, x \in Upcoming(v)' : a < x
      <4> SUFFICES ASSUME NEW a \in L, NEW x \in Upcoming(v)' PROVE a < x
        OBVIOUS
      <4>1. PICK k \in 1..h : a = s[k].n
        BY <1>9, <1>18
      <4>2. PICK i \in 1..n : x = s[m + i].n
        BY <2>4
      <4>3. k < m + i /\ k \in DOMAIN s /\ m + i \in DOMAIN s
        <5>1. h \in Nat /\ k1 \in Nat /\ n \in Nat /\ Len(s) \in Nat
          BY <1>3, <1>16
        <5>2. k < m + i
          BY <1>17, <5>1
        <5>3. k \in 1..Len(s)
          BY <1>19, <5>1
        <5> QED
          BY <1>19, <2>5, <5>2, <5>3
      <4> QED
        BY <1>9, <4>1, <4>2, <4>3
    <3>3. \A a \in Rec!LoggedOf(v)', x \in Upcoming(v)' : a < x
      BY <1>11, <3>2 DEF L
    <3> QED
      BY <1>9, <1>13, <2>1, <3>1, <3>3 DEF InOrder
  <2>10. AllRecorded(v)'
    <3>1. L \cup Upcoming(v)' \subseteq Known(v)'
      BY <1>9, <1>18, <1>20, <2>4, <2>5
    <3>2. v \notin lossy => Known(v)' \subseteq L \cup Upcoming(v)'
      <4> SUFFICES ASSUME v \notin lossy, NEW x \in Known(v)' PROVE x \in L \cup Upcoming(v)'
        OBVIOUS
      <4>1. PICK k \in 1..k1 : x = s[k].n
        BY <1>18
      <4>2. CASE k \in 1..h
        BY <1>9, <1>18, <4>1, <4>2
      <4>3. CASE k \notin 1..h
        <5>1. k - m \in 1..n /\ m + (k - m) = k
          BY <1>16, <1>17, <1>23, <4>3
        <5> QED
          BY <2>4, <4>1, <5>1
      <4> QED
        BY <4>2, <4>3
    <3> QED
      BY <1>11, <1>24, <3>1, <3>2 DEF AllRecorded, L
  <2> QED
    BY <1>12, <1>13, <2>7, <2>8, <2>9, <2>10 DEF LogInv, WayInv
\* Something does not.
<1>25. ASSUME UNCHANGED toRecord, pump'[v] # "record", v \notin lossy' => pump'[v] = "dead"
       PROVE  InOrder(v)' /\ AllRecorded(v)'
  <2>1. Upcoming(v)' = {}
    BY <1>7, <1>25 DEF Upcoming
  <2>2. DOMAIN <<>> = {}
    OBVIOUS
  <2>3. InOrder(v)'
    BY <1>7, <1>9, <1>13, <1>25, <2>1, <2>2 DEF InOrder
  <2>4. Rec!LoggedOf(v)' = L
    BY <1>11 DEF L
  <2>5. AllRecorded(v)'
    BY <1>9, <1>20, <1>25, <2>1, <2>4 DEF AllRecorded
  <2> QED
    BY <2>3, <2>5
<1>26. ASSUME buffer' = [buffer EXCEPT ![v] = <<>>], pump' = [pump EXCEPT ![v] = "recv"],
              lossy' = lossy \cup {v}, UNCHANGED toRecord
       PROVE  LogInv'
  <2>1. buffer'[v] = <<>> /\ pump'[v] = "recv" /\ v \in lossy'
    BY <1>2, <1>26
  <2>2. BufferIsTail(v)'
    BY <2>1 DEF BufferIsTail
  <2>3. LogTyped'
    <3>1. <<>> \in Seq(Half)
      OBVIOUS
    <3> QED
      BY <1>1, <1>26, <3>1 DEF LogInv, LogTyped
  <2> QED
    BY <1>12, <1>13, <1>25, <1>26, <2>1, <2>2, <2>3 DEF LogInv, WayInv
<1>27. ASSUME pump' = [pump EXCEPT ![v] = "dead"], UNCHANGED <<buffer, toRecord, lossy>>
       PROVE  LogInv'
  <2>1. pump'[v] = "dead"
    BY <1>2, <1>27
  <2>2. BufferIsTail(v)'
    BY <2>1 DEF BufferIsTail
  <2>3. LogTyped'
    BY <1>1, <1>27 DEF LogInv, LogTyped
  <2> QED
    BY <1>12, <1>13, <1>25, <1>27, <2>1, <2>2, <2>3 DEF LogInv, WayInv
<1> QED
  BY <1>1, <1>24, <1>26, <1>27

LEMMA LogNextHolds == RecInv /\ LogInv /\ (Rec!Next \/ UNCHANGED recVars) => LogInv'
<1> SUFFICES ASSUME RecInv, LogInv, Rec!Next \/ UNCHANGED recVars PROVE LogInv'
  OBVIOUS
<1>1. /\ DOMAIN pump = Rec!Way /\ "request" \in Rec!Way
      /\ \A w \in Rec!Way : pump[w] \notin {"record", "failed"} => toRecord[w] = <<>>
      /\ \A v, w \in Rec!Way : pump[v] = "off" => pump[w] = "off"
  BY DEF RecInv, RecTyped, StartedTogether, LogInv, InOrder, Rec!Way
<1>2. CASE Rec!Accept
  <2>1. /\ UNCHANGED <<sent, buffer, toRecord, forwarded, log, lossy>>
        /\ pump["request"] = "off" /\ pump' = [w \in Rec!Way |-> "recv"]
    BY <1>2 DEF Rec!Accept
  <2>2. \A w \in Rec!Way : pump[w] = "off"
    BY <1>1, <2>1
  <2>3. \A w \in Rec!Way : pump[w] # "dead" /\ toRecord[w] = <<>>
    BY <1>1, <2>2
  <2> QED
    BY <2>1, <2>3, LogStillSteps
<1>3. CASE Rec!Ask \/ Rec!Answer
  BY <1>3, LogAskAnswer
<1>4. CASE Rec!Break \/ UNCHANGED recVars
  <2>1. UNCHANGED <<sent, buffer, toRecord, forwarded, log, lossy, pump>>
    BY <1>4 DEF Rec!Break, recVars
  <2> QED
    BY <2>1, LogStillSteps
<1>5. ASSUME NEW v \in Rec!Way, Rec!Receive(v) \/ Rec!HangUp(v) PROVE LogInv'
  <2>1. /\ UNCHANGED <<sent, buffer, toRecord, forwarded, log, lossy>>
        /\ pump[v] \in {"recv", "send"}
        /\ \E next \in {"send", "ended"} : pump' = [pump EXCEPT ![v] = next]
    BY <1>5 DEF Rec!Receive, Rec!HangUp
  <2>2. \A w \in Rec!Way : pump'[w] = pump[w] \/ (pump[w] # "dead" /\ toRecord[w] = <<>>)
    BY <1>1, <2>1
  <2> QED
    BY <2>1, <2>2, LogStillSteps
<1>6. ASSUME NEW v \in Rec!Way, Rec!Forward(v) \/ Rec!Record(v) \/ Rec!RecordFails(v)
      PROVE  LogInv'
  BY <1>6, LogForwardStep, LogRecordStep
<1> QED
  BY <1>2, <1>3, <1>4, <1>5, <1>6 DEF Rec!Next

\* The log's invariant, next to that of the proxy.
THEOREM LogInvariant == PartsSpec => []LogInv
<1>1. PartsInit => LogInv
  BY LogInitHolds DEF PartsInit
<1> QED
  BY <1>1, ProxyInvariant, ProxyAlone, LogNextHolds, PTL DEF PartsSpec

\* However chunks cut the frames of a session, a direction's log has them in their
\* order, and every one that was forwarded unless one did not decode (proxy.py:185).
THEOREM LogsAreComplete == PartsSpec => []LogIsComplete
<1>1. LogInv => LogIsComplete
  <2> SUFFICES ASSUME LogInv PROVE Rec!LogIsComplete
    BY DEF LogIsComplete
  <2>1. ASSUME NEW w \in Rec!Way, pump[w] = "recv", w \notin lossy
        PROVE  Rec!LoggedOf(w) = {sent[w][k].n : k \in 1..Len(forwarded[w]) \div 2}
    <3>1. toRecord[w] = <<>> /\ DOMAIN <<>> = {}
      BY <2>1 DEF LogInv, InOrder
    <3>2. Upcoming(w) = {}
      BY <3>1 DEF Upcoming
    <3> QED
      BY <2>1, <3>2 DEF LogInv, AllRecorded, Known
  <2> QED
    BY <2>1 DEF Rec!LogIsComplete, LogInv, LogOrdered
<1> QED
  BY <1>1, LogInvariant, PTL

-----------------------------------------------------------------------------
(* The pairing of a log                                                      *)

\* What pairing a log keeps, and the table that pairs each part of it.
Pairing ==
    [outstanding : [0..SerialNumbers-1 -> 0..Len(log)],
     answers : [1..Len(log) -> 0..Len(log)]]
Unpaired == [outstanding |-> [s \in 0..SerialNumbers-1 |-> 0], answers |-> [i \in DOMAIN log |-> 0]]
Events == [i \in DOMAIN log |-> i]
PairedUpTo ==
    CHOOSE g : g = [s \in SUBSET DOMAIN Events |->
                      IF s = {} THEN Unpaired
                      ELSE Rec!Paired(g[s \ {Rec!Max(s)}], Events[Rec!Max(s)])]

LEMMA PairingIsInTheTable ==
    Rec!pair_transactions = PairedUpTo[DOMAIN Events].answers
BY DEF Rec!pair_transactions, Rec!FoldLeft, Rec!MapThenFoldSet, PairedUpTo, Unpaired, Events

LEMMA SerialNumbersAre == SerialNumbers \in Nat \ {0}
BY PartsAssumption DEF Rec!RecordingAssumption

\* An event of a log has a serial number in range, and pairing it keeps a pairing.
LEMMA PairingKept ==
    ASSUME LogTyped, NEW p \in Pairing, NEW i \in 1..Len(log)
    PROVE  Rec!Paired(p, i) \in Pairing /\ Rec!serno(log[i].n) \in 0..SerialNumbers-1
<1>1. log[i] \in Event
  BY ElementOfSeq DEF LogTyped
<1>2. Rec!serno(log[i].n) \in 0..SerialNumbers-1
  <2>1. log[i].n \in Nat
    BY <1>1 DEF Event
  <2> QED
    BY <2>1, SerialNumbersAre, Division DEF Rec!serno
<1> DEFINE s == Rec!serno(log[i].n)
           N == Len(log)
           out == p.outstanding
           ans == p.answers
           T == 0..SerialNumbers-1
<1>3. /\ N \in Nat /\ p = [outstanding |-> out, answers |-> ans]
      /\ out \in [T -> 0..N] /\ ans \in [1..N -> 0..N]
  <2>1. N \in Nat
    BY LenProperties DEF LogTyped
  <2> QED
    BY <2>1 DEF Pairing
<1>4. Rec!Paired(p, i) = IF log[i].way = "request" THEN [p EXCEPT !.outstanding[s] = i]
                         ELSE [outstanding |-> [out EXCEPT ![s] = 0],
                               answers |-> [ans EXCEPT ![i] = out[s]]]
  BY DEF Rec!Paired, Rec!Waits
<1>5. s \in T
  BY <1>2
<1>6. Pairing = [outstanding : [T -> 0..N], answers : [1..N -> 0..N]]
  BY DEF Pairing
<1> HIDE DEF s, N, T, out, ans
<1>7. i \in 0..N /\ i \in 1..N /\ 0 \in 0..N
  BY <1>3 DEF N
<1>8. [p EXCEPT !.outstanding[s] = i] = [outstanding |-> [out EXCEPT ![s] = i], answers |-> ans]
  <2>1. [p EXCEPT !.outstanding[s] = i] = [p EXCEPT !.outstanding = [p.outstanding EXCEPT ![s] = i]]
    OBVIOUS
  <2>2. p.outstanding = out
    BY DEF out
  <2> DEFINE new == [out EXCEPT ![s] = i]
  <2> HIDE DEF new
  <2>3. [p EXCEPT !.outstanding = new] = [outstanding |-> new, answers |-> ans]
    BY <1>3
  <2> QED
    BY <2>1, <2>2, <2>3 DEF new
<1>9. [out EXCEPT ![s] = i] \in [T -> 0..N] /\ [out EXCEPT ![s] = 0] \in [T -> 0..N]
  BY <1>3, <1>7
<1>10. out[s] \in 0..N /\ [ans EXCEPT ![i] = out[s]] \in [1..N -> 0..N]
  BY <1>3, <1>5, <1>7
<1>11. \A o \in [T -> 0..N], a \in [1..N -> 0..N] : [outstanding |-> o, answers |-> a] \in Pairing
  BY <1>6
<1>12. CASE log[i].way = "request"
  BY <1>2, <1>3, <1>4, <1>8, <1>9, <1>11, <1>12 DEF s
<1>13. CASE log[i].way # "request"
  BY <1>2, <1>4, <1>9, <1>10, <1>11, <1>13 DEF s
<1> QED
  BY <1>12, <1>13

LEMMA PairingIsDefined ==
    ASSUME LogTyped
    PROVE  \A s \in SUBSET (1..Len(log)) :
              PairedUpTo[s] = IF s = {} THEN Unpaired
                              ELSE Rec!Paired(PairedUpTo[s \ {Rec!Max(s)}], Rec!Max(s))
<1> DEFINE D == 1..Len(log)
           c == [s \in SUBSET D |-> Rec!Max(s)]
           h == [x \in D \X Pairing |-> Rec!Paired(x[2], x[1])]
           Is(g) == g = [s \in SUBSET D |-> IF s = {} THEN Unpaired
                                            ELSE Rec!Paired(g[s \ {Rec!Max(s)}], Events[Rec!Max(s)])]
<1>1. Len(log) \in Nat /\ DOMAIN log = D /\ DOMAIN Events = D /\ \A i \in D : Events[i] = i
  BY LenProperties DEF LogTyped, Events
<1>2. \A s \in SUBSET D : s # {} => Rec!Max(s) \in s
  BY <1>1, LargestIsOne
<1>3. Chooses(D, c) /\ IsFiniteSet(D)
  <2>1. IsFiniteSet(D)
    BY <1>1, FS_Interval
  <2>2. \A s \in SUBSET D : c[s] = Rec!Max(s)
    OBVIOUS
  <2> QED
    BY <1>2, <2>1, <2>2 DEF Chooses
<1>4. h \in [D \X Pairing -> Pairing]
  BY PairingKept
<1>5. Unpaired \in Pairing
  BY <1>1 DEF Unpaired, Pairing
<1>6. \E g : IsFold(D, Pairing, Unpaired, c, h, g)
  <2> HIDE DEF D, c, h
  <2> QED
    BY <1>3, <1>4, <1>5, FoldExists
<1>7. PICK g : IsFold(D, Pairing, Unpaired, c, h, g)
  BY <1>6
<1>8. ASSUME NEW s \in SUBSET D, s # {}
      PROVE  FoldStep(Unpaired, c, h, g, s) = Rec!Paired(g[s \ {Rec!Max(s)}], Events[Rec!Max(s)])
  <2> DEFINE x == Rec!Max(s)
             r == s \ {x}
  <2>1. x \in D /\ r \in SUBSET D /\ Events[x] = x /\ c[s] = x
    BY <1>1, <1>2, <1>8
  <2>2. g[r] \in Pairing
    BY <1>7, <2>1 DEF IsFold
  <2>3. h[x, g[r]] = Rec!Paired(g[r], x)
    BY <2>1, <2>2
  <2> HIDE DEF x, c, h
  <2> QED
    BY <1>8, <2>1, <2>3 DEF FoldStep, x
<1> HIDE DEF c, h
<1>9. Is(g)
  <2>1. g \in [SUBSET D -> Pairing] /\ \A s \in SUBSET D : g[s] = FoldStep(Unpaired, c, h, g, s)
    BY <1>7 DEF IsFold
  <2>2. \A s \in SUBSET D :
           g[s] = IF s = {} THEN Unpaired ELSE Rec!Paired(g[s \ {Rec!Max(s)}], Events[Rec!Max(s)])
    BY <1>8, <2>1 DEF FoldStep
  <2> QED
    BY <2>1, <2>2
<1>10. Is(PairedUpTo)
  BY <1>1, <1>9 DEF PairedUpTo
<1>11. \A s \in SUBSET D : s # {} => Events[Rec!Max(s)] = Rec!Max(s)
  BY <1>1, <1>2
<1> QED
  BY <1>10, <1>11

\* The table from one part of the log to the next.
LEMMA PairingStep ==
    ASSUME LogTyped
    PROVE  /\ PairedUpTo[{}] = Unpaired
           /\ \A k \in 1..Len(log) : PairedUpTo[1..k] = Rec!Paired(PairedUpTo[1..(k-1)], k)
<1>1. Len(log) \in Nat
  BY LenProperties DEF LogTyped
<1>2. PairedUpTo[{}] = Unpaired
  BY PairingIsDefined
<1>3. ASSUME NEW k \in 1..Len(log)
      PROVE  PairedUpTo[1..k] = Rec!Paired(PairedUpTo[1..(k-1)], k)
  <2>1. k \in Nat /\ k >= 1 /\ k \in 1..k /\ 1..k # {} /\ 1..k \in SUBSET (1..Len(log))
    <3>1. k \in Nat /\ k >= 1 /\ k <= Len(log)
      BY <1>1
    <3>2. k \in 1..k /\ \A x \in 1..k : x \in 1..Len(log)
      BY <1>1, <3>1
    <3> QED
      BY <3>1, <3>2
  <2>2. Rec!Max(1..k) \in 1..k
    BY <2>1, LargestIsOne
  <2>3. Rec!Max(1..k) = k
    <3>1. \A x \in 1..k : (\A y \in 1..k : x >= y) <=> x = k
      BY <2>1
    <3> QED
      BY <2>1, <3>1 DEF Rec!Max
  <2>4. (1..k) \ {k} = 1..(k-1)
    BY <2>1
  <2> QED
    BY <2>1, <2>3, <2>4, PairingIsDefined
<1> QED
  BY <1>2, <1>3

\* Nothing of a request's number stands between it and the response that follows
\* in step: a later request would be newer, an earlier response older.
LEMMA NothingBetween ==
    ASSUME LogInv, Rec!InStep, NEW i \in 1..Len(log), log[i].way = "response",
           NEW j \in 1..i-1, log[j] = [way |-> "request", n |-> log[i].n],
           NEW r \in j+1..i-1, Rec!serno(log[r].n) = Rec!serno(log[i].n)
    PROVE  FALSE
<1>1. Len(log) \in Nat /\ DOMAIN log = 1..Len(log)
  BY LenProperties DEF LogInv, LogTyped
<1>2. /\ i \in DOMAIN log /\ j \in DOMAIN log /\ r \in DOMAIN log /\ j < r /\ r < i
      /\ r \in 1..i-1 /\ j \in 1..r-1
  BY <1>1
<1>3. log[j].way = "request" /\ log[j].n = log[i].n
  OBVIOUS
<1>4. \A x \in DOMAIN log : log[x] \in Event
  BY <1>1, ElementOfSeq DEF LogInv, LogTyped
<1>5. log[r].way \in {"request", "response"} /\ log[r].n \in Nat /\ log[i].n \in Nat
  BY <1>2, <1>4 DEF Event, Rec!Way
<1>6. log[r].n <= log[i].n
  BY <1>2 DEF Rec!InStep
<1>7. CASE log[r].way = "request"
  <2>1. log[j].n < log[r].n
    BY <1>2, <1>3, <1>7 DEF LogInv, LogOrdered
  <2> QED
    BY <1>3, <1>5, <1>6, <2>1
<1>8. CASE log[r].way = "response"
  <2>1. log[j].n <= log[r].n
    BY <1>2, <1>3, <1>8 DEF Rec!InStep
  <2>2. log[r].n < log[i].n
    BY <1>2, <1>8 DEF LogInv, LogOrdered
  <2> QED
    BY <1>3, <1>5, <2>1, <2>2
<1> QED
  BY <1>5, <1>7, <1>8

\* What has been paired after a part of the log: a request waits, unless another
\* event of its number followed, and each response has its own request.
Waiting(p, k) ==
    \A j \in 1..k : log[j].way = "request" =>
        \/ \E r \in j+1..k : Rec!serno(log[r].n) = Rec!serno(log[j].n)
        \/ p.outstanding[Rec!serno(log[j].n)] = j
Matched(p, k) ==
    \A i \in 1..k : log[i].way = "response" =>
        p.answers[i] # 0 /\ log[p.answers[i]] = [way |-> "request", n |-> log[i].n]

LEMMA RequestIsNoted ==
    ASSUME LogInv, NEW k \in 1..Len(log), NEW p \in Pairing, Waiting(p, k - 1), Matched(p, k - 1),
           log[k].way = "request"
    PROVE  Waiting(Rec!Paired(p, k), k) /\ Matched(Rec!Paired(p, k), k)
<1> DEFINE s == Rec!serno(log[k].n)
           q == Rec!Paired(p, k)
<1>1. Len(log) \in Nat /\ s \in 0..SerialNumbers-1
  BY PairingKept, LenProperties DEF LogInv, LogTyped
<1>2. /\ q.answers = p.answers
      /\ \A x \in 0..SerialNumbers-1 : q.outstanding[x] = IF x = s THEN k ELSE p.outstanding[x]
  <2>1. q = [p EXCEPT !.outstanding[s] = k]
    BY DEF Rec!Paired, Rec!Waits
  <2>2. p = [outstanding |-> p.outstanding, answers |-> p.answers]
        /\ DOMAIN p.outstanding = 0..SerialNumbers-1
    BY DEF Pairing
  <2> HIDE DEF q, s
  <2> QED
    BY <1>1, <2>1, <2>2
<1>3. \A x \in 1..Len(log) : Rec!serno(log[x].n) \in 0..SerialNumbers-1
  BY PairingKept DEF LogInv
<1> HIDE DEF q
<1>4. ASSUME NEW j \in 1..k, log[j].way = "request"
      PROVE  \/ \E r \in j+1..k : Rec!serno(log[r].n) = Rec!serno(log[j].n)
             \/ q.outstanding[Rec!serno(log[j].n)] = j
  <2>1. CASE j = k
    BY <1>1, <1>2, <2>1
  <2>2. CASE j # k
    <3>1. j \in 1..k-1 /\ k \in j+1..k /\ j+1..k-1 \subseteq j+1..k /\ j \in 1..Len(log)
      BY <1>1, <2>2
    <3>2. CASE Rec!serno(log[j].n) = s
      BY <3>1, <3>2
    <3>3. CASE Rec!serno(log[j].n) # s
      <4>1. q.outstanding[Rec!serno(log[j].n)] = p.outstanding[Rec!serno(log[j].n)]
        BY <1>2, <1>3, <3>1, <3>3
      <4>2. \/ \E r \in j+1..k-1 : Rec!serno(log[r].n) = Rec!serno(log[j].n)
            \/ p.outstanding[Rec!serno(log[j].n)] = j
        BY <1>4, <3>1 DEF Waiting
      <4> QED
        BY <3>1, <4>1, <4>2
    <3> QED
      BY <3>2, <3>3
  <2> QED
    BY <2>1, <2>2
<1>5. Matched(q, k)
  <2> SUFFICES ASSUME NEW i \in 1..k, log[i].way = "response"
               PROVE  q.answers[i] # 0 /\ log[q.answers[i]] = [way |-> "request", n |-> log[i].n]
    BY DEF Matched
  <2>1. i \in 1..k-1
    BY <1>1
  <2> QED
    BY <1>2, <2>1 DEF Matched
<1> QED
  BY <1>4, <1>5 DEF Waiting, q

LEMMA ResponseIsPaired ==
    ASSUME LogInv, Rec!InStep, NEW k \in 1..Len(log), NEW p \in Pairing,
           Waiting(p, k - 1), Matched(p, k - 1), log[k].way = "response"
    PROVE  Waiting(Rec!Paired(p, k), k) /\ Matched(Rec!Paired(p, k), k)
<1> DEFINE s == Rec!serno(log[k].n)
           q == Rec!Paired(p, k)
<1>1. Len(log) \in Nat /\ s \in 0..SerialNumbers-1 /\ DOMAIN log = 1..Len(log)
  BY PairingKept, LenProperties DEF LogInv, LogTyped
<1>2. /\ \A x \in 0..SerialNumbers-1 : x # s => q.outstanding[x] = p.outstanding[x]
      /\ \A x \in 1..Len(log) : q.answers[x] = IF x = k THEN p.outstanding[s] ELSE p.answers[x]
  <2>1. q = [outstanding |-> [p.outstanding EXCEPT ![s] = 0],
             answers |-> [p.answers EXCEPT ![k] = p.outstanding[s]]]
    BY DEF Rec!Paired
  <2>2. DOMAIN p.outstanding = 0..SerialNumbers-1 /\ DOMAIN p.answers = 1..Len(log)
    BY DEF Pairing
  <2> HIDE DEF q, s
  <2> QED
    BY <1>1, <2>1, <2>2
<1>3. \A x \in 1..Len(log) : Rec!serno(log[x].n) \in 0..SerialNumbers-1
  BY PairingKept DEF LogInv
<1> HIDE DEF q
<1>4. ASSUME NEW j \in 1..k, log[j].way = "request"
      PROVE  \/ \E r \in j+1..k : Rec!serno(log[r].n) = Rec!serno(log[j].n)
             \/ q.outstanding[Rec!serno(log[j].n)] = j
  <2>1. j # k
    BY <1>4
  <2>2. j \in 1..k-1 /\ k \in j+1..k /\ j+1..k-1 \subseteq j+1..k /\ j \in 1..Len(log)
    BY <1>1, <2>1
  <2>3. CASE Rec!serno(log[j].n) = s
    BY <2>2, <2>3
  <2>4. CASE Rec!serno(log[j].n) # s
    <3>1. q.outstanding[Rec!serno(log[j].n)] = p.outstanding[Rec!serno(log[j].n)]
      BY <1>2, <1>3, <2>2, <2>4
    <3>2. \/ \E r \in j+1..k-1 : Rec!serno(log[r].n) = Rec!serno(log[j].n)
          \/ p.outstanding[Rec!serno(log[j].n)] = j
      BY <1>4, <2>2 DEF Waiting
    <3> QED
      BY <2>2, <3>1, <3>2
  <2> QED
    BY <2>3, <2>4
<1>5. PICK j \in 1..k-1 : log[j] = [way |-> "request", n |-> log[k].n]
  BY <1>1 DEF Rec!InStep
<1>6. p.outstanding[s] = j
  <2>1. log[j].way = "request" /\ log[j].n = log[k].n
    BY <1>5
  <2>2. ~ \E r \in j+1..k-1 : Rec!serno(log[r].n) = Rec!serno(log[k].n)
    BY <1>5, NothingBetween
  <2> QED
    BY <2>1, <2>2 DEF Waiting
<1>7. Matched(q, k)
  <2> SUFFICES ASSUME NEW i \in 1..k, log[i].way = "response"
               PROVE  q.answers[i] # 0 /\ log[q.answers[i]] = [way |-> "request", n |-> log[i].n]
    BY DEF Matched
  <2>1. CASE i = k
    <3>1. q.answers[k] = j /\ j # 0
      BY <1>1, <1>2, <1>6
    <3> QED
      BY <1>5, <2>1, <3>1
  <2>2. CASE i # k
    <3>1. i \in 1..k-1 /\ i \in 1..Len(log)
      BY <1>1, <2>2
    <3>2. q.answers[i] = p.answers[i]
      BY <1>2, <2>2, <3>1
    <3> QED
      BY <3>1, <3>2 DEF Matched
  <2> QED
    BY <2>1, <2>2
<1> QED
  BY <1>4, <1>7 DEF Waiting, q

LEMMA PairsOfALog ==
    ASSUME LogInv, Rec!InStep
    PROVE  Matched(PairedUpTo[1..Len(log)], Len(log))
<1> DEFINE N == Len(log)
           P(k) == PairedUpTo[1..k]
           Good(k) == P(k) \in Pairing /\ Waiting(P(k), k) /\ Matched(P(k), k)
           Bad == {k \in Nat : k <= N /\ ~ Good(k)}
<1>1. N \in Nat /\ DOMAIN log = 1..N /\ LogTyped
  BY LenProperties DEF LogInv, LogTyped
<1>2. PairedUpTo[{}] = Unpaired /\ \A k \in 1..N : P(k) = Rec!Paired(P(k - 1), k)
  BY <1>1, PairingStep
<1>3. Good(0)
  <2>1. 1..0 = {} /\ P(0) = Unpaired
    BY <1>2
  <2>2. Unpaired \in Pairing
    BY <1>1 DEF Unpaired, Pairing
  <2>3. Waiting(Unpaired, 0) /\ Matched(Unpaired, 0)
    BY <2>1 DEF Waiting, Matched
  <2> QED
    BY <2>1, <2>2, <2>3
<1>4. ASSUME NEW k \in 1..N, Good(k - 1) PROVE Good(k)
  <2> DEFINE p == P(k - 1)
  <2>1. p \in Pairing /\ Waiting(p, k - 1) /\ Matched(p, k - 1)
    BY <1>4
  <2>2. P(k) = Rec!Paired(p, k)
    BY <1>2
  <2>3. log[k].way \in {"request", "response"}
    <3>1. log[k] \in Event
      BY <1>1, ElementOfSeq DEF LogTyped
    <3> QED
      BY <3>1 DEF Event, Rec!Way
  <2> HIDE DEF p
  <2>4. Rec!Paired(p, k) \in Pairing
    BY <1>1, <2>1, PairingKept
  <2>5. Waiting(Rec!Paired(p, k), k) /\ Matched(Rec!Paired(p, k), k)
    BY <2>1, <2>3, RequestIsNoted, ResponseIsPaired
  <2> QED
    BY <2>2, <2>4, <2>5
<1> HIDE DEF Good
<1>5. Bad = {}
  <2> SUFFICES ASSUME Bad # {} PROVE FALSE
    OBVIOUS
  <2>1. PICK k \in Bad : \A x \in Bad : k <= x
    BY LeastOf
  <2>2. k # 0
    BY <1>3, <2>1
  <2>3. k \in 1..N /\ k - 1 \in Nat /\ k - 1 <= N /\ k - 1 \notin Bad
    BY <1>1, <2>1, <2>2
  <2> QED
    BY <1>4, <2>1, <2>3
<1> QED
  BY <1>1, <1>5 DEF Good

\* In a log in which requests and responses keep in step each response is paired
\* with its own request, for any number of serial numbers (capture.py:366).
THEOREM PairsAreMatched == PartsSpec => []PairsMatch
<1>1. LogInv => PairsMatch
  <2> SUFFICES ASSUME LogInv, Rec!InStep, NEW i \in DOMAIN log, log[i].way = "response"
               PROVE  LET j == Rec!pair_transactions[i] IN
                      j # 0 /\ log[j] = [way |-> "request", n |-> log[i].n]
    BY DEF PairsMatch, Rec!PairsMatch
  <2>1. DOMAIN log = 1..Len(log) /\ DOMAIN Events = 1..Len(log)
    BY LenProperties DEF LogInv, LogTyped, Events
  <2>2. Rec!pair_transactions = PairedUpTo[1..Len(log)].answers
    BY <2>1, PairingIsInTheTable
  <2> QED
    BY <2>1, <2>2, PairsOfALog DEF Matched
<1> QED
  BY <1>1, LogInvariant, PTL

-----------------------------------------------------------------------------
(* Readings: the inductive invariant                                         *)

\* What is read is well formed: the devices of a screen and their states, the
\* elements of two lists, the segments of a stream.
ReaInv ==
    /\ input.of = "screen" =>
        input.members \in Seq(Address) /\ input.states \in [Address -> Rea!DeviceState]
    /\ input.of = "difference" =>
        input.before \in Seq(Rea!Item) /\ input.after \in Seq(Rea!Item)
    /\ input.of = "capture" =>
        /\ input.segments \in Seq(Rea!Segment) /\ input.segments # <<>>
        /\ input.first \in 0..SequenceNumbers-1

LEMMA ReaInitHolds == Rea!Init => ReaInv
BY DEF Rea!Init, ReaInv

LEMMA ReaNextHolds == ReaInv /\ (Rea!Next \/ UNCHANGED reaVars) => ReaInv'
<1> SUFFICES ASSUME ReaInv, Rea!Next \/ UNCHANGED reaVars PROVE ReaInv'
  OBVIOUS
<1>1. CASE Rea!AskScreen
  <2>1. PICK m \in Rea!BoundedSeq(Address, 3), s \in [Address -> Rea!DeviceState] :
            input' = [of |-> "screen", members |-> m, states |-> s]
    BY <1>1 DEF Rea!AskScreen
  <2>2. m \in Seq(Address)
    BY <2>1 DEF Rea!BoundedSeq, Rea!SeqOf
  <2> QED
    BY <2>1, <2>2 DEF ReaInv
<1>2. CASE Rea!AskDifference
  <2>1. PICK b, a \in Rea!BoundedSeq(Rea!Item, Length) :
            input' = [of |-> "difference", before |-> b, after |-> a]
    BY <1>2 DEF Rea!AskDifference
  <2>2. Length \in Nat
    BY PartsAssumption DEF Rea!ReadingsAssumption
  <2>3. b \in Seq(Rea!Item) /\ a \in Seq(Rea!Item)
    BY <2>1, <2>2 DEF Rea!BoundedSeq, Rea!SeqOf
  <2> QED
    BY <2>1, <2>3 DEF ReaInv
<1>3. CASE Rea!AskCapture
  <2>1. PICK g \in Rea!BoundedSeq(Rea!Segment, Captured), f \in 0..SequenceNumbers-1 :
            g # <<>> /\ input' = [of |-> "capture", segments |-> g, first |-> f]
    BY <1>3 DEF Rea!AskCapture
  <2>2. Captured \in Nat
    BY PartsAssumption DEF Rea!ReadingsAssumption
  <2>3. g \in Seq(Rea!Segment)
    BY <2>1, <2>2 DEF Rea!BoundedSeq, Rea!SeqOf
  <2> QED
    BY <2>1, <2>3 DEF ReaInv
<1>4. CASE UNCHANGED reaVars
  BY <1>4 DEF ReaInv, reaVars
<1> QED
  BY <1>1, <1>2, <1>3, <1>4 DEF Rea!Next

LEMMA ReadingsAlone == [PartsNext]_<<part, vars, scrVars, verVars, conVars, monVars, recVars, reaVars>>
                        => Rea!Next \/ UNCHANGED reaVars
BY DEF PartsNext, Server, DrivingScreens, Verifying, Contacting, Monitoring, Proxying,
   Interpreting

\* The readings' invariant.
THEOREM ReadingsInvariant == PartsSpec => []ReaInv
<1>1. PartsInit => ReaInv
  BY ReaInitHolds DEF PartsInit
<1> QED
  BY <1>1, ReadingsAlone, ReaNextHolds, PTL DEF PartsSpec

-----------------------------------------------------------------------------
(* Readings: the difference of two snapshots                                 *)

\* The key the elements are aligned by is one that identifies them.
LEMMA AlignedIsUsable ==
    ASSUME Rea!Keyed
    PROVE  Rea!aligned \in {"cabinetID", "id"} /\ Rea!Usable(Rea!aligned)
<1> DEFINE I == {i \in 1..Len(Rea!Identities) : Rea!Usable(Rea!Identities[i])}
<1>1. Len(Rea!Identities) = 2 /\ DOMAIN Rea!Identities = 1..2
      /\ Rea!Identities[1] = "cabinetID" /\ Rea!Identities[2] = "id"
  BY DEF Rea!Identities
<1>2. I # {} /\ I \in SUBSET Nat
  BY <1>1 DEF Rea!Keyed
<1>3. Rea!Min(I) \in I
  BY <1>2, SmallestIsOne
<1>4. Rea!aligned = Rea!Identities[Rea!Min(I)]
  BY <1>2 DEF Rea!aligned, Rea!SelectInSeq
<1> HIDE DEF I
<1> DEFINE m == Rea!Min(I)
<1>5. m \in 1..2 /\ Rea!Usable(Rea!Identities[m]) /\ Rea!aligned = Rea!Identities[m]
  BY <1>1, <1>3, <1>4 DEF I
<1> HIDE DEF m
<1> QED
  BY <1>1, <1>5

\* A list without two elements of one identity holds, at an identity, the
\* elements that have it.
LEMMA AtAnIdentity ==
    ASSUME NEW list \in Seq(Rea!Item), Rea!Distinct(list, Rea!aligned), NEW v
    PROVE  Rea!At(list, Rea!Named(list, v)) = {x \in Rea!ToSet(list) : x[Rea!aligned] = v}
<1> DEFINE key == Rea!aligned
           I == {i \in 1..Len(list) : list[i][key] = v}
<1>1. Rea!Named(list, v) = IF I # {} THEN Rea!Max(I) ELSE 0
  BY DEF Rea!Named, Rea!SelectLastInSeq
<1>2. DOMAIN list = 1..Len(list) /\ Len(list) \in Nat
  OBVIOUS
<1>3. \A i, j \in DOMAIN list : list[i][key] = list[j][key] => i = j
  BY DEF Rea!Distinct, Rea!IsInjective
<1>4. Rea!ToSet(list) = {list[i] : i \in DOMAIN list}
  BY DEF Rea!ToSet
<1> DEFINE m == Rea!Max(I)
<1>5. I # {} => m \in I
  BY <1>2, LargestIsOne
<1> HIDE DEF key, m
<1>6. CASE I = {}
  <2>1. Rea!At(list, Rea!Named(list, v)) = {}
    BY <1>1, <1>6 DEF Rea!At
  <2>2. \A i \in DOMAIN list : list[i][key] # v
    BY <1>2, <1>6
  <2> QED
    BY <1>4, <2>1, <2>2 DEF key
<1>7. CASE I # {}
  <2>1. m \in DOMAIN list /\ list[m][key] = v /\ m # 0
    BY <1>2, <1>5, <1>7
  <2>2. Rea!At(list, Rea!Named(list, v)) = {list[m]}
    BY <1>1, <1>7, <2>1 DEF Rea!At, m
  <2>3. \A i \in DOMAIN list : list[i][key] = v => i = m
    BY <1>3, <2>1
  <2> QED
    BY <1>4, <2>1, <2>2, <2>3 DEF key
<1> QED
  BY <1>6, <1>7

\* Two lists one after the other have the elements of both.
LEMMA TogetherAreBoth ==
    ASSUME NEW S, NEW b \in Seq(S), NEW a \in Seq(S)
    PROVE  Rea!ToSet(b \o a) = Rea!ToSet(b) \cup Rea!ToSet(a)
<1> DEFINE c == b \o a
<1>1. /\ c \in Seq(S) /\ Len(c) = Len(b) + Len(a)
      /\ \A i \in 1..Len(c) : c[i] = IF i <= Len(b) THEN b[i] ELSE a[i - Len(b)]
  BY ConcatProperties
<1>2. DOMAIN b = 1..Len(b) /\ DOMAIN a = 1..Len(a) /\ DOMAIN c = 1..Len(c)
      /\ Len(b) \in Nat /\ Len(a) \in Nat
  BY <1>1, LenProperties
<1> HIDE DEF c
<1>3. \A i \in DOMAIN c : \/ i \in DOMAIN b /\ c[i] = b[i]
                          \/ i - Len(b) \in DOMAIN a /\ c[i] = a[i - Len(b)]
  BY <1>1, <1>2
<1>4. \A i \in DOMAIN b : i \in DOMAIN c /\ c[i] = b[i]
  BY <1>1, <1>2
<1>5. \A i \in DOMAIN a : i + Len(b) \in DOMAIN c /\ c[i + Len(b)] = a[i]
  BY <1>1, <1>2
<1>6. Rea!ToSet(c) \subseteq Rea!ToSet(b) \cup Rea!ToSet(a)
  BY <1>3 DEF Rea!ToSet
<1>7. Rea!ToSet(b) \subseteq Rea!ToSet(c) /\ Rea!ToSet(a) \subseteq Rea!ToSet(c)
  BY <1>4, <1>5 DEF Rea!ToSet
<1> QED
  BY <1>6, <1>7 DEF c

\* What the table of identities compares is the elements of the lists.
LEMMA TablesAgree ==
    ASSUME ReaInv, input.of = "difference", Rea!Keyed
    PROVE  (\A v \in Rea!Values : Rea!At(input.before, Rea!Named(input.before, v))
                                   = Rea!At(input.after, Rea!Named(input.after, v)))
           <=> Rea!ToSet(input.before) = Rea!ToSet(input.after)
<1> DEFINE key == Rea!aligned
           B == Rea!ToSet(input.before)
           A == Rea!ToSet(input.after)
<1>1. input.before \in Seq(Rea!Item) /\ input.after \in Seq(Rea!Item)
  BY DEF ReaInv
<1>2. Rea!Distinct(input.before, key) /\ Rea!Distinct(input.after, key)
  BY AlignedIsUsable DEF Rea!Usable
<1>3. \A v : Rea!At(input.before, Rea!Named(input.before, v)) = {x \in B : x[key] = v}
  BY <1>1, <1>2, AtAnIdentity
<1>4. \A v : Rea!At(input.after, Rea!Named(input.after, v)) = {x \in A : x[key] = v}
  BY <1>1, <1>2, AtAnIdentity
<1>5. Rea!Values = {x[key] : x \in B \cup A}
  <2>1. Rea!ToSet(input.before \o input.after) = B \cup A
    BY <1>1, TogetherAreBoth
  <2> QED
    BY <2>1 DEF Rea!Values
<1> HIDE DEF key, A, B
<1>6. (\A v \in Rea!Values : {x \in B : x[key] = v} = {x \in A : x[key] = v}) <=> B = A
  <2>1. ASSUME \A v \in Rea!Values : {x \in B : x[key] = v} = {x \in A : x[key] = v}
        PROVE  B = A
    <3>1. ASSUME NEW x \in B \cup A PROVE x \in B <=> x \in A
      <4>1. x[key] \in Rea!Values
        BY <1>5
      <4>2. {y \in B : y[key] = x[key]} = {y \in A : y[key] = x[key]}
        BY <2>1, <4>1
      <4> QED
        BY <4>2
    <3> QED
      BY <3>1
  <2> QED
    BY <2>1
<1> QED
  BY <1>3, <1>4, <1>6 DEF A, B

\* Two lists of identified elements are reported to differ exactly when one has
\* an element the other lacks, whatever the key and in whatever order they stand;
\* a pair without identities, when the lists do (coex.py:445).
THEOREM DifferencesAreReal == PartsSpec => []DifferenceIsReal
<1>1. ReaInv => DifferenceIsReal
  <2> SUFFICES ASSUME ReaInv, input.of = "difference"
               PROVE  Rea!DifferenceIsReal
    BY DEF DifferenceIsReal, Rea!DifferenceIsReal
  <2>1. CASE Rea!Keyed
    BY <2>1, TablesAgree DEF Rea!DifferenceIsReal, Rea!Unchanged
  <2>2. CASE ~Rea!Keyed
    BY <2>2 DEF Rea!DifferenceIsReal, Rea!Unchanged
  <2> QED
    BY <2>1, <2>2
<1> QED
  BY <1>1, ReadingsInvariant, PTL

-----------------------------------------------------------------------------
(* Readings: the aggregate of a screen                                       *)

\* The sum that a fold over the values of a function takes, set by set.
PickOf(s) == CHOOSE x \in s : TRUE
Sums(S, f) ==
    CHOOSE g : g = [s \in SUBSET S |-> IF s = {} THEN 0 ELSE f[PickOf(s)] + g[s \ {PickOf(s)}]]

LEMMA SumIsInTheTable ==
    ASSUME NEW f
    PROVE  Rea!SumOf(f) = Sums(DOMAIN f, f)[DOMAIN f]
BY DEF Rea!SumOf, Rea!FoldFunction, Rea!FoldFunctionOnSet, Rea!MapThenFoldSet, Sums, PickOf

LEMMA SumIsDefined ==
    ASSUME NEW S, IsFiniteSet(S), NEW f \in [S -> Nat]
    PROVE  \A s \in SUBSET S :
              Sums(S, f)[s] = IF s = {} THEN 0 ELSE f[PickOf(s)] + Sums(S, f)[s \ {PickOf(s)}]
<1> DEFINE c == [s \in SUBSET S |-> PickOf(s)]
           h == [p \in S \X Nat |-> f[p[1]] + p[2]]
           Is(g) == g = [s \in SUBSET S |-> IF s = {} THEN 0 ELSE f[PickOf(s)] + g[s \ {PickOf(s)}]]
<1>1. \A s \in SUBSET S : s # {} => PickOf(s) \in s
  BY DEF PickOf
<1>2. Chooses(S, c)
  BY <1>1 DEF Chooses
<1>3. h \in [S \X Nat -> Nat]
  OBVIOUS
<1>4. PICK g \in [SUBSET S -> Nat] : \A s \in SUBSET S : g[s] = FoldStep(0, c, h, g, s)
  <2> DEFINE V == Nat
  <2>1. 0 \in V /\ h \in [S \X V -> V]
    BY <1>3
  <2> HIDE DEF c, h, V
  <2>2. \E g : IsFold(S, V, 0, c, h, g)
    BY <1>2, <2>1, FoldExists
  <2> QED
    BY <2>2 DEF V, IsFold
<1>5. ASSUME NEW s \in SUBSET S, s # {}
      PROVE  FoldStep(0, c, h, g, s) = f[PickOf(s)] + g[s \ {PickOf(s)}]
  <2>1. PickOf(s) \in S /\ s \ {PickOf(s)} \in SUBSET S
    BY <1>1, <1>5
  <2>2. g[s \ {PickOf(s)}] \in Nat
    BY <1>4, <2>1
  <2>3. c[s] = PickOf(s)
    OBVIOUS
  <2>4. h[PickOf(s), g[s \ {PickOf(s)}]] = f[PickOf(s)] + g[s \ {PickOf(s)}]
    BY <2>1, <2>2
  <2> HIDE DEF c, h
  <2> QED
    BY <1>5, <2>3, <2>4 DEF FoldStep
<1> HIDE DEF c, h
<1>6. \A s \in SUBSET S : g[s] = IF s = {} THEN 0 ELSE f[PickOf(s)] + g[s \ {PickOf(s)}]
  BY <1>4, <1>5 DEF FoldStep
<1>7. Is(g)
  BY <1>4, <1>6
<1>8. Is(Sums(S, f))
  BY <1>7 DEF Sums
<1> QED
  BY <1>8

\* Of two sums over one set, that of the smaller values is smaller, and they are
\* equal only when the values are.
LEMMA SumsCompare ==
    ASSUME NEW S, IsFiniteSet(S), NEW f \in [S -> Nat], NEW g \in [S -> Nat],
           \A x \in S : f[x] <= g[x]
    PROVE  /\ Sums(S, f)[S] \in Nat /\ Sums(S, g)[S] \in Nat
           /\ Sums(S, f)[S] <= Sums(S, g)[S]
           /\ Sums(S, f)[S] = Sums(S, g)[S] <=> \A x \in S : f[x] = g[x]
<1> DEFINE F == Sums(S, f)
           G == Sums(S, g)
           Good(s) == /\ F[s] \in Nat /\ G[s] \in Nat /\ F[s] <= G[s]
                      /\ F[s] = G[s] <=> \A x \in s : f[x] = g[x]
           Bad == {n \in Nat : \E s \in SUBSET S : Cardinality(s) = n /\ ~ Good(s)}
<1>1. \A s \in SUBSET S : IsFiniteSet(s) /\ Cardinality(s) \in Nat
  BY FS_Subset, FS_CardinalityType
<1>2. \A s \in SUBSET S : s # {} => PickOf(s) \in s
  BY DEF PickOf
<1>3. \A s \in SUBSET S : s # {} => Cardinality(s \ {PickOf(s)}) = Cardinality(s) - 1
  BY <1>1, <1>2, FS_RemoveElement
<1>4. /\ \A s \in SUBSET S : F[s] = IF s = {} THEN 0 ELSE f[PickOf(s)] + F[s \ {PickOf(s)}]
      /\ \A s \in SUBSET S : G[s] = IF s = {} THEN 0 ELSE g[PickOf(s)] + G[s \ {PickOf(s)}]
  BY SumIsDefined
<1> HIDE DEF F, G
<1>5. Bad = {}
  <2> SUFFICES ASSUME Bad # {} PROVE FALSE
    OBVIOUS
  <2>1. PICK n \in Bad : \A m \in Bad : n <= m
    BY LeastOf
  <2>2. PICK s \in SUBSET S : Cardinality(s) = n /\ ~ Good(s)
    OBVIOUS
  <2>3. CASE s = {}
    <3>1. F[s] = 0 /\ G[s] = 0
      BY <1>4, <2>3
    <3> QED
      BY <2>2, <2>3, <3>1
  <2>4. CASE s # {}
    <3> DEFINE x == PickOf(s)
               r == s \ {x}
    <3>1. x \in s /\ x \in S /\ r \in SUBSET S /\ Cardinality(r) = n - 1 /\ s = r \cup {x}
      BY <1>2, <1>3, <2>2, <2>4
    <3>2. n - 1 \notin Bad /\ n - 1 \in Nat
      BY <1>1, <2>1, <3>1
    <3>3. Good(r)
      BY <3>1, <3>2
    <3>4. F[s] = f[x] + F[r] /\ G[s] = g[x] + G[r]
      BY <1>4, <2>4
    <3> HIDE DEF x, r
    <3>5. f[x] \in Nat /\ g[x] \in Nat /\ f[x] <= g[x]
      BY <3>1
    <3>6. F[s] \in Nat /\ G[s] \in Nat /\ F[s] <= G[s]
      BY <3>3, <3>4, <3>5
    <3>7. F[s] = G[s] <=> f[x] = g[x] /\ F[r] = G[r]
      BY <3>3, <3>4, <3>5
    <3>8. (\A y \in s : f[y] = g[y]) <=> f[x] = g[x] /\ \A y \in r : f[y] = g[y]
      BY <3>1
    <3> QED
      BY <2>2, <3>3, <3>6, <3>7, <3>8
  <2> QED
    BY <2>3, <2>4
<1>6. Good(S)
  BY <1>1, <1>5
<1> QED
  BY <1>6 DEF F, G

\* The states of the devices a screen names, and of those the sums.
LEMMA ScreenIsTyped ==
    ASSUME ReaInv, input.of = "screen"
    PROVE  /\ Rea!addresses \in SUBSET Address
           /\ IsFiniteSet(Rea!Held) /\ Rea!Held \in SUBSET Rea!addresses
           /\ \A a \in Rea!addresses :
                 /\ Rea!State(a).online \in Nat /\ Rea!State(a).total \in Nat
                 /\ Rea!State(a).online <= Rea!State(a).total
                 /\ Rea!State(a).reachability \in Rea!Reachability
<1>1. Rea!addresses \in SUBSET Address
  BY DEF ReaInv, Rea!addresses, Rea!ToSet
<1>2. IsFiniteSet(Address) /\ Total \in Nat
  BY PartsAssumption DEF Rea!ReadingsAssumption, Rea!IsFiniteSet, IsFiniteSet
<1>3. Rea!Held \in SUBSET Rea!addresses
  BY DEF Rea!Held
<1>4. IsFiniteSet(Rea!Held)
  BY <1>1, <1>2, <1>3, FS_Subset
<1>5. ASSUME NEW a \in Rea!addresses PROVE Rea!State(a) \in Rea!DeviceState
  BY <1>1, <1>5 DEF ReaInv, Rea!State
<1>6. \A s \in Rea!DeviceState : /\ s.online \in Nat /\ s.total \in Nat /\ s.online <= s.total
                                 /\ s.reachability \in Rea!Reachability
  BY <1>2 DEF Rea!DeviceState
<1> QED
  BY <1>1, <1>3, <1>4, <1>5, <1>6

LEMMA CabinetsCompare ==
    ASSUME ReaInv, input.of = "screen"
    PROVE  (Rea!cabinets_online < Rea!cabinets_total)
           <=> ~ \A a \in Rea!Held : Rea!State(a).online = Rea!State(a).total
<1> DEFINE H == Rea!Held
           f == [a \in H |-> Rea!State(a).online]
           g == [a \in H |-> Rea!State(a).total]
<1>1. IsFiniteSet(H) /\ f \in [H -> Nat] /\ g \in [H -> Nat] /\ \A a \in H : f[a] <= g[a]
  BY ScreenIsTyped
<1>2. Rea!cabinets_online = Rea!SumOf(f) /\ Rea!cabinets_total = Rea!SumOf(g)
  BY DEF Rea!cabinets_online, Rea!cabinets_total
<1>3. DOMAIN f = H /\ DOMAIN g = H
  OBVIOUS
<1>4. Rea!SumOf(f) = Sums(H, f)[H] /\ Rea!SumOf(g) = Sums(H, g)[H]
  BY <1>3, SumIsInTheTable
<1>5. (\A a \in H : f[a] = g[a]) <=> \A a \in H : Rea!State(a).online = Rea!State(a).total
  OBVIOUS
<1> HIDE DEF H, f, g
<1>6. /\ Sums(H, f)[H] \in Nat /\ Sums(H, g)[H] \in Nat
      /\ Sums(H, f)[H] <= Sums(H, g)[H]
      /\ Sums(H, f)[H] = Sums(H, g)[H] <=> \A a \in H : f[a] = g[a]
  BY <1>1, SumsCompare
<1>7. Sums(H, f)[H] < Sums(H, g)[H] <=> ~ \A a \in H : f[a] = g[a]
  BY <1>6
<1> QED
  BY <1>2, <1>4, <1>5, <1>7 DEF H

LEMMA OnlineMeansAll ==
    ASSUME ReaInv, input.of = "screen", Rea!reachability = "online"
    PROVE  /\ Rea!addresses # {} /\ Rea!Held = Rea!addresses
           /\ \A a \in Rea!addresses : Rea!State(a).held /\ Rea!State(a).reachability = "online"
<1>1. Rea!Reachabilities = {"online"}
  BY DEF Rea!reachability
<1>2. Rea!addresses # {}
  BY <1>1 DEF Rea!Reachabilities
<1>3. \A a \in Rea!addresses :
         (IF a \in Rea!Held THEN Rea!State(a).reachability ELSE "unknown") = "online"
  BY <1>1 DEF Rea!Reachabilities
<1>4. \A a \in Rea!addresses : a \in Rea!Held /\ Rea!State(a).reachability = "online"
  BY <1>3
<1>5. \A a \in Rea!Held : a \in Rea!addresses /\ Rea!State(a).held
  BY DEF Rea!Held
<1> QED
  BY <1>2, <1>4, <1>5

LEMMA HealthyMeansAll ==
    ASSUME ReaInv, input.of = "screen", Rea!reachability = "online"
    PROVE  Rea!healthy <=> \A a \in Rea!addresses :
                Rea!State(a).online = Rea!State(a).total /\ ~Rea!State(a).unhealthy
<1>1. /\ Rea!Held = Rea!addresses
      /\ \A a \in Rea!Held : Rea!State(a).reachability = "online"
  BY OnlineMeansAll
<1>2. Rea!healthy <=> ~ Rea!problems
  BY DEF Rea!healthy
<1>3. Rea!problems <=> \/ \E a \in Rea!Held : Rea!State(a).unhealthy
                       \/ Rea!cabinets_online < Rea!cabinets_total
  <2> DEFINE few == Rea!cabinets_online < Rea!cabinets_total
  <2> HIDE DEF few
  <2>1. Rea!problems <=> \/ \E a \in Rea!addresses : a \notin Rea!Held
                         \/ \E a \in Rea!Held : Rea!State(a).reachability # "online" \/ Rea!State(a).unhealthy
                         \/ few
    BY DEF Rea!problems, few
  <2> QED
    BY <1>1, <2>1, Zenon DEF few
<1>4. Rea!cabinets_online < Rea!cabinets_total
        <=> ~ \A a \in Rea!Held : Rea!State(a).online = Rea!State(a).total
  BY CabinetsCompare
<1> QED
  BY <1>1, <1>2, <1>3, <1>4, Zenon

LEMMA UnreachableIsSeen ==
    ASSUME ReaInv, input.of = "screen", Rea!reachability = "unreachable"
    PROVE  \E a \in Rea!Held : Rea!State(a).reachability = "unreachable"
<1>1. /\ ~ (Rea!Reachabilities \subseteq {"unknown"})
      /\ "online" \notin Rea!Reachabilities /\ "in-use" \notin Rea!Reachabilities
  BY DEF Rea!reachability
<1>2. PICK r \in Rea!Reachabilities : r # "unknown"
  BY <1>1
<1>3. PICK a \in Rea!addresses : r = IF a \in Rea!Held THEN Rea!State(a).reachability ELSE "unknown"
  BY DEF Rea!Reachabilities
<1>4. a \in Rea!Held /\ Rea!State(a).reachability = r /\ r # "online" /\ r # "in-use"
  BY <1>1, <1>2, <1>3
<1>5. r \in Rea!Reachability
  BY <1>4, ScreenIsTyped
<1> QED
  BY <1>2, <1>4, <1>5 DEF Rea!Reachability

LEMMA ScreensPessimism == ReaInv => ScreenIsPessimistic
<1> SUFFICES ASSUME ReaInv, input.of = "screen" PROVE Rea!ScreenIsPessimistic
  BY DEF ScreenIsPessimistic, Rea!ScreenIsPessimistic
<1>1. Rea!reachability = "online" =>
              /\ Rea!addresses # {}
              /\ \A a \in Rea!addresses : Rea!State(a).held /\ Rea!State(a).reachability = "online"
  BY OnlineMeansAll
<1>2. Rea!healthy <=>
              /\ Rea!reachability = "online"
              /\ \A a \in Rea!addresses : Rea!State(a).online = Rea!State(a).total /\ ~Rea!State(a).unhealthy
  <2>1. CASE Rea!reachability = "online"
    BY <2>1, HealthyMeansAll
  <2>2. CASE Rea!reachability # "online"
    BY <2>2 DEF Rea!healthy
  <2> QED
    BY <2>1, <2>2
<1>3. Rea!reachability = "unreachable" => \E a \in Rea!Held : Rea!State(a).reachability = "unreachable"
  BY UnreachableIsSeen
<1> QED
  BY <1>1, <1>2, <1>3 DEF Rea!ScreenIsPessimistic

\* However many devices a screen names and whatever they report, the screen is
\* online only when all of them are, healthy only when nothing is wrong with any,
\* and unreachable only when one of them is (screens.py:114, 217).
THEOREM ScreensArePessimistic == PartsSpec => []ScreenIsPessimistic
BY ScreensPessimism, ReadingsInvariant, PTL

-----------------------------------------------------------------------------
(* Readings: a captured stream                                               *)

\* The greatest of a bounded set of numbers is in it and is its greatest.
LEMMA GreatestOf ==
    ASSUME NEW n \in Nat, NEW S \in SUBSET (0..n), S # {}
    PROVE  Rea!Max(S) \in S /\ \A y \in S : Rea!Max(S) >= y
<1> DEFINE T == {n - i : i \in S}
<1>1. \A i \in S : i \in Int /\ 0 <= i /\ i <= n
  OBVIOUS
<1>2. T \in SUBSET Nat /\ T # {}
  <2>1. \A i \in S : n - i \in Nat
    BY <1>1
  <2> QED
    BY <2>1
<1>3. PICK x \in T : \A y \in T : x <= y
  BY <1>2, LeastOf
<1>4. PICK m \in S : x = n - m
  OBVIOUS
<1>5. \A i \in S : n - m <= n - i
  BY <1>3, <1>4
<1>6. \A i \in S : m >= i
  BY <1>1, <1>5
<1> QED
  BY <1>6 DEF Rea!Max

\* A division with remainder, of a number that may be negative.
LEMMA DivisionOfAny ==
    ASSUME NEW n \in Int, NEW k \in Nat \ {0}
    PROVE  n \div k \in Int /\ n % k \in 0..k-1 /\ n = k * (n \div k) + (n % k)
OBVIOUS

\* The distance of two sequence numbers is that of the positions, wherever the
\* numbers turn.
LEMMA DistanceIs ==
    ASSUME NEW k \in Nat \ {0}, NEW f \in Nat, NEW a \in Nat, NEW b \in Nat,
           b <= a, a - b < k
    PROVE  (((f + a) % k) - ((f + b) % k)) % k = a - b
<1> DEFINE p == (f + a) \div k
           r == (f + a) % k
           q == (f + b) \div k
           s == (f + b) % k
           u == (r - s) \div k
           v == (r - s) % k
<1>1. p \in Int /\ r \in 0..k-1 /\ f + a = k * p + r
  BY Division
<1>2. q \in Int /\ s \in 0..k-1 /\ f + b = k * q + s
  BY Division
<1>3. r - s \in Int
  BY <1>1, <1>2
<1>4. u \in Int /\ v \in 0..k-1 /\ r - s = k * u + v
  BY <1>3, DivisionOfAny
<1> HIDE DEF p, q, r, s, u, v
<1> DEFINE w == p - q + u
<1>5. w \in Int /\ a - b \in 0..k-1 /\ 0 \in Int
  BY <1>1, <1>2, <1>4
<1>6. k * w = k * p - k * q + k * u
  BY <1>1, <1>2, <1>4
<1>7. k * p \in Int /\ k * q \in Int /\ k * u \in Int
  BY <1>1, <1>2, <1>4
<1>8. a - b = k * p - k * q + k * u + v
  BY <1>1, <1>2, <1>4, <1>7
<1>9. k * w + v = k * 0 + (a - b)
  BY <1>4, <1>5, <1>6, <1>7, <1>8
<1>10. v = a - b
  <2> HIDE DEF w
  <2> QED
    BY <1>4, <1>5, <1>9, OneRemainder
<1> QED
  BY <1>10 DEF v, r, s
\* What is appended at an offset: the payload of the first segment there.
Longest(o) == Rea!First(o).length
Start0 == Head(input.segments).from
FirstWasFirst ==
    /\ input.of = "capture"
    /\ \A s \in Rea!ToSet(input.segments) : Head(input.segments).from <= s.from

LEMMA ReadingsAssumed ==
    /\ Stream \in Nat /\ SequenceNumbers \in Nat \ {0} /\ Stream <= SequenceNumbers
BY PartsAssumption DEF Rea!ReadingsAssumption

\* A segment's offset is its distance from the first one, as that was first.
LEMMA SegmentsAre ==
    ASSUME ReaInv, FirstWasFirst
    PROVE  /\ input.segments \in Seq(Rea!Segment) /\ input.segments # <<>>
           /\ DOMAIN input.segments = 1..Len(input.segments) /\ Len(input.segments) \in Nat
           /\ Start0 \in Nat
           /\ \A s \in Rea!ToSet(input.segments) :
                 /\ s.from \in Nat /\ s.length \in Nat \ {0}
                 /\ Start0 <= s.from /\ s.from - Start0 \in 0..Stream
                 /\ Rea!offset(s) = s.from - Start0
<1>1. /\ input.segments \in Seq(Rea!Segment) /\ input.segments # <<>>
      /\ input.first \in Nat
  BY ReadingsAssumed DEF ReaInv, FirstWasFirst
<1>2. DOMAIN input.segments = 1..Len(input.segments) /\ Len(input.segments) \in Nat
  BY <1>1, LenProperties
<1>3. \A s \in Rea!Segment : /\ s.from \in Nat /\ s.length \in Nat \ {0}
                             /\ s.from + s.length <= Stream
  BY ReadingsAssumed DEF Rea!Segment
<1>4. Rea!ToSet(input.segments) \subseteq Rea!Segment
  <2>1. \A i \in DOMAIN input.segments : input.segments[i] \in Rea!Segment
    BY <1>1, <1>2, ElementOfSeq
  <2> QED
    BY <2>1 DEF Rea!ToSet
<1>5. Head(input.segments) \in Rea!Segment
  BY <1>1, HeadTailProperties
<1>6. Start0 \in Nat
  BY <1>3, <1>5 DEF Start0
<1>7. ASSUME NEW s \in Rea!ToSet(input.segments)
      PROVE  /\ s.from \in Nat /\ s.length \in Nat \ {0}
             /\ Start0 <= s.from /\ s.from - Start0 \in 0..Stream
             /\ Rea!offset(s) = s.from - Start0
  <2>1. /\ s.from \in Nat /\ s.length \in Nat \ {0} /\ s.from + s.length <= Stream
        /\ Start0 <= s.from
    BY <1>3, <1>4 DEF FirstWasFirst, Start0
  <2>2. s.from - Start0 \in 0..Stream /\ s.from - Start0 < SequenceNumbers
    BY <1>6, <2>1, ReadingsAssumed
  <2>3. Rea!offset(s) = (((input.first + s.from) % SequenceNumbers)
                           - ((input.first + Start0) % SequenceNumbers)) % SequenceNumbers
    BY DEF Rea!offset, Rea!seq, Rea!base, Start0
  <2> DEFINE a == s.from
             b == Start0
             k == SequenceNumbers
             f == input.first
  <2>4. k \in Nat \ {0} /\ f \in Nat /\ a \in Nat /\ b \in Nat /\ b <= a /\ a - b < k
    BY <1>1, <1>6, <2>1, <2>2, ReadingsAssumed
  <2>5. (((f + a) % k) - ((f + b) % k)) % k = a - b
    <3> HIDE DEF a, b, k, f
    <3> QED
      BY <2>4, DistanceIs
  <2> QED
    BY <2>1, <2>2, <2>3, <2>5
<1> QED
  BY <1>1, <1>2, <1>6, <1>7

\* The offsets, and the segment that was kept at each.
LEMMA OffsetsAre ==
    ASSUME ReaInv, FirstWasFirst
    PROVE  /\ Rea!offsets \in SUBSET (0..Stream)
           /\ \A o \in Rea!offsets :
                 /\ Longest(o) \in Nat \ {0}
                 /\ Rea!payload(Rea!First(o)) = [i \in 1..Longest(o) |-> Start0 + o + i]
<1>1. Rea!offsets \in SUBSET (0..Stream)
  BY SegmentsAre DEF Rea!offsets
<1>2. ASSUME NEW o \in Rea!offsets
      PROVE  /\ Longest(o) \in Nat \ {0}
             /\ Rea!payload(Rea!First(o)) = [i \in 1..Longest(o) |-> Start0 + o + i]
  <2> DEFINE I == {i \in 1..Len(input.segments) : Rea!offset(input.segments[i]) = o}
  <2>1. PICK t \in Rea!ToSet(input.segments) : Rea!offset(t) = o
    BY DEF Rea!offsets
  <2>2. PICK j \in 1..Len(input.segments) : input.segments[j] = t
    BY SegmentsAre DEF Rea!ToSet
  <2>3. I # {} /\ I \in SUBSET Nat
    BY <2>1, <2>2
  <2>4. Rea!Min(I) \in I
    BY <2>3, SmallestIsOne
  <2>5. Rea!First(o) = input.segments[Rea!Min(I)]
    BY <2>3 DEF Rea!First, Rea!SelectInSeq
  <2> DEFINE s == Rea!First(o)
  <2>6. s \in Rea!ToSet(input.segments) /\ Rea!offset(s) = o
    BY <2>4, <2>5, SegmentsAre DEF Rea!ToSet
  <2> HIDE DEF s, I
  <2>7. s.from \in Nat /\ s.length \in Nat \ {0} /\ Start0 \in Nat /\ o = s.from - Start0
    BY <2>6, SegmentsAre
  <2>8. \A i \in Nat : s.from + i = Start0 + o + i
    BY <2>7
  <2> QED
    BY <2>7, <2>8 DEF s, Longest, Rea!payload
<1> QED
  BY <1>1, <1>2
\* What has been put together: the end of it, and its bytes.
Together == [position : Nat, bytes : Seq(Nat)]
Nothing == [position |-> 0, bytes |-> <<>>]

\* The bytes of a segment that are not there yet.
LEMMA TrimmedIs ==
    ASSUME ReaInv, FirstWasFirst, NEW o \in Rea!offsets, NEW q \in Nat, q < o + Longest(o)
    PROVE  LET x == Rea!Trimmed(Rea!payload(Rea!First(o)), q - o)
               n == IF q > o THEN q - o ELSE 0
           IN  /\ x \in Seq(Nat) /\ Len(x) = Longest(o) - n
               /\ \A i \in 1..Len(x) : x[i] = Start0 + o + n + i
<1> DEFINE b == Rea!payload(Rea!First(o))
           m == Longest(o)
           n == IF q > o THEN q - o ELSE 0
           x == Rea!Trimmed(b, q - o)
<1>1. o \in Nat /\ m \in Nat \ {0} /\ Start0 \in Nat /\ b = [i \in 1..m |-> Start0 + o + i]
  <2>1. o \in 0..Stream
    BY OffsetsAre
  <2> QED
    BY <2>1, OffsetsAre, SegmentsAre, ReadingsAssumed
<1> HIDE DEF b, m
<1>2. \A i \in 1..m : Start0 + o + i \in Nat
  BY <1>1
<1>3. b \in Seq(Nat) /\ Len(b) = m
  BY <1>1, <1>2
<1>4. CASE q > o
  <2>1. q - o \in 1..m-1 /\ q - o > 0 /\ n = q - o
    BY <1>1, <1>4 DEF m
  <2>2. x = SubSeq(b, q - o + 1, m)
    BY <1>3, <2>1 DEF Rea!Trimmed
  <2>3. q - o + 1 \in 1..m /\ m \in 1..m
    BY <1>1, <2>1
  <2>4. /\ x \in Seq(Nat) /\ Len(x) = m - (q - o)
        /\ \A i \in 1..Len(x) : x[i] = b[(q - o + 1) + i - 1]
    <3> DEFINE k == q - o
    <3>1. k \in Nat /\ k + 1 \in 1..m /\ k < m
      BY <2>1, <2>3, <1>1
    <3> HIDE DEF k
    <3>2. SubSeq(b, k + 1, m) \in Seq(Nat) /\ Len(SubSeq(b, k + 1, m)) = m - k
          /\ \A i \in 1..m-k : SubSeq(b, k + 1, m)[i] = b[(k + 1) + i - 1]
      BY <1>1, <1>3, <3>1
    <3> QED
      BY <2>2, <3>2 DEF k
  <2>5. \A i \in 1..(m - (q - o)) : b[(q - o + 1) + i - 1] = Start0 + o + (q - o) + i
    BY <1>1, <2>1
  <2> HIDE DEF x
  <2> QED
    BY <2>1, <2>4, <2>5 DEF b, m, x
<1>5. CASE ~ (q > o)
  <2>1. ~ (q - o > 0) /\ n = 0
    BY <1>1, <1>5
  <2>2. x = b
    BY <2>1 DEF Rea!Trimmed
  <2>3. Len(b) = m - 0 /\ \A i \in 1..Len(b) : b[i] = Start0 + o + 0 + i
    BY <1>1, <1>3
  <2> HIDE DEF x, n
  <2>4. x \in Seq(Nat) /\ Len(x) = m - n /\ \A i \in 1..Len(x) : x[i] = Start0 + o + n + i
    BY <1>3, <2>1, <2>2, <2>3
  <2> QED
    BY <2>4 DEF b, m, x, n
<1> QED
  BY <1>4, <1>5

LEMMA AppendedTyped ==
    ASSUME ReaInv, FirstWasFirst, NEW o \in Rea!offsets, NEW out \in Together
    PROVE  /\ Rea!Appended(o, out) \in Together
           /\ Rea!Appended(o, out) =
                IF o + Longest(o) <= out.position THEN out
                ELSE [position |-> o + Longest(o),
                      bytes |-> out.bytes \o
                                Rea!Trimmed(Rea!payload(Rea!First(o)), out.position - o)]
<1>1. o \in Nat /\ Longest(o) \in Nat /\ out.position \in Nat /\ out.bytes \in Seq(Nat)
  <2>1. o \in 0..Stream
    BY OffsetsAre
  <2> QED
    BY <2>1, OffsetsAre, ReadingsAssumed DEF Together
<1>2. Len(Rea!payload(Rea!First(o))) = Longest(o)
  BY <1>1, OffsetsAre
<1> DEFINE x == Rea!Trimmed(Rea!payload(Rea!First(o)), out.position - o)
<1>3. o + Longest(o) > out.position => x \in Seq(Nat)
  BY <1>1, TrimmedIs
<1> HIDE DEF x
<1>4. Rea!Appended(o, out) = IF o + Longest(o) <= out.position THEN out
                             ELSE [position |-> o + Longest(o), bytes |-> out.bytes \o x]
  BY <1>2 DEF Rea!Appended, x
<1>5. o + Longest(o) > out.position =>
        [position |-> o + Longest(o), bytes |-> out.bytes \o x] \in Together
  <2>1. x \in Seq(Nat) => out.bytes \o x \in Seq(Nat)
    BY <1>1, ConcatProperties
  <2> QED
    BY <1>1, <1>3, <2>1 DEF Together
<1> QED
  BY <1>1, <1>4, <1>5 DEF x

\* What the segments at the offsets of s come to, put together from the least on:
\* it ends where the segment ends that reaches furthest, its bytes go up, and they
\* are those of the segments.
Reached(s, out) ==
    /\ IF s = {} THEN out.position = 0 ELSE \E o \in s : out.position = o + Longest(o)
    /\ \A o \in s : o + Longest(o) <= out.position
Rising(bytes) == \A i \in 2..Len(bytes) : bytes[i-1] < bytes[i]
Holds(s, out) ==
    \A v \in Nat : (\E i \in 1..Len(out.bytes) : out.bytes[i] = v)
                     <=> \E o \in s : Start0 + o < v /\ v <= Start0 + o + Longest(o)
Rightly(s, out) == out \in Together /\ Reached(s, out) /\ Rising(out.bytes) /\ Holds(s, out)
\* One more segment, at an offset behind all the others.
LEMMA NextSegment ==
    ASSUME ReaInv, FirstWasFirst, NEW s \in SUBSET Rea!offsets, NEW o \in Rea!offsets,
           \A p \in s : p < o, NEW out, Rightly(s, out)
    PROVE  Rightly(s \cup {o}, Rea!Appended(o, out))
<1> DEFINE m == Longest(o)
           q == out.position
           y == out.bytes
           n == IF q > o THEN q - o ELSE 0
           x == Rea!Trimmed(Rea!payload(Rea!First(o)), q - o)
           new == Rea!Appended(o, out)
           t == s \cup {o}
<1>1. /\ o \in Nat /\ m \in Nat \ {0} /\ Start0 \in Nat /\ q \in Nat
      /\ y \in Seq(Nat) /\ Len(y) \in Nat
      /\ \A p \in s : p \in Nat /\ Longest(p) \in Nat \ {0}
  <2>1. \A p \in Rea!offsets : p \in 0..Stream /\ Longest(p) \in Nat \ {0}
    BY OffsetsAre
  <2>2. out \in Together
    BY DEF Rightly
  <2>3. y \in Seq(Nat) /\ Len(y) \in Nat /\ q \in Nat
    BY <2>2, LenProperties DEF Together
  <2> QED
    BY <2>1, <2>3, SegmentsAre, ReadingsAssumed
<1>2. /\ new \in Together
      /\ new = IF o + m <= q THEN out ELSE [position |-> o + m, bytes |-> y \o x]
  BY AppendedTyped DEF Rightly
<1>3. Reached(s, out) /\ Rising(y) /\ Holds(s, out)
  BY DEF Rightly
<1>4. q > o => \E p \in s : p < o /\ q = p + Longest(p)
  BY <1>1, <1>3 DEF Reached
<1>5. \A v \in Nat : (\E i \in 1..Len(y) : y[i] = v)
                       <=> \E p \in s : Start0 + p < v /\ v <= Start0 + p + Longest(p)
  BY <1>3 DEF Holds
<1>6. ASSUME NEW v \in Nat, Start0 + o < v, v <= Start0 + q
      PROVE  \E p \in s : Start0 + p < v /\ v <= Start0 + p + Longest(p)
  <2>1. q > o
    BY <1>1, <1>6
  <2>2. PICK p \in s : p < o /\ q = p + Longest(p)
    BY <1>4, <2>1
  <2> QED
    BY <1>1, <1>6, <2>2
<1>7. CASE o + m <= q
  <2>1. new = out
    BY <1>2, <1>7
  <2>2. Reached(t, out)
    <3>1. s # {}
      BY <1>1, <1>3, <1>7 DEF Reached
    <3> QED
      BY <1>3, <1>7, <3>1 DEF Reached
  <2>3. Holds(t, out)
    <3>1. ASSUME NEW v \in Nat, Start0 + o < v, v <= Start0 + o + m
          PROVE  \E p \in s : Start0 + p < v /\ v <= Start0 + p + Longest(p)
      <4>1. v <= Start0 + q
        BY <1>1, <1>7, <3>1
      <4> QED
        BY <1>6, <3>1, <4>1
    <3> QED
      BY <1>5, <3>1 DEF Holds
  <2> QED
    BY <1>2, <1>3, <2>1, <2>2, <2>3 DEF Rightly
<1>8. CASE ~ (o + m <= q)
  <2>1. new.position = o + m /\ new.bytes = y \o x
    <3> HIDE DEF new, x, y, q, m
    <3> QED
      BY <1>2, <1>8
  <2>2. x \in Seq(Nat) /\ Len(x) = m - n /\ \A i \in 1..Len(x) : x[i] = Start0 + o + n + i
    <3>1. q \in Nat /\ q < o + Longest(o)
      <4> HIDE DEF q, m
      <4>1. q < o + m
        BY <1>1, <1>8
      <4> QED
        BY <1>1, <4>1 DEF m
    <3> QED
      <4> HIDE DEF q
      <4> QED
        BY <3>1, TrimmedIs
  <2> DEFINE z == y \o x
  <2> HIDE DEF x, m, q, y
  <2>3. n \in 0..m-1 /\ (q > o => o + n = q) /\ (~ (q > o) => n = 0)
    BY <1>1, <1>8
  <2> HIDE DEF n
  <2>4. /\ Len(z) = Len(y) + Len(x)
        /\ \A i \in 1..Len(z) : z[i] = IF i <= Len(y) THEN y[i] ELSE x[i - Len(y)]
    <3>1. y \in Seq(Nat) /\ x \in Seq(Nat)
      BY <1>1, <2>2
    <3> QED
      BY <3>1, ConcatProperties
  <2> HIDE DEF z
  <2>5. /\ Len(x) \in Nat /\ Len(z) \in Nat
        /\ \A i \in 1..Len(y) : i \in 1..Len(z) /\ z[i] = y[i]
        /\ \A i \in 1..Len(x) : i + Len(y) \in 1..Len(z) /\ z[i + Len(y)] = Start0 + o + n + i
        /\ \A i \in 1..Len(z) : i \in 1..Len(y) \/ i - Len(y) \in 1..Len(x)
    <3>1. Len(x) \in Nat /\ Len(z) \in Nat
      BY <1>1, <2>2, <2>3, <2>4
    <3>2. \A i \in 1..Len(y) : i \in 1..Len(z) /\ z[i] = y[i]
      BY <1>1, <2>4, <3>1
    <3>3. ASSUME NEW i \in 1..Len(x)
          PROVE  i + Len(y) \in 1..Len(z) /\ z[i + Len(y)] = Start0 + o + n + i
      <4>1. i + Len(y) \in 1..Len(z) /\ ~ (i + Len(y) <= Len(y)) /\ (i + Len(y)) - Len(y) = i
        BY <1>1, <2>4, <3>1, <3>3
      <4>2. z[i + Len(y)] = x[i]
        BY <2>4, <4>1
      <4> QED
        BY <2>2, <4>1, <4>2
    <3>4. \A i \in 1..Len(z) : i \in 1..Len(y) \/ i - Len(y) \in 1..Len(x)
      BY <1>1, <2>4, <3>1
    <3> QED
      BY <3>1, <3>2, <3>3, <3>4
  <2>6. Reached(t, new)
    <3>1. \A p \in s : p + Longest(p) <= o + m
      BY <1>1, <1>3, <1>8 DEF Reached, q, m
    <3>2. o \in t /\ o + Longest(o) = o + m
      BY DEF m
    <3> QED
      BY <1>1, <2>1, <3>1, <3>2 DEF Reached, m
  <2>7. \A i \in 1..Len(y) : y[i] \in Nat /\ y[i] <= Start0 + o + n
    <3> SUFFICES ASSUME NEW i \in 1..Len(y) PROVE y[i] \in Nat /\ y[i] <= Start0 + o + n
      OBVIOUS
    <3>1. y[i] \in Nat
      BY <1>1, ElementOfSeq
    <3>2. PICK p \in s : y[i] <= Start0 + p + Longest(p)
      BY <1>5, <3>1
    <3>3. p + Longest(p) <= q
      BY <1>3 DEF Reached, q
    <3>4. q <= o + n
      BY <1>1, <2>3
    <3> QED
      BY <1>1, <2>3, <3>1, <3>2, <3>3, <3>4
  <2>8. Rising(z)
    <3> SUFFICES ASSUME NEW i \in 2..Len(z) PROVE z[i-1] < z[i]
      BY DEF Rising
    <3>1. i \in 1..Len(z) /\ i - 1 \in 1..Len(z) /\ i \in Nat
      BY <2>5
    <3>2. CASE i <= Len(y)
      <4>1. i \in 2..Len(y) /\ i \in 1..Len(y) /\ i - 1 \in 1..Len(y)
        BY <1>1, <3>1, <3>2
      <4>2. z[i] = y[i] /\ z[i-1] = y[i-1]
        BY <2>5, <4>1
      <4> QED
        BY <1>3, <4>1, <4>2 DEF Rising, y
    <3>3. CASE i = Len(y) + 1
      <4>1. 1 \in 1..Len(x) /\ i = 1 + Len(y) /\ i - 1 \in 1..Len(y)
        BY <1>1, <2>4, <2>5, <3>1, <3>3
      <4>2. z[i] = Start0 + o + n + 1 /\ z[i-1] = y[i-1]
        BY <2>5, <4>1
      <4> QED
        BY <1>1, <2>3, <2>7, <4>1, <4>2
    <3>4. CASE i > Len(y) + 1
      <4> DEFINE j == i - Len(y)
      <4>1. j \in 1..Len(x) /\ j - 1 \in 1..Len(x) /\ i = j + Len(y) /\ i - 1 = (j - 1) + Len(y)
        BY <1>1, <2>4, <2>5, <3>1, <3>4
      <4> HIDE DEF j
      <4>2. z[i] = Start0 + o + n + j /\ z[i-1] = Start0 + o + n + (j - 1)
        BY <2>5, <4>1
      <4> QED
        BY <1>1, <2>3, <4>1, <4>2
    <3> QED
      BY <1>1, <3>1, <3>2, <3>3, <3>4
  <2>9. ASSUME NEW v \in Nat
        PROVE  (\E i \in 1..Len(z) : z[i] = v)
                 <=> \E p \in t : Start0 + p < v /\ v <= Start0 + p + Longest(p)
    <3>1. ASSUME NEW i \in 1..Len(z), z[i] = v
          PROVE  \E p \in t : Start0 + p < v /\ v <= Start0 + p + Longest(p)
      <4>1. CASE i \in 1..Len(y)
        BY <1>5, <2>5, <3>1, <4>1
      <4>2. CASE i - Len(y) \in 1..Len(x)
        <5> DEFINE j == i - Len(y)
        <5>1. i = j + Len(y) /\ j \in 1..Len(x) /\ j <= m - n
          BY <1>1, <2>2, <2>5, <3>1, <4>2
        <5> HIDE DEF j
        <5>2. v = Start0 + o + n + j
          BY <2>5, <3>1, <5>1
        <5>3. Start0 + o < v /\ v <= Start0 + o + m
          BY <1>1, <2>3, <5>1, <5>2
        <5> QED
          BY <5>3 DEF m
      <4> QED
        BY <2>5, <3>1, <4>1, <4>2
    <3>2. ASSUME NEW p \in t, Start0 + p < v, v <= Start0 + p + Longest(p)
          PROVE  \E i \in 1..Len(z) : z[i] = v
      <4>1. CASE p \in s \/ v <= Start0 + o + n
        <5>1. \E r \in s : Start0 + r < v /\ v <= Start0 + r + Longest(r)
          <6>1. CASE p \in s
            BY <3>2, <6>1
          <6>2. CASE p \notin s
            <7>1. p = o /\ v <= Start0 + o + n
              BY <4>1, <6>2
            <7>2. v <= Start0 + q
              BY <1>1, <2>3, <3>2, <7>1
            <7> QED
              BY <1>6, <3>2, <7>1, <7>2 DEF q
          <6> QED
            BY <6>1, <6>2
        <5>2. PICK i \in 1..Len(y) : y[i] = v
          BY <1>5, <5>1
        <5> QED
          BY <2>5, <5>2
      <4>2. CASE p \notin s /\ ~ (v <= Start0 + o + n)
        <5>1. p = o /\ v <= Start0 + o + m
          BY <3>2, <4>2 DEF m
        <5> DEFINE j == v - (Start0 + o + n)
        <5>2. j \in 1..Len(x) /\ v = Start0 + o + n + j
          BY <1>1, <2>2, <2>3, <4>2, <5>1
        <5> HIDE DEF j
        <5> QED
          BY <2>5, <5>2
      <4> QED
        BY <4>1, <4>2
    <3> QED
      BY <3>1, <3>2
  <2>10. Rising(new.bytes) /\ Holds(t, new)
    BY <2>1, <2>8, <2>9 DEF Holds, z
  <2> QED
    BY <1>2, <2>6, <2>10 DEF Rightly
<1> QED
  BY <1>7, <1>8
\* What the segments at each set of offsets come to.
Gathered ==
    CHOOSE g : g = [s \in SUBSET Rea!offsets |->
                      IF s = {} THEN Nothing
                      ELSE Rea!Appended(Rea!Max(s), g[s \ {Rea!Max(s)}])]

LEMMA OrderedIsGathered == Rea!ordered = Gathered[Rea!offsets].bytes
BY DEF Rea!ordered, Rea!MapThenFoldSet, Gathered, Nothing

LEMMA OffsetsAreFinite ==
    ASSUME ReaInv, FirstWasFirst
    PROVE  IsFiniteSet(Rea!offsets)
<1>1. IsFiniteSet(0..Stream)
  BY ReadingsAssumed, FS_Interval
<1>2. Rea!offsets \subseteq 0..Stream
  BY OffsetsAre
<1> QED
  BY <1>1, <1>2, FS_Subset

LEMMA GatheredIsDefined ==
    ASSUME ReaInv, FirstWasFirst
    PROVE  \A s \in SUBSET Rea!offsets :
              Gathered[s] = IF s = {} THEN Nothing
                            ELSE Rea!Appended(Rea!Max(s), Gathered[s \ {Rea!Max(s)}])
<1> DEFINE D == Rea!offsets
           c == [s \in SUBSET D |-> Rea!Max(s)]
           h == [x \in D \X Together |-> Rea!Appended(x[1], x[2])]
           Is(g) == g = [s \in SUBSET D |-> IF s = {} THEN Nothing
                                            ELSE Rea!Appended(Rea!Max(s), g[s \ {Rea!Max(s)}])]
<1>1. D \in SUBSET (0..Stream) /\ Stream \in Nat
  BY OffsetsAre, ReadingsAssumed
<1>2. \A s \in SUBSET D : s # {} => Rea!Max(s) \in s
  BY <1>1, GreatestOf
<1>3. Chooses(D, c) /\ IsFiniteSet(D)
  <2>1. IsFiniteSet(D)
    BY OffsetsAreFinite
  <2>2. \A s \in SUBSET D : c[s] = Rea!Max(s)
    OBVIOUS
  <2> QED
    BY <1>2, <2>1, <2>2 DEF Chooses
<1>4. h \in [D \X Together -> Together]
  BY AppendedTyped
<1>5. Nothing \in Together
  BY DEF Nothing, Together
<1>6. \E g : IsFold(D, Together, Nothing, c, h, g)
  <2> HIDE DEF D, c, h
  <2> QED
    BY <1>3, <1>4, <1>5, FoldExists
<1>7. PICK g : IsFold(D, Together, Nothing, c, h, g)
  BY <1>6
<1>8. ASSUME NEW s \in SUBSET D, s # {}
      PROVE  FoldStep(Nothing, c, h, g, s) = Rea!Appended(Rea!Max(s), g[s \ {Rea!Max(s)}])
  <2> DEFINE x == Rea!Max(s)
             r == s \ {x}
  <2>1. x \in D /\ r \in SUBSET D /\ c[s] = x
    BY <1>2, <1>8
  <2>2. g[r] \in Together
    BY <1>7, <2>1 DEF IsFold
  <2>3. h[x, g[r]] = Rea!Appended(x, g[r])
    BY <2>1, <2>2
  <2> HIDE DEF x, c, h
  <2> QED
    BY <1>8, <2>1, <2>3 DEF FoldStep, x
<1> HIDE DEF c, h
<1>9. Is(g)
  <2>1. g \in [SUBSET D -> Together] /\ \A s \in SUBSET D : g[s] = FoldStep(Nothing, c, h, g, s)
    BY <1>7 DEF IsFold
  <2>2. \A s \in SUBSET D :
           g[s] = IF s = {} THEN Nothing ELSE Rea!Appended(Rea!Max(s), g[s \ {Rea!Max(s)}])
    BY <1>8, <2>1 DEF FoldStep
  <2> QED
    BY <2>1, <2>2
<1>10. Is(Gathered)
  BY <1>9 DEF Gathered
<1> QED
  BY <1>10

LEMMA GatheredRightly ==
    ASSUME ReaInv, FirstWasFirst
    PROVE  Rightly(Rea!offsets, Gathered[Rea!offsets])
<1> DEFINE D == Rea!offsets
           Bad == {n \in Nat : \E s \in SUBSET D :
                                  Cardinality(s) = n /\ ~ Rightly(s, Gathered[s])}
<1>1. D \in SUBSET (0..Stream) /\ Stream \in Nat
  BY OffsetsAre, ReadingsAssumed
<1>2. IsFiniteSet(D)
  BY OffsetsAreFinite
<1>3. \A s \in SUBSET D : IsFiniteSet(s) /\ Cardinality(s) \in Nat
  BY <1>2, FS_Subset, FS_CardinalityType
<1>4. \A s \in SUBSET D : s # {} => Rea!Max(s) \in s /\ \A p \in s : Rea!Max(s) >= p
  BY <1>1, GreatestOf
<1>5. Rightly({}, Nothing)
  <2>1. Nothing \in Together /\ Nothing.position = 0 /\ Nothing.bytes = <<>> /\ Len(<<>>) = 0
    BY DEF Nothing, Together
  <2> QED
    BY <2>1 DEF Rightly, Reached, Rising, Holds
<1>6. Bad = {}
  <2> SUFFICES ASSUME Bad # {} PROVE FALSE
    OBVIOUS
  <2>1. PICK n \in Bad : \A m \in Bad : n <= m
    BY LeastOf
  <2>2. PICK s \in SUBSET D : Cardinality(s) = n /\ ~ Rightly(s, Gathered[s])
    OBVIOUS
  <2>3. CASE s = {}
    BY <1>5, <2>2, <2>3, GatheredIsDefined
  <2>4. CASE s # {}
    <3> DEFINE o == Rea!Max(s)
               r == s \ {o}
    <3>1. o \in s /\ o \in D /\ r \in SUBSET D /\ s = r \cup {o}
      BY <1>4, <2>4
    <3>2. Cardinality(r) = n - 1
      BY <1>3, <2>2, <3>1, FS_RemoveElement
    <3>3. n - 1 \notin Bad /\ n - 1 \in Nat
      BY <1>3, <2>1, <3>1, <3>2
    <3>4. Rightly(r, Gathered[r])
      BY <3>1, <3>2, <3>3
    <3>5. \A p \in r : p < o
      <4>1. \A p \in s : p \in 0..Stream /\ o >= p
        BY <1>1, <1>4, <2>4
      <4> HIDE DEF o
      <4> QED
        BY <1>1, <3>1, <4>1
    <3>6. Gathered[s] = Rea!Appended(o, Gathered[r])
      BY <2>4, GatheredIsDefined
    <3> HIDE DEF o, r
    <3>7. Rightly(r \cup {o}, Rea!Appended(o, Gathered[r]))
      BY <3>1, <3>4, <3>5, NextSegment
    <3> QED
      BY <2>2, <3>1, <3>6, <3>7
  <2> QED
    BY <2>3, <2>4
<1> QED
  BY <1>3, <1>6

\* However many segments of a stream were captured, none of which begins before
\* the one captured first, retransmitted, overlapping or with gaps between them,
\* and wherever the 2^32 sequence numbers turn: the bytes put together go up, none is there twice, and they are
\* those of the first copy of each segment (capture.py:262, 268).
THEOREM ReassemblyHolds == PartsSpec => []ReassemblyIsExact
<1>1. ASSUME ReaInv, FirstWasFirst
      PROVE  /\ \A i \in 2..Len(Rea!ordered) : Rea!ordered[i-1] < Rea!ordered[i]
             /\ Rea!ToSet(Rea!ordered)
                  = UNION {Rea!ToSet(Rea!payload(Rea!First(o))) : o \in Rea!offsets}
  <2> DEFINE out == Gathered[Rea!offsets]
             z == Rea!ordered
             U == UNION {Rea!ToSet(Rea!payload(Rea!First(o))) : o \in Rea!offsets}
  <2>1. out \in Together /\ Rising(out.bytes) /\ Holds(Rea!offsets, out) /\ z = out.bytes
    BY <1>1, GatheredRightly, OrderedIsGathered DEF Rightly
  <2>2. z \in Seq(Nat) /\ DOMAIN z = 1..Len(z)
    <3> HIDE DEF z, out
    <3> QED
      BY <2>1, LenProperties DEF Together
  <2>3. \A v : v \in U <=> \E o \in Rea!offsets : \E i \in 1..Longest(o) : v = Start0 + o + i
    <3>1. ASSUME NEW o \in Rea!offsets
          PROVE  Rea!ToSet(Rea!payload(Rea!First(o))) = {Start0 + o + i : i \in 1..Longest(o)}
      <4>1. Rea!payload(Rea!First(o)) = [i \in 1..Longest(o) |-> Start0 + o + i]
        BY <1>1, OffsetsAre
      <4> QED
        BY <4>1 DEF Rea!ToSet
    <3> QED
      BY <3>1
  <2>4. ASSUME NEW o \in Rea!offsets
        PROVE  /\ Start0 + o \in Nat /\ Longest(o) \in Nat
               /\ \A v \in Nat : (\E i \in 1..Longest(o) : v = Start0 + o + i)
                                   <=> Start0 + o < v /\ v <= Start0 + o + Longest(o)
    <3>1. o \in 0..Stream /\ Longest(o) \in Nat /\ Start0 \in Nat
      BY <1>1, OffsetsAre, SegmentsAre
    <3>2. Start0 + o \in Nat
      BY <3>1, ReadingsAssumed
    <3> DEFINE a == Start0 + o
               m == Longest(o)
    <3>3. ASSUME NEW v \in Nat, a < v, v <= a + m PROVE \E i \in 1..m : v = a + i
      <4>1. v - a \in 1..m /\ v = a + (v - a)
        BY <3>1, <3>2, <3>3
      <4> QED
        BY <4>1
    <3>4. ASSUME NEW v \in Nat, NEW i \in 1..m, v = a + i PROVE a < v /\ v <= a + m
      BY <3>1, <3>2, <3>4
    <3> QED
      BY <3>1, <3>2, <3>3, <3>4
  <2>5. ASSUME NEW v PROVE v \in Rea!ToSet(z) <=> v \in U
    <3>1. v \in Rea!ToSet(z) <=> \E i \in 1..Len(z) : z[i] = v
      BY <2>2 DEF Rea!ToSet
    <3>2. v \in Rea!ToSet(z) => v \in Nat
      BY <2>2, <3>1, ElementOfSeq
    <3>3. v \in U => v \in Nat
      BY <2>3, <2>4
    <3>4. v \in Nat => (v \in Rea!ToSet(z) <=> v \in U)
      <4> HIDE DEF U, z, out
      <4>1. v \in Nat => ((\E i \in 1..Len(z) : z[i] = v)
              <=> \E o \in Rea!offsets : Start0 + o < v /\ v <= Start0 + o + Longest(o))
        BY <2>1 DEF Holds
      <4> QED
        BY <2>3, <2>4, <3>1, <4>1
    <3> QED
      BY <3>2, <3>3, <3>4
  <2> QED
    BY <2>1, <2>5 DEF Rising
<1>2. ReaInv => ReassemblyIsExact
  BY <1>1 DEF ReassemblyIsExact, Rea!ReassemblyIsExact, FirstWasFirst
<1> QED
  BY <1>2, ReadingsInvariant, PTL

-----------------------------------------------------------------------------
(* The monitor, the proxy and the readings: well formed                      *)

\* Every state of the monitor is well formed: an endpoint has one answer at most.
THEOREM MonitorIsWellFormed == PartsSpec => []Mon!TypeOK
<1>1. ASSUME NEW S \in Given PROVE Mon!Cardinality(S) <= 1
  <2>1. Cardinality({}) = 0
    BY FS_EmptySet
  <2>2. \A x : Cardinality({x}) = 1
    BY FS_Singleton
  <2>3. Cardinality(S) \in {0, 1}
    BY <1>1, <2>1, <2>2 DEF Given
  <2>4. Mon!Cardinality(S) = Cardinality(S)
    BY SameOperators
  <2> QED
    BY <2>3, <2>4
<1>2. ASSUME MonInv PROVE Mon!TypeOK
  <2>1. \A e \in Mon!Monitored : raw[e] \in Given /\ cache[e] \in Given
    BY <1>2 DEF MonInv, MonTyped
  <2> QED
    BY <1>1, <1>2, <2>1 DEF MonInv, MonTyped, Mon!TypeOK
<1> QED
  BY <1>2, MonitorInvariant, PTL

\* The requests of a session are numbered, and an answer has the number of one.
NumbersOfRequests ==
    /\ Len(sent["request"]) <= MaxRequests
    /\ \A k \in DOMAIN sent["response"] : sent["response"][k].n \in 1..MaxRequests

Pumping ==
    /\ open \subseteq Rec!Way /\ lossy \subseteq Rec!Way
    /\ \A w \in Rec!Way : pump[w] \in {"off", "recv", "send", "record",
                                     "ended", "dead", "failed"}

LEMMA PumpingStep == RecInv /\ Pumping /\ Rec!Next => Pumping'
<1> SUFFICES ASSUME RecInv, Pumping, Rec!Next PROVE Pumping'
  OBVIOUS
<1>1. DOMAIN pump = Rec!Way
  BY DEF RecInv, RecTyped
<1>2. CASE Rec!Accept
  BY <1>2 DEF Rec!Accept, Pumping
<1>3. CASE Rec!Ask \/ Rec!Answer \/ Rec!Break
  <2>1. open' \subseteq open /\ UNCHANGED <<pump, lossy>>
    BY <1>3 DEF Rec!Ask, Rec!Answer, Rec!Break, Rec!Transmit
  <2> QED
    BY <2>1 DEF Pumping
<1>4. ASSUME NEW w \in Rec!Way, \/ Rec!Receive(w) \/ Rec!HangUp(w) \/ Rec!Forward(w)
                                \/ Rec!Record(w) \/ Rec!RecordFails(w)
      PROVE  Pumping'
  <2>1. /\ open' = open /\ lossy' \in {lossy, lossy \cup {w}}
        /\ \/ pump' = pump
           \/ \E p \in {"send", "ended", "record", "recv", "dead", "failed"} :
                pump' = [pump EXCEPT ![w] = p]
    BY <1>4 DEF Rec!Receive, Rec!HangUp, Rec!Forward, Rec!Record, Rec!RecordFails
  <2> QED
    BY <1>1, <2>1 DEF Pumping
<1> QED
  BY <1>2, <1>3, <1>4 DEF Rec!Next

LEMMA NumbersStep == RecInv /\ NumbersOfRequests /\ Rec!Next => NumbersOfRequests'
<1> SUFFICES ASSUME RecInv, NumbersOfRequests, Rec!Next PROVE NumbersOfRequests'
  OBVIOUS
<1>1. /\ sent \in [Rec!Way -> Seq(Frame)] /\ Rec!Way = {"request", "response"}
      /\ MaxRequests \in Nat
  BY PartsAssumption DEF RecInv, RecTyped, Rec!Way, Rec!RecordingAssumption
<1>2. Len(sent["request"]) \in Nat /\ Len(sent["response"]) \in Nat
  BY <1>1, LenProperties
<1>3. CASE UNCHANGED sent
  BY <1>3 DEF NumbersOfRequests
<1>4. CASE Rec!Ask
  <2>1. PICK f : sent' = [sent EXCEPT !["request"] = Append(@, f)]
    BY <1>4 DEF Rec!Ask, Rec!Transmit
  <2>2. Len(sent["request"]) < MaxRequests
    BY <1>4 DEF Rec!Ask
  <2>3. Len(Append(sent["request"], f)) = Len(sent["request"]) + 1
    BY <1>1
  <2>4. sent'["request"] = Append(sent["request"], f) /\ sent'["response"] = sent["response"]
    BY <1>1, <2>1
  <2> QED
    BY <1>1, <1>2, <2>2, <2>3, <2>4 DEF NumbersOfRequests
<1>5. CASE Rec!Answer
  <2>1. PICK n \in 1..Len(sent["request"]), kind \in Rec!Kind :
            sent' = [sent EXCEPT !["response"] = Append(@, [n |-> n, kind |-> kind])]
    BY <1>5 DEF Rec!Answer, Rec!Transmit
  <2> DEFINE f == [n |-> n, kind |-> kind]
             was == sent["response"]
  <2>2. f.n \in 1..MaxRequests /\ f \in Frame
    BY <1>1, <1>2, <2>1 DEF NumbersOfRequests, Frame
  <2>3. sent'["response"] = Append(was, f) /\ sent'["request"] = sent["request"]
    BY <1>1, <2>1
  <2>4. was \in Seq(Frame) /\ \A k \in DOMAIN was : was[k].n \in 1..MaxRequests
    BY <1>1 DEF NumbersOfRequests
  <2> HIDE DEF f, was
  <2>5. /\ DOMAIN Append(was, f) = 1..Len(was) + 1 /\ Len(was) \in Nat
        /\ \A k \in 1..Len(was) : Append(was, f)[k] = was[k] /\ k \in DOMAIN was
        /\ Append(was, f)[Len(was) + 1] = f
    BY <2>2, <2>4
  <2>6. \A k \in DOMAIN Append(was, f) : Append(was, f)[k].n \in 1..MaxRequests
    BY <2>2, <2>4, <2>5
  <2> QED
    BY <2>3, <2>6 DEF NumbersOfRequests
<1> QED
  BY <1>3, <1>4, <1>5 DEF Rec!Next, Rec!Accept, Rec!Break, Rec!Receive, Rec!HangUp,
     Rec!Forward, Rec!Record, Rec!RecordFails

\* What was forwarded was sent, so its numbers are those of requests.
LEMMA KnownAreRequests ==
    ASSUME RecInv, LogInv, NumbersOfRequests, NEW w \in Rec!Way
    PROVE  Known(w) \subseteq 1..MaxRequests
<1>1. /\ sent \in [Rec!Way -> Seq(Frame)] /\ forwarded \in [Rec!Way -> Seq(Half)]
      /\ chunk \in [Rec!Way -> Seq(Half)] /\ wire \in [Rec!Way -> Seq(Half)]
      /\ w \in {"request", "response"} /\ MaxRequests \in Nat
  BY PartsAssumption DEF RecInv, RecTyped, Rec!Way, Rec!RecordingAssumption
<1> DEFINE f == forwarded[w]
           c == chunk[w]
           r == wire[w]
           m == Len(sent[w])
<1>2. f \in Seq(Half) /\ c \in Seq(Half) /\ r \in Seq(Half) /\ m \in Nat
  BY <1>1, LenProperties
<1>3. (f \o c) \o r = Split(sent[w])
  BY AllHalvesIsSplit DEF RecInv, NothingLost
<1>4. Len(Split(sent[w])) = 2 * m
  <2>1. sent[w] \in Seq(Frame)
    BY <1>1
  <2>2. Split(sent[w]) = [k \in 1..2 * m |-> Rec!Halves(sent[w][(k + 1) \div 2])[2 - (k % 2)]]
    BY DEF Split
  <2>3. 2 * m \in Nat
    BY <1>2
  <2> HIDE DEF m
  <2> QED
    BY <2>2, <2>3
<1> HIDE DEF f, c, r, m
<1>5. Len((f \o c) \o r) = Len(f) + Len(c) + Len(r) /\ Len(f) \in Nat /\ Len(c) \in Nat /\ Len(r) \in Nat
  <2>1. f \o c \in Seq(Half) /\ Len(f \o c) = Len(f) + Len(c)
    BY <1>2, ConcatProperties
  <2>2. Len((f \o c) \o r) = Len(f \o c) + Len(r)
    BY <1>2, <2>1, ConcatProperties
  <2> QED
    BY <1>2, <2>1, <2>2, LenProperties
<1>6. Len(f) <= 2 * m
  BY <1>2, <1>3, <1>4, <1>5
<1>7. ASSUME NEW k \in 1..Len(f) \div 2 PROVE k \in 1..m
  <2>1. Len(f) \div 2 <= m
    <3>1. \A x, y \in Nat : x <= 2 * y => x \div 2 <= y
      OBVIOUS
    <3> QED
      BY <1>2, <1>5, <1>6, <3>1
  <2>2. Len(f) \div 2 \in Nat
    BY <1>5
  <2> QED
    BY <1>2, <1>7, <2>1, <2>2
<1>8. ASSUME NEW k \in 1..m PROVE sent[w][k].n \in 1..MaxRequests
  <2>1. DOMAIN sent[w] = 1..m
    BY <1>1 DEF m
  <2>2. CASE w = "request"
    BY <1>1, <1>2, <1>8, <2>1, <2>2 DEF LogInv, RequestsCount, NumbersOfRequests, m
  <2>3. CASE w = "response"
    BY <1>8, <2>1, <2>3 DEF NumbersOfRequests
  <2> QED
    BY <1>1, <2>2, <2>3
<1> QED
  BY <1>7, <1>8 DEF Known, f

\* No number is recorded twice in a direction, so a log is no longer than the
\* requests of a session and their answers.
LEMMA LogIsShort ==
    ASSUME RecInv, LogInv, NumbersOfRequests
    PROVE  Len(log) <= 2 * MaxRequests
<1>1. log \in Seq(Event) /\ MaxRequests \in Nat /\ Rec!Way = {"request", "response"}
  BY PartsAssumption DEF LogInv, LogTyped, Rec!Way, Rec!RecordingAssumption
<1>2. DOMAIN log = 1..Len(log) /\ Len(log) \in Nat
  BY <1>1
<1>3. ASSUME NEW i \in 1..Len(log) PROVE log[i].way \in Rec!Way /\ log[i].n \in 1..MaxRequests
  <2>1. log[i] \in Event
    BY <1>1, <1>3, ElementOfSeq
  <2>2. log[i].way \in Rec!Way
    BY <2>1 DEF Event
  <2> DEFINE w == log[i].way
  <2>3. log[i].n \in Rec!LoggedOf(w)
    BY <1>2, <1>3 DEF Rec!LoggedOf
  <2>4. Rec!LoggedOf(w) \subseteq Known(w)
    BY <2>2 DEF LogInv, AllRecorded
  <2>5. Known(w) \subseteq 1..MaxRequests
    BY <2>2, KnownAreRequests
  <2> QED
    BY <2>2, <2>3, <2>4, <2>5
<1> DEFINE place(i) == log[i].n + (IF log[i].way = "request" THEN 0 ELSE MaxRequests)
           f == [i \in 1..Len(log) |-> place(i)]
           Places == 1..2 * MaxRequests
<1>4. \A i \in 1..Len(log) : place(i) \in Places
  BY <1>1, <1>3
<1>5. f \in [1..Len(log) -> Places]
  BY <1>4
<1>6. ASSUME NEW i \in 1..Len(log), NEW j \in 1..Len(log), f[i] = f[j] PROVE i = j
  <2>1. place(i) = place(j)
    BY <1>6
  <2>2. log[i].way = log[j].way /\ log[i].n = log[j].n
    BY <1>1, <1>3, <2>1
  <2>3. ~(i < j) /\ ~(j < i)
    BY <1>2, <1>3, <2>2 DEF LogInv, LogOrdered
  <2> QED
    BY <2>3
<1>7. /\ IsFiniteSet(1..Len(log)) /\ Cardinality(1..Len(log)) = Len(log)
      /\ IsFiniteSet(Places) /\ Cardinality(Places) = 2 * MaxRequests
  <2>1. ASSUME NEW n \in Nat PROVE IsFiniteSet(1..n) /\ Cardinality(1..n) = n
    <3>1. 1 \in Int /\ n \in Int /\ (IF 1 > n THEN 0 ELSE n - 1 + 1) = n
      OBVIOUS
    <3> QED
      BY <3>1, FS_Interval
  <2>2. 2 * MaxRequests \in Nat
    BY <1>1
  <2> QED
    BY <1>2, <2>1, <2>2
<1> HIDE DEF f, Places
<1>8. ~(Cardinality(Places) < Cardinality(1..Len(log)))
  <2>1. ASSUME Cardinality(Places) < Cardinality(1..Len(log)) PROVE FALSE
    <3>1. \E x, y \in 1..Len(log) : x # y /\ f[x] = f[y]
      BY <1>5, <1>7, <2>1, FS_PigeonHole
    <3> QED
      BY <1>6, <3>1
  <2> QED
    BY <2>1
<1> QED
  BY <1>1, <1>2, <1>7, <1>8

\* Every state of the recording proxy is well formed: its log holds each request
\* once at most, and each answer once at most.
THEOREM ProxyIsWellFormed == PartsSpec => []Rec!TypeOK
<1>1. PartsInit => Pumping /\ NumbersOfRequests
  <2> SUFFICES ASSUME Rec!Init PROVE Pumping /\ NumbersOfRequests
    BY DEF PartsInit
  <2>1. Pumping
    BY DEF Rec!Init, Pumping
  <2>2. MaxRequests \in Nat /\ Len(<<>>) = 0 /\ DOMAIN <<>> = {}
    BY PartsAssumption DEF Rec!RecordingAssumption
  <2>3. sent["request"] = <<>> /\ sent["response"] = <<>>
    BY DEF Rec!Init, Rec!Way
  <2> QED
    BY <2>1, <2>2, <2>3 DEF NumbersOfRequests
<1>2. ASSUME RecInv, Pumping, NumbersOfRequests, Rec!Next \/ UNCHANGED recVars
      PROVE  (Pumping /\ NumbersOfRequests)'
  <2>1. CASE UNCHANGED recVars
    BY <1>2, <2>1 DEF Pumping, NumbersOfRequests, recVars
  <2> QED
    BY <1>2, <2>1, PumpingStep, NumbersStep
<1>3. RecInv /\ LogInv /\ Pumping /\ NumbersOfRequests => Rec!TypeOK
  BY LogIsShort DEF Pumping, Rec!TypeOK
<1>4. PartsSpec => [](Pumping /\ NumbersOfRequests)
  BY <1>1, <1>2, ProxyAlone, ProxyInvariant, PTL DEF PartsSpec
<1> QED
  BY <1>3, <1>4, ProxyInvariant, LogInvariant, PTL

\* What is read is one of the readings.
THEOREM ReadingsAreWellFormed == PartsSpec => []Rea!TypeOK
<1>1. PartsInit => Rea!TypeOK
  BY DEF PartsInit, Rea!Init, Rea!TypeOK
<1>2. Rea!TypeOK /\ (Rea!Next \/ UNCHANGED reaVars) => Rea!TypeOK'
  <2>1. ASSUME Rea!Next PROVE input'.of \in {"screen", "difference", "capture"}
    BY <2>1 DEF Rea!Next, Rea!AskScreen, Rea!AskDifference, Rea!AskCapture
  <2> QED
    BY <2>1 DEF Rea!TypeOK, reaVars
<1> QED
  BY <1>1, <1>2, ReadingsAlone, PTL DEF PartsSpec

-----------------------------------------------------------------------------
(* What the run proxy_stall refutes of a frame with an unknown io byte is    *)
(* true where none is sent.                                                  *)

\* A direction stalled is one in which such a frame was sent.
StallsAreOdd ==
    \A w \in Rec!Way : pump[w] = "dead" =>
        \E k \in DOMAIN sent[w] : sent[w][k].kind = "odd"

\* Where a reader stops it stands on a frame that was sent.
LEMMA ForwardStalls ==
    ASSUME RecInv, LogInv, NEW w \in Rec!Way, Rec!Forward(w), pump'[w] = "dead"
    PROVE  \E k \in DOMAIN sent[w] : sent[w][k].kind = "odd"
<1> DEFINE b == Rec!Synchronised(buffer[w] \o chunk[w])
           q == Rec!Whole(b)
           I == {i \in 1..Len(q) : q[i].kind # "good"}
           first == Rec!FirstFault(q)
<1>1. DOMAIN pump = Rec!Way /\ sent[w] \in Seq(Frame)
  BY DEF RecInv, RecTyped
<1>2. pump[w] = "send" /\ first # 0 /\ q[first].kind = "odd"
  BY <1>1 DEF Rec!Forward
<1>3. b \in Seq(Half) /\ \E m \in Nat : Follows(b, w, m)
  BY <1>2, ReaderFollows DEF LogInv
<1>4. PICK m \in Nat : Begins(b, m, sent[w])
  BY <1>3 DEF Follows
<1>5. first = IF I # {} THEN Rec!Min(I) ELSE 0
  BY DEF Rec!FirstFault, Rec!SelectInSeq
<1> HIDE DEF b, first
<1>6. /\ Len(q) \in Nat /\ Len(q) = Len(b) \div 2 /\ m + Len(q) <= Len(sent[w])
      /\ \A i \in 1..Len(q) : q[i] = sent[w][m + i]
  BY <1>1, <1>3, <1>4, WholeIs, LenProperties
<1> HIDE DEF q
<1>7. first \in I
  <2>1. I # {} /\ I \in SUBSET Nat /\ first = Rec!Min(I)
    BY <1>2, <1>5, <1>6
  <2>2. Rea!Min(I) \in I
    BY <2>1, SmallestIsOne
  <2> QED
    BY <2>1, <2>2 DEF Rea!Min, Rec!Min
<1>8. first \in 1..Len(q) /\ Len(sent[w]) \in Nat /\ DOMAIN sent[w] = 1..Len(sent[w])
  BY <1>1, <1>7, LenProperties
<1>9. m + first \in DOMAIN sent[w] /\ sent[w][m + first].kind = "odd"
  BY <1>2, <1>6, <1>8
<1> QED
  BY <1>9

LEMMA StallsStep ==
    ASSUME RecInv, LogInv, StallsAreOdd, Rec!Next \/ UNCHANGED recVars
    PROVE  StallsAreOdd'
<1>1. DOMAIN pump = Rec!Way /\ DOMAIN sent = Rec!Way /\ \A w \in Rec!Way : sent[w] \in Seq(Frame)
  BY DEF RecInv, RecTyped
<1>2. CASE Rec!Accept \/ Rec!Break \/ UNCHANGED recVars
  BY <1>1, <1>2 DEF Rec!Accept, Rec!Break, StallsAreOdd, recVars
<1>3. ASSUME NEW v \in Rec!Way, NEW f, Rec!Transmit(v, f) PROVE StallsAreOdd'
  <2> SUFFICES ASSUME NEW w \in Rec!Way, pump'[w] = "dead"
               PROVE  \E k \in DOMAIN sent'[w] : sent'[w][k].kind = "odd"
    BY DEF StallsAreOdd
  <2>1. pump[w] = "dead" /\ sent' = [sent EXCEPT ![v] = Append(sent[v], f)]
    BY <1>3 DEF Rec!Transmit
  <2>2. PICK k \in DOMAIN sent[w] : sent[w][k].kind = "odd"
    BY <2>1 DEF StallsAreOdd
  <2>3. k \in 1..Len(sent[w]) /\ Len(sent[w]) \in Nat
    BY <1>1, LenProperties
  <2>4. sent'[w] = sent[w] \/ sent'[w] = Append(sent[w], f)
    BY <1>1, <2>1
  <2>5. k \in DOMAIN Append(sent[w], f) /\ Append(sent[w], f)[k] = sent[w][k]
    BY <1>1, <2>3
  <2> QED
    BY <2>2, <2>4, <2>5
<1>4. ASSUME NEW v \in Rec!Way,
             Rec!Receive(v) \/ Rec!HangUp(v) \/ Rec!Record(v) \/ Rec!RecordFails(v)
      PROVE  StallsAreOdd'
  BY <1>1, <1>4 DEF Rec!Receive, Rec!HangUp, Rec!Record, Rec!RecordFails, StallsAreOdd
<1>5. ASSUME NEW v \in Rec!Way, Rec!Forward(v) PROVE StallsAreOdd'
  <2>1. UNCHANGED sent /\ \A w \in Rec!Way \ {v} : pump'[w] = pump[w]
    BY <1>1, <1>5 DEF Rec!Forward
  <2> QED
    BY <1>5, <2>1, ForwardStalls DEF StallsAreOdd
<1> QED
  BY <1>2, <1>3, <1>4, <1>5 DEF Rec!Next, Rec!Ask, Rec!Answer, Rec!Way

\* "A decode failure can never stall ... the session being observed" (proxy.py:86):
\* decoding stalls no direction as long as no frame with an io byte that is no IO is
\* sent, however many are damaged, cut by chunks, or never answered.
THEOREM OnlyOddFramesStall ==
    PartsSpec => []((\A w \in Rec!Way : \A k \in DOMAIN sent[w] : sent[w][k].kind # "odd")
                      => NeverStalled)
<1>1. PartsInit => StallsAreOdd
  BY DEF PartsInit, Rec!Init, StallsAreOdd
<1>2. StallsAreOdd => ((\A w \in Rec!Way : \A k \in DOMAIN sent[w] : sent[w][k].kind # "odd")
                          => NeverStalled)
  BY DEF StallsAreOdd, NeverStalled, Rec!NeverStalled
<1> QED
  BY <1>1, <1>2, ProxyInvariant, LogInvariant, ProxyAlone, StallsStep, PTL DEF PartsSpec

=============================================================================
