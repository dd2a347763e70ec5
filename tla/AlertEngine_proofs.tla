------------------------- MODULE AlertEngine_proofs -------------------------
(* Proofs about AlertEngine, for every set of devices, readings, cabinet   *)
(* counts and thresholds that satisfies its assumptions.                   *)
EXTENDS AlertEngine, TLAPS

\* Keys are pairs of a device and a kind.
LEMMA KeyFacts ==
    /\ \A a \in Address, kind \in Kind : <<a, kind>> \in Key /\ <<a, kind>> \in KeysOf(a)
    /\ \A k \in Key : k[1] \in Address /\ k[2] \in Kind
    /\ \A a \in Address : \A k \in KeysOf(a) : k \in Key /\ k[1] = a
    /\ \A a, b \in Address, kind \in Kind : <<b, kind>> \in KeysOf(a) <=> a = b
BY DEF Key, KeysOf, Kind, Lifecycle!Key, Lifecycle!KeysOf, Lifecycle!Kind

\* A verdict is always one Settle knows what to do with.
LEMMA VerdictType ==
    ASSUME NEW a \in Address, NEW s \in Report, TypeOK
    PROVE  /\ ReachabilityVerdict(histories[a], s) \in Severity \cup {"clear", "hold"}
           /\ TemperatureVerdict(s) \in Severity \cup {"clear", "hold"}
           /\ CabinetVerdict(s) \in {"critical", "clear", "hold"}
           /\ \A kind \in Kind : Verdict(a, s)[kind] \in Severity \cup {"clear", "hold"}
<1>1. ReachabilityVerdict(histories[a], s) \in Severity \cup {"clear", "hold"}
  BY DEF ReachabilityVerdict, Severity, Lifecycle!Severity
<1>2. TemperatureVerdict(s) \in Severity \cup {"clear", "hold"}
  BY DEF TemperatureVerdict, Severity, Lifecycle!Severity
<1>3. CabinetVerdict(s) \in {"critical", "clear", "hold"}
  BY DEF CabinetVerdict
<1>4. QED
  BY <1>1, <1>2, <1>3 DEF Verdict, Kind, Lifecycle!Kind, Severity, Lifecycle!Severity

\* What a verdict leaves behind, in the terms of Alerting.
LEMMA SettleStage ==
    ASSUME NEW alert \in Alert \cup {NoAlert},
           NEW verdict \in Severity \cup {"clear", "hold"}
    PROVE  /\ Settle(alert, verdict) \in Alert \cup {NoAlert}
           /\ EventOf(alert, verdict) \in Severity \cup {"info", "none"}
           /\ \/ Settle(alert, verdict) = alert /\ EventOf(alert, verdict) = "none"
              \/ /\ alert = NoAlert
                 /\ verdict \in Severity
                 /\ Settle(alert, verdict) = [severity |-> verdict, acknowledged |-> FALSE]
                 /\ EventOf(alert, verdict) = verdict
              \/ /\ alert.severity = "warning"
                 /\ Settle(alert, verdict) = [severity |-> "critical", acknowledged |-> FALSE]
                 /\ EventOf(alert, verdict) = "critical"
              \/ /\ alert # NoAlert
                 /\ verdict = "clear"
                 /\ Settle(alert, verdict) = NoAlert
                 /\ EventOf(alert, verdict) = "info"
BY DEF Settle, EventOf, Raise, Escalates, Alert, NoAlert, Severity,
       Lifecycle!Alert, Lifecycle!NoAlert, Lifecycle!Severity

\* The counter of misses saturates.
LEMMA MissesType ==
    ASSUME NEW h \in History, NEW s \in Report
    PROVE  Misses(h, s) \in 0..MissBound
BY NumbersAssumption DEF Misses, History

\* What an observation makes of a history.
LEMMA ObservedType ==
    ASSUME NEW h \in History, NEW s \in Report
    PROVE  Observed(h, s) \in History
<1>1. Misses(h, s) \in 0..MissBound
  BY MissesType
<1>2. Counted(s) => s.cabinets.total \in Nat /\ s.cabinets.online \in Nat
  BY NumbersAssumption DEF Counted, Report
<1>3. h.peak_cabinets \in Nat /\ h.cabinets_online \in Nat \cup {None}
  BY DEF History
<1>4. QED
  BY <1>1, <1>2, <1>3 DEF Observed, History, Larger

-----------------------------------------------------------------------------
(* Every reachable state is well typed. *)
THEOREM TypeCorrect == Spec => []TypeOK
<1>1. Init => TypeOK
  BY NumbersAssumption
  DEF Init, TypeOK, ThresholdSetting, History, Fresh
<1>2. TypeOK /\ [Next]_vars => TypeOK'
  <2> SUFFICES ASSUME TypeOK, [Next]_vars
               PROVE  TypeOK'
    OBVIOUS
  <2>1. ASSUME NEW a \in Address, NEW s \in Report, Observe(a, s)
        PROVE  TypeOK'
    <3>1. histories' \in [Address -> History]
      BY <2>1, ObservedType DEF Observe, TypeOK
    <3>2. alerts' \in [Key -> Alert \cup {NoAlert}]
      BY <2>1, KeyFacts, VerdictType, SettleStage DEF Observe, TypeOK
    <3>3. events' \in [Key -> Severity \cup {"info", "none"}]
      BY <2>1, KeyFacts, VerdictType, SettleStage DEF Observe, TypeOK
    <3>4. pivot' \in [Address -> Int \cup {None}]
      BY <2>1, NumbersAssumption DEF Observe, TypeOK, Report
    <3>5. QED
      BY <2>1, <3>1, <3>2, <3>3, <3>4 DEF Observe, TypeOK
  <2>2. ASSUME NEW a \in Address, Forget(a)
        PROVE  TypeOK'
    BY <2>2, NumbersAssumption DEF Forget, TypeOK, History, Fresh
  <2>3. ASSUME NEW k \in Key, Acknowledge(k)
        PROVE  TypeOK'
    BY <2>3 DEF Acknowledge, TypeOK, Alert, NoAlert, Lifecycle!Alert, Lifecycle!NoAlert
  <2>4. ASSUME NEW t \in Tunable, SetThresholds(t)
        PROVE  TypeOK'
    BY <2>4 DEF SetThresholds, TypeOK, ThresholdSetting
  <2>5. CASE UNCHANGED vars
    BY <2>5 DEF vars, TypeOK
  <2>6. QED
    BY <2>1, <2>2, <2>3, <2>4, <2>5 DEF Next
<1>3. QED
  BY <1>1, <1>2, PTL DEF Spec

-----------------------------------------------------------------------------
(* The offline alert of a device, as one observation leaves it. *)
LEMMA OfflineStep ==
    ASSUME TypeOK, NEW a \in Address, NEW s \in Report, Observe(a, s), NEW b \in Address
    PROVE  /\ b # a => alerts'[<<b, "offline">>] = alerts[<<b, "offline">>]
                       /\ histories'[b] = histories[b]
           /\ histories'[a].consecutive_misses = Misses(histories[a], s)
           /\ alerts'[<<a, "offline">>]
                = Settle(alerts[<<a, "offline">>], ReachabilityVerdict(histories[a], s))
<1>1. "offline" \in Kind
  BY DEF Kind, Lifecycle!Kind
<1>2. /\ <<b, "offline">> \in Key
      /\ <<a, "offline">> \in KeysOf(a)
      /\ <<a, "offline">> \in Key
      /\ b # a => <<b, "offline">> \notin KeysOf(a)
  BY <1>1, KeyFacts
<1>3. QED
  BY <1>2 DEF Observe, Verdict, Observed, TypeOK

(* An offline alert stands only in an outage of the shortest offline_ticks *)
(* in use, and an outage of the longest one has its alert.                 *)
THEOREM DwellHolds == Spec => []OfflineAlertTracksOutage
<1>0. \A b \in Address : <<b, "offline">> \in Key
  BY DEF Key, Lifecycle!Key, Lifecycle!Kind
<1>1. Init => OfflineAlertTracksOutage
  <2>1. ASSUME Init, NEW b \in Address
        PROVE  /\ histories[b].consecutive_misses = 0
               /\ alerts[<<b, "offline">>] = NoAlert
    BY <2>1, <1>0 DEF Init, Fresh
  <2>2. \E t \in ThresholdSetting : ~(0 >= t.offline_ticks)
    BY ThresholdAssumption, NumbersAssumption DEF ThresholdSetting
  <2>3. QED
    BY <2>1, <2>2 DEF OfflineAlertTracksOutage
<1>2. TypeOK /\ OfflineAlertTracksOutage /\ [Next]_vars => OfflineAlertTracksOutage'
  <2> SUFFICES ASSUME TypeOK, OfflineAlertTracksOutage, [Next]_vars,
                      NEW b \in Address
               PROVE  LET misses == histories'[b].consecutive_misses
                          offline == alerts'[<<b, "offline">>] # NoAlert
                      IN  /\ offline => \E t \in ThresholdSetting : misses >= t.offline_ticks
                          /\ (\A t \in ThresholdSetting : misses >= t.offline_ticks) => offline
    BY DEF OfflineAlertTracksOutage, NoAlert, Lifecycle!NoAlert
  <2> DEFINE k == <<b, "offline">>
  <2>0. /\ thresholds \in ThresholdSetting
        /\ \A t \in ThresholdSetting : t.offline_ticks \in 1..MissBound
        /\ MissBound \in Nat
        /\ histories[b].consecutive_misses \in 0..MissBound
        /\ alerts[k] \in Alert \cup {NoAlert}
    BY <1>0, ThresholdAssumption, NumbersAssumption DEF TypeOK, History
  <2>1. ASSUME NEW a \in Address, NEW s \in Report, Observe(a, s), a = b
        PROVE  LET misses == histories'[b].consecutive_misses
                   offline == alerts'[k] # NoAlert
               IN  /\ offline => \E t \in ThresholdSetting : misses >= t.offline_ticks
                   /\ (\A t \in ThresholdSetting : misses >= t.offline_ticks) => offline
    <3> DEFINE verdict == ReachabilityVerdict(histories[b], s)
               misses == histories[b].consecutive_misses
               next == Misses(histories[b], s)
    <3>1. /\ histories'[b].consecutive_misses = next
          /\ alerts'[k] = Settle(alerts[k], verdict)
      BY <2>1, OfflineStep
    <3>2. s.reachability = "online" => next = 0 /\ verdict = "clear"
      BY DEF Misses, ReachabilityVerdict
    <3>3. s.reachability # "online" => next \in 0..MissBound /\ next >= misses
      BY <2>0 DEF Misses
    <3>4. s.reachability # "online" /\ next < thresholds.offline_ticks => verdict = "hold"
      BY DEF ReachabilityVerdict
    <3>5. s.reachability # "online" /\ ~(next < thresholds.offline_ticks)
            => verdict \in {"warning", "critical"}
      BY DEF ReachabilityVerdict
    <3>6. /\ verdict = "clear" => Settle(alerts[k], verdict) = NoAlert
          /\ verdict = "hold" => Settle(alerts[k], verdict) = alerts[k]
          /\ verdict \in {"warning", "critical"} => Settle(alerts[k], verdict) # NoAlert
      BY <2>0, SettleStage DEF Settle, Raise, Escalates, Alert, NoAlert, Severity,
         Lifecycle!Alert, Lifecycle!NoAlert, Lifecycle!Severity
    <3>7. /\ alerts[k] # NoAlert => \E t \in ThresholdSetting : misses >= t.offline_ticks
          /\ (\A t \in ThresholdSetting : misses >= t.offline_ticks) => alerts[k] # NoAlert
      BY DEF OfflineAlertTracksOutage
    <3>8. CASE s.reachability = "online"
      BY <3>1, <3>2, <3>6, <3>8, <2>0
    <3>9. CASE s.reachability # "online" /\ next < thresholds.offline_ticks
      BY <3>1, <3>3, <3>4, <3>6, <3>7, <3>9, <2>0
    <3>10. CASE s.reachability # "online" /\ ~(next < thresholds.offline_ticks)
      BY <3>1, <3>3, <3>5, <3>6, <3>10, <2>0
    <3>11. QED
      BY <3>8, <3>9, <3>10
  <2>2. ASSUME NEW a \in Address, NEW s \in Report, Observe(a, s), a # b
        PROVE  alerts'[k] = alerts[k] /\ histories'[b] = histories[b]
    BY <2>2, OfflineStep
  <2>3. ASSUME NEW a \in Address, Forget(a), a = b
        PROVE  alerts'[k] = NoAlert /\ histories'[b].consecutive_misses = 0
    BY <2>3, <1>0, KeyFacts DEF Forget, TypeOK, Fresh, Kind, Lifecycle!Kind
  <2>4. ASSUME NEW a \in Address, Forget(a), a # b
        PROVE  alerts'[k] = alerts[k] /\ histories'[b] = histories[b]
    BY <2>4, <1>0, KeyFacts DEF Forget, TypeOK, Kind, Lifecycle!Kind
  <2>5. ASSUME NEW j \in Key, Acknowledge(j)
        PROVE  (alerts'[k] = NoAlert <=> alerts[k] = NoAlert) /\ histories'[b] = histories[b]
    BY <2>5, <2>0, <1>0 DEF Acknowledge, TypeOK, Alert, NoAlert, Severity,
       Lifecycle!Alert, Lifecycle!NoAlert, Lifecycle!Severity
  <2>6. ASSUME (\E t \in Tunable : SetThresholds(t)) \/ UNCHANGED vars
        PROVE  alerts'[k] = alerts[k] /\ histories'[b] = histories[b]
    BY <2>6 DEF SetThresholds, vars
  <2>7. /\ alerts[k] # NoAlert
             => \E t \in ThresholdSetting : histories[b].consecutive_misses >= t.offline_ticks
        /\ (\A t \in ThresholdSetting : histories[b].consecutive_misses >= t.offline_ticks)
             => alerts[k] # NoAlert
    BY DEF OfflineAlertTracksOutage
  <2>8. \E t \in ThresholdSetting : ~(0 >= t.offline_ticks)
    BY <2>0
  <2>9. QED
    BY <2>1, <2>2, <2>3, <2>4, <2>5, <2>6, <2>7, <2>8 DEF Next
<1>3. QED
  BY <1>1, <1>2, TypeCorrect, PTL DEF Spec

-----------------------------------------------------------------------------
\* The levels readings are compared with are integers.
LEMMA LevelsAreIntegers ==
    ASSUME TypeOK
    PROVE  thresholds.clear \in Int /\ thresholds.warning \in Int /\ thresholds.critical \in Int
<1>1. thresholds \in ThresholdSetting
  BY DEF TypeOK
<1>2. {thresholds.clear, thresholds.warning, thresholds.critical} \subseteq Int
  BY <1>1, ThresholdAssumption
<1>3. QED
  BY <1>2

(* The temperature alert of a device, as one observation leaves it. *)
LEMMA TemperatureStep ==
    ASSUME TypeOK, NEW a \in Address, NEW s \in Report, Observe(a, s), NEW b \in Address
    PROVE  /\ b # a => alerts'[<<b, "temperature">>] = alerts[<<b, "temperature">>]
                       /\ pivot'[b] = pivot[b]
           /\ alerts'[<<a, "temperature">>]
                = Settle(alerts[<<a, "temperature">>], TemperatureVerdict(s))
           /\ pivot'[a] = IF (alerts[<<a, "temperature">>] = NoAlert)
                                # (alerts'[<<a, "temperature">>] = NoAlert)
                          THEN s.temperature_c ELSE pivot[a]
<1>1. "temperature" \in Kind
  BY DEF Kind, Lifecycle!Kind
<1>2. /\ <<b, "temperature">> \in Key
      /\ <<a, "temperature">> \in KeysOf(a)
      /\ <<a, "temperature">> \in Key
      /\ b # a => <<b, "temperature">> \notin KeysOf(a)
  BY <1>1, KeyFacts
<1>3. QED
  BY <1>2 DEF Observe, Verdict, TypeOK

(* A temperature alert begins only at or above the warning level and ends *)
(* only at or below the clearing level, if the thresholds are valid.      *)
LEMMA TemperatureToggles ==
    ASSUME TypeOK, Valid(thresholds), NEW a \in Address, NEW s \in Report, Observe(a, s)
    PROVE  LET k == <<a, "temperature">>
           IN  /\ alerts[k] = NoAlert /\ alerts'[k] # NoAlert
                    => s.temperature_c \in Int /\ s.temperature_c >= thresholds.warning
               /\ alerts[k] # NoAlert /\ alerts'[k] = NoAlert
                    => s.temperature_c \in Int /\ s.temperature_c <= thresholds.clear
<1> DEFINE k == <<a, "temperature">>
<1>1. /\ TemperatureVerdict(s) \in {"warning", "critical"}
            => s.temperature_c \in Int /\ s.temperature_c >= thresholds.warning
      /\ TemperatureVerdict(s) = "clear"
            => s.temperature_c \in Int /\ s.temperature_c <= thresholds.clear
  <2>1. s.temperature_c = None \/ s.temperature_c \in Int
    BY NumbersAssumption DEF Report
  <2>2. QED
    BY <2>1, LevelsAreIntegers DEF TemperatureVerdict, Valid
<1>2. alerts'[k] = Settle(alerts[k], TemperatureVerdict(s))
  BY TemperatureStep
<1>3. alerts[k] \in Alert \cup {NoAlert} /\ TemperatureVerdict(s) \in Severity \cup {"clear", "hold"}
  BY VerdictType, KeyFacts DEF TypeOK, Kind, Lifecycle!Kind
<1>4. /\ alerts[k] = NoAlert /\ alerts'[k] # NoAlert => TemperatureVerdict(s) \in {"warning", "critical"}
      /\ alerts[k] # NoAlert /\ alerts'[k] = NoAlert => TemperatureVerdict(s) = "clear"
  BY <1>2, <1>3 DEF Settle, Raise, Escalates, Alert, NoAlert, Severity,
     Lifecycle!Alert, Lifecycle!NoAlert, Lifecycle!Severity
<1>5. QED
  BY <1>1, <1>4

(* The inductive invariant behind the hysteresis. *)
THEOREM PivotHolds == Spec => []PivotOutsideBand
<1>1. Init => PivotOutsideBand
  BY DEF Init, PivotOutsideBand
<1>2. TypeOK /\ PivotOutsideBand /\ [Next]_vars => PivotOutsideBand'
  <2> SUFFICES ASSUME TypeOK, PivotOutsideBand, [Next]_vars,
                      Valid(thresholds)', NEW b \in Address, pivot'[b] # None
               PROVE  IF alerts'[<<b, "temperature">>] = NoAlert
                      THEN pivot'[b] <= thresholds'.clear
                      ELSE pivot'[b] >= thresholds'.warning
    BY DEF PivotOutsideBand, NoAlert, Lifecycle!NoAlert
  <2> DEFINE k == <<b, "temperature">>
  <2>0. k \in Key /\ alerts[k] \in Alert \cup {NoAlert}
    BY KeyFacts DEF TypeOK, Kind, Lifecycle!Kind
  <2>1. ASSUME NEW a \in Address, NEW s \in Report, Observe(a, s), a = b
        PROVE  IF alerts'[k] = NoAlert
               THEN pivot'[b] <= thresholds'.clear
               ELSE pivot'[b] >= thresholds'.warning
    <3>1. thresholds' = thresholds /\ Valid(thresholds)
      BY <2>1 DEF Observe, Valid
    <3>2. CASE (alerts[k] = NoAlert) # (alerts'[k] = NoAlert)
      <4>1. pivot'[b] = s.temperature_c
        BY <2>1, <3>2, TemperatureStep
      <4>2. QED
        BY <2>1, <3>1, <3>2, <4>1, TemperatureToggles
    <3>3. CASE (alerts[k] = NoAlert) = (alerts'[k] = NoAlert)
      <4>1. pivot'[b] = pivot[b]
        BY <2>1, <3>3, TemperatureStep
      <4>2. QED
        BY <3>1, <3>3, <4>1 DEF PivotOutsideBand
    <3>4. QED
      BY <3>2, <3>3
  <2>2. ASSUME NEW a \in Address, NEW s \in Report, Observe(a, s), a # b
        PROVE  alerts'[k] = alerts[k] /\ pivot'[b] = pivot[b] /\ thresholds' = thresholds
    BY <2>2, TemperatureStep DEF Observe
  <2>3. ASSUME NEW a \in Address, Forget(a), a = b
        PROVE  FALSE
    BY <2>3 DEF Forget, TypeOK
  <2>4. ASSUME NEW a \in Address, Forget(a), a # b
        PROVE  alerts'[k] = alerts[k] /\ pivot'[b] = pivot[b] /\ thresholds' = thresholds
    BY <2>4, <2>0, KeyFacts DEF Forget, TypeOK, Kind, Lifecycle!Kind
  <2>5. ASSUME NEW j \in Key, Acknowledge(j)
        PROVE  /\ alerts'[k] = NoAlert <=> alerts[k] = NoAlert
               /\ pivot'[b] = pivot[b] /\ thresholds' = thresholds
    BY <2>5, <2>0 DEF Acknowledge, TypeOK, Alert, NoAlert, Severity,
       Lifecycle!Alert, Lifecycle!NoAlert, Lifecycle!Severity
  <2>6. ASSUME NEW t \in Tunable, SetThresholds(t)
        PROVE  FALSE
    BY <2>6 DEF SetThresholds
  <2>7. CASE UNCHANGED vars
    BY <2>7 DEF vars, PivotOutsideBand, Valid
  <2>8. CASE /\ alerts'[k] = NoAlert <=> alerts[k] = NoAlert
             /\ pivot'[b] = pivot[b] /\ thresholds' = thresholds
    BY <2>8 DEF PivotOutsideBand, Valid
  <2>9. QED
    BY <2>1, <2>2, <2>3, <2>4, <2>5, <2>6, <2>7, <2>8 DEF Next
<1>3. QED
  BY <1>1, <1>2, TypeCorrect, PTL DEF Spec

(* A reading that stays within the hysteresis band never makes a           *)
(* temperature alert begin, end and begin again.                           *)
THEOREM NoFlappingHolds == Spec => NoFlapping
<1> DEFINE Step(a) ==
      LET stands == alerts[<<a, "temperature">>] # NoAlert
          stands_next == alerts'[<<a, "temperature">>] # NoAlert
          band == thresholds.warning - thresholds.clear
      IN  (Valid(thresholds) /\ pivot[a] # None /\ pivot'[a] # None /\ stands # stands_next)
          => IF stands THEN pivot[a] - pivot'[a] >= band
                       ELSE pivot'[a] - pivot[a] >= band
<1>1. TypeOK /\ PivotOutsideBand /\ [Next]_vars => [\A a \in Address : Step(a)]_vars
  <2> SUFFICES ASSUME TypeOK, PivotOutsideBand, Next, NEW b \in Address,
                      Valid(thresholds), pivot[b] # None, pivot'[b] # None,
                      (alerts[<<b, "temperature">>] = NoAlert)
                        # (alerts'[<<b, "temperature">>] = NoAlert)
               PROVE  IF alerts[<<b, "temperature">>] # NoAlert
                      THEN pivot[b] - pivot'[b] >= thresholds.warning - thresholds.clear
                      ELSE pivot'[b] - pivot[b] >= thresholds.warning - thresholds.clear
    OBVIOUS
  <2> DEFINE k == <<b, "temperature">>
  <2>0. /\ k \in Key /\ alerts[k] \in Alert \cup {NoAlert}
    BY KeyFacts DEF TypeOK, Kind, Lifecycle!Kind
  <2>t. pivot[b] \in Int /\ thresholds.warning \in Int /\ thresholds.clear \in Int
    <3>1. pivot[b] \in Int \cup {None}
      BY DEF TypeOK
    <3>2. QED
      BY <3>1, LevelsAreIntegers
  <2>1. ASSUME NEW a \in Address, NEW s \in Report, Observe(a, s)
        PROVE  IF alerts[k] # NoAlert
               THEN pivot[b] - pivot'[b] >= thresholds.warning - thresholds.clear
               ELSE pivot'[b] - pivot[b] >= thresholds.warning - thresholds.clear
    <3>1. a = b
      BY <2>1, TemperatureStep
    <3>2. pivot'[b] = s.temperature_c
      BY <2>1, <3>1, TemperatureStep
    <3>3. CASE alerts[k] # NoAlert
      <4>1. s.temperature_c \in Int /\ s.temperature_c <= thresholds.clear
        BY <2>1, <3>1, <3>3, TemperatureToggles
      <4>2. pivot[b] >= thresholds.warning
        BY <3>3 DEF PivotOutsideBand
      <4>3. QED
        BY <2>t, <3>2, <3>3, <4>1, <4>2
    <3>4. CASE alerts[k] = NoAlert
      <4>1. s.temperature_c \in Int /\ s.temperature_c >= thresholds.warning
        BY <2>1, <3>1, <3>4, TemperatureToggles
      <4>2. pivot[b] <= thresholds.clear
        BY <3>4 DEF PivotOutsideBand
      <4>3. QED
        BY <2>t, <3>2, <3>4, <4>1, <4>2
    <3>5. QED
      BY <3>3, <3>4
  <2>2. ASSUME NEW a \in Address, Forget(a)
        PROVE  FALSE
    <3>1. CASE a = b
      BY <2>2, <3>1 DEF Forget, TypeOK
    <3>2. CASE a # b
      BY <2>2, <3>2, <2>0, KeyFacts DEF Forget, TypeOK, Kind, Lifecycle!Kind
    <3>3. QED
      BY <3>1, <3>2
  <2>3. ASSUME NEW j \in Key, Acknowledge(j)
        PROVE  FALSE
    BY <2>3, <2>0 DEF Acknowledge, TypeOK, Alert, NoAlert, Severity,
       Lifecycle!Alert, Lifecycle!NoAlert, Lifecycle!Severity
  <2>4. ASSUME NEW t \in Tunable, SetThresholds(t)
        PROVE  FALSE
    BY <2>4 DEF SetThresholds
  <2>5. QED
    BY <2>1, <2>2, <2>3, <2>4 DEF Next
<1>2. QED
  BY <1>1, TypeCorrect, PivotHolds, PTL DEF Spec, NoFlapping

-----------------------------------------------------------------------------
(* The engine implements the life of an alert that Alerting states. *)
THEOREM ImplementsLifecycle == Spec => LifecycleSpec
<1>1. Init => Lifecycle!Init
  BY DEF Init, Lifecycle!Init, Key, NoAlert
<1>2. TypeOK /\ [Next]_vars => [Lifecycle!Next]_(Lifecycle!vars)
  <2> SUFFICES ASSUME TypeOK, [Next]_vars
               PROVE  Lifecycle!Next \/ UNCHANGED Lifecycle!vars
    OBVIOUS
  <2>1. ASSUME NEW a \in Address, NEW s \in Report, Observe(a, s)
        PROVE  Lifecycle!Report(a)
    <3>0. TypeOK'
      <4>1. alerts' \in [Key -> Alert \cup {NoAlert}]
        BY <2>1, KeyFacts, VerdictType, SettleStage DEF Observe, TypeOK
      <4>2. events' \in [Key -> Severity \cup {"info", "none"}]
        BY <2>1, KeyFacts, VerdictType, SettleStage DEF Observe, TypeOK
      <4>3. QED
        BY <2>1, <4>1, <4>2, ObservedType, NumbersAssumption DEF Observe, TypeOK, Report
    <3>1. ASSUME NEW k \in KeysOf(a)
          PROVE  \/ Lifecycle!Silent(k) \/ Lifecycle!Begin(k)
                 \/ Lifecycle!Escalate(k) \/ Lifecycle!End(k)
      <4> DEFINE verdict == Verdict(a, s)[k[2]]
      <4>1. verdict \in Severity \cup {"clear", "hold"} /\ alerts[k] \in Alert \cup {NoAlert}
        BY VerdictType, KeyFacts DEF TypeOK
      <4>2. /\ alerts'[k] = Settle(alerts[k], verdict)
            /\ events'[k] = IF EventOf(alerts[k], verdict) # "none"
                            THEN EventOf(alerts[k], verdict) ELSE events[k]
        BY <2>1, KeyFacts DEF Observe
      <4>3. /\ EventOf(alerts[k], verdict) \in Severity \cup {"info", "none"}
            /\ \/ Settle(alerts[k], verdict) = alerts[k] /\ EventOf(alerts[k], verdict) = "none"
               \/ /\ alerts[k] = NoAlert
                  /\ verdict \in Severity
                  /\ Settle(alerts[k], verdict) = [severity |-> verdict, acknowledged |-> FALSE]
                  /\ EventOf(alerts[k], verdict) = verdict
               \/ /\ alerts[k].severity = "warning"
                  /\ Settle(alerts[k], verdict) = [severity |-> "critical", acknowledged |-> FALSE]
                  /\ EventOf(alerts[k], verdict) = "critical"
               \/ /\ alerts[k] # NoAlert
                  /\ Settle(alerts[k], verdict) = NoAlert
                  /\ EventOf(alerts[k], verdict) = "info"
        BY <4>1, SettleStage
      <4>4. QED
        BY <4>2, <4>3
        DEF Lifecycle!Silent, Lifecycle!Begin, Lifecycle!Escalate, Lifecycle!End,
            Lifecycle!Severity, Lifecycle!NoAlert, Severity, NoAlert
    <3>2. ASSUME NEW k \in Key \ KeysOf(a)
          PROVE  Lifecycle!Silent(k)
      BY <2>1, <3>2 DEF Observe, Lifecycle!Silent
    <3>3. QED
      BY <3>0, <3>1, <3>2
      DEF Lifecycle!Report, Lifecycle!Others, TypeOK, Key, KeysOf, Severity, Alert, NoAlert
  <2>2. ASSUME NEW a \in Address, Forget(a)
        PROVE  Lifecycle!Forget(a)
    BY <2>2 DEF Forget, Lifecycle!Forget, Key, KeysOf, NoAlert
  <2>3. ASSUME NEW k \in Key, Acknowledge(k)
        PROVE  Lifecycle!Acknowledge(k)
    BY <2>3 DEF Acknowledge, Lifecycle!Acknowledge, NoAlert
  <2>4. CASE (\E t \in Tunable : SetThresholds(t)) \/ UNCHANGED vars
    BY <2>4 DEF SetThresholds, vars, Lifecycle!vars
  <2>5. QED
    BY <2>1, <2>2, <2>3, <2>4 DEF Next, Lifecycle!Next, Key
<1>3. QED
  BY <1>1, <1>2, TypeCorrect, PTL DEF Spec, LifecycleSpec, Lifecycle!Spec

(* Whatever was acknowledged before, a new critical alert and an escalation *)
(* to critical both show as critical.                                       *)
THEOREM EscalationHeard == Spec => EscalationIsHeard
<1>1. TypeOK /\ [Next]_vars
        => [(\E k \in Key : alerts[k].severity # "critical" /\ alerts'[k].severity = "critical")
              => WorstSeverity' = "critical"]_vars
  <2> SUFFICES ASSUME TypeOK, Next, NEW k \in Key,
                      alerts[k].severity # "critical", alerts'[k].severity = "critical"
               PROVE  WorstSeverity' = "critical"
    OBVIOUS
  <2>0. alerts[k] \in Alert \cup {NoAlert}
    BY DEF TypeOK
  <2>1. ASSUME NEW a \in Address, NEW s \in Report, Observe(a, s)
        PROVE  alerts'[k] = [severity |-> "critical", acknowledged |-> FALSE]
    <3>1. k \in KeysOf(a)
      BY <2>1 DEF Observe
    <3>2. Verdict(a, s)[k[2]] \in Severity \cup {"clear", "hold"}
      BY VerdictType, KeyFacts
    <3> DEFINE verdict == Verdict(a, s)[k[2]]
    <3>3. alerts'[k] = Settle(alerts[k], verdict)
      BY <2>1, <3>1 DEF Observe
    <3>4. \/ Settle(alerts[k], verdict) = alerts[k]
          \/ Settle(alerts[k], verdict) = [severity |-> verdict, acknowledged |-> FALSE]
          \/ Settle(alerts[k], verdict) = [severity |-> "critical", acknowledged |-> FALSE]
          \/ Settle(alerts[k], verdict) = NoAlert
      BY <2>0, <3>2, SettleStage
    <3>5. alerts'[k] # NoAlert /\ alerts'[k] # alerts[k]
      BY DEF NoAlert, Lifecycle!NoAlert
    <3>6. CASE alerts'[k] = [severity |-> verdict, acknowledged |-> FALSE]
      <4>1. alerts'[k].severity = verdict
        BY <3>6
      <4>2. QED
        BY <3>6, <4>1
    <3>7. QED
      BY <3>3, <3>4, <3>5, <3>6
  <2>2. ASSUME NEW a \in Address, Forget(a)
        PROVE  FALSE
    BY <2>2 DEF Forget, NoAlert, Lifecycle!NoAlert
  <2>3. ASSUME NEW j \in Key, Acknowledge(j)
        PROVE  FALSE
    BY <2>3, <2>0 DEF Acknowledge, TypeOK, Alert, NoAlert, Lifecycle!Alert, Lifecycle!NoAlert
  <2>4. ASSUME NEW t \in Tunable, SetThresholds(t)
        PROVE  FALSE
    BY <2>4 DEF SetThresholds
  <2>5. alerts'[k] = [severity |-> "critical", acknowledged |-> FALSE]
    BY <2>1, <2>2, <2>3, <2>4 DEF Next
  <2>6. QED
    BY <2>5 DEF WorstSeverity, NoAlert, Lifecycle!NoAlert
<1>2. QED
  BY <1>1, TypeCorrect, PTL DEF Spec, EscalationIsHeard
=============================================================================
