---------------------------- MODULE AlertEngine -----------------------------
(***************************************************************************)
(* novasun/app/history.py: class AlertEngine, which folds a stream of      *)
(* device states into alerts and events, with the thresholds it reads.     *)
(*                                                                         *)
(* Each rule of the code (_reachability, _temperature, _cabinets) is a     *)
(* verdict on one key: raise at a severity, clear, or hold.  _raise and    *)
(* _clear are what a verdict does to the alert of that key.  A method call *)
(* is one step here; how calls of different threads interleave is the      *)
(* business of module Application.                                         *)
(***************************************************************************)
EXTENDS Integers, FiniteSets

CONSTANTS
    Address,        \* devices
    Temperature,    \* readings a device can report
    CabinetCount,   \* [total, online] pairs a device can report
    Tunable,        \* thresholds an operator may ask for
    Configured,     \* thresholds a config file may hold (never validated)
    MissBound,      \* consecutive_misses saturates here
    None            \* Python's None

ThresholdSetting == Tunable \cup Configured

ASSUME NumbersAssumption ==
    /\ Temperature \subseteq Int
    /\ None \notin Int
    /\ CabinetCount \subseteq [total : Nat, online : Nat]
    /\ None \notin CabinetCount
    /\ MissBound \in Nat

ASSUME ThresholdAssumption ==
    /\ Configured # {}
    /\ \A t \in ThresholdSetting :
        /\ {t.clear, t.warning, t.critical} \subseteq Int
        /\ t.offline_ticks \in 1..MissBound
        /\ {t.temperature_alerts, t.cabinet_loss_alerts} \subseteq BOOLEAN

VARIABLES
    thresholds,
    histories,  \* address -> DeviceHistory; one never observed is Fresh
    alerts,     \* key -> the standing alert, or NoAlert
    events,     \* key -> severity of the newest event about it, or "none"
    pivot       \* history variable: the reading at which the temperature
                \* alert last began or ended under the present thresholds

vars == <<thresholds, histories, alerts, events, pivot>>

\* The life of an alert, whatever the rules: see module Alerting.
Lifecycle == INSTANCE Alerting
Kind == Lifecycle!Kind
Key == Lifecycle!Key
KeysOf(a) == Lifecycle!KeysOf(a)
Severity == Lifecycle!Severity
Alert == Lifecycle!Alert
NoAlert == Lifecycle!NoAlert

Reachability == {"unknown", "online", "unreachable", "in-use"}

\* What the engine is told: DeviceState.to_dict, cut down to what it reads.
Report ==
    [reachability : Reachability,
     temperature_c : Temperature \cup {None},
     cabinets : CabinetCount \cup {None}]

\* cabinets_online is the newest sample of that series.
History ==
    [consecutive_misses : 0..MissBound,
     peak_cabinets : Nat,
     cabinets_online : Nat \cup {None}]
Fresh == [consecutive_misses |-> 0, peak_cabinets |-> 0, cabinets_online |-> None]

Larger(i, j) == IF i < j THEN j ELSE i

Valid(t) ==
    /\ t.clear < t.warning
    /\ t.warning < t.critical
    /\ t.offline_ticks >= 1

-----------------------------------------------------------------------------
(* The rules *)

\* The counter outlives the outage.
Misses_kept(h, s) ==
    IF s.reachability # "online" /\ h.consecutive_misses < MissBound
    THEN h.consecutive_misses + 1
    ELSE h.consecutive_misses

\* Saturation is exact: the count is only compared with offline_ticks.
Misses(h, s) ==
    IF s.reachability = "online" THEN 0
    ELSE IF h.consecutive_misses < MissBound THEN h.consecutive_misses + 1 ELSE MissBound

ReachabilityVerdict(h, s) ==
    IF s.reachability = "online" THEN "clear"
    ELSE IF Misses(h, s) < thresholds.offline_ticks THEN "hold"
    ELSE IF s.reachability = "in-use" THEN "warning"
    ELSE "critical"

\* Cleared as soon as the reading is under the warning level.
TemperatureVerdict_flapping(s) ==
    IF s.reachability # "online" \/ s.temperature_c = None \/ ~thresholds.temperature_alerts
    THEN "hold"
    ELSE CASE s.temperature_c >= thresholds.critical -> "critical"
           [] s.temperature_c \in thresholds.warning..(thresholds.critical - 1) -> "warning"
           [] OTHER -> "clear"

TemperatureVerdict(s) ==
    IF s.reachability # "online" \/ s.temperature_c = None \/ ~thresholds.temperature_alerts
    THEN "hold"
    ELSE IF s.temperature_c >= thresholds.critical THEN "critical"
    ELSE IF s.temperature_c >= thresholds.warning THEN "warning"
    ELSE IF s.temperature_c <= thresholds.clear THEN "clear"
    ELSE "hold"

Counted(s) ==
    s.reachability = "online" /\ s.cabinets # None /\ s.cabinets.total # 0

CabinetVerdict(s) ==
    IF ~Counted(s) \/ ~thresholds.cabinet_loss_alerts THEN "hold"
    ELSE IF s.cabinets.total - s.cabinets.online > 0 THEN "critical"
    ELSE "clear"

Verdict(a, s) ==
    [offline |-> ReachabilityVerdict(histories[a], s),
     temperature |-> TemperatureVerdict(s),
     cabinets |-> CabinetVerdict(s)]

-----------------------------------------------------------------------------
(* Alert bookkeeping *)

Escalates(alert, severity) == alert.severity = "warning" /\ severity = "critical"

\* Follows the reading down as well as up.
Raise_following(alert, severity) ==
    IF alert = NoAlert THEN [severity |-> severity, acknowledged |-> FALSE]
    ELSE [alert EXCEPT !.severity = severity]

\* An escalation leaves the acknowledgement of the warning in place.
Raise_silenced(alert, severity) ==
    IF alert = NoAlert \/ Escalates(alert, severity)
    THEN [severity |-> severity, acknowledged |-> alert.acknowledged]
    ELSE alert

Raise(alert, severity) ==
    IF alert = NoAlert \/ Escalates(alert, severity)
    THEN [severity |-> severity, acknowledged |-> FALSE]
    ELSE alert

\* Downgrades the alert where it should remove it.
Settle_lingering(alert, verdict) ==
    CASE verdict \in Severity -> Raise(alert, verdict)
      [] verdict = "clear" /\ alert # NoAlert -> [alert EXCEPT !.severity = "info"]
      [] OTHER -> alert

Settle(alert, verdict) ==
    CASE verdict \in Severity -> Raise(alert, verdict)
      [] verdict = "clear" -> NoAlert
      [] OTHER -> alert

\* The event _raise or _clear appends, if it appends one.
EventOf(alert, verdict) ==
    CASE verdict \in Severity /\ (alert = NoAlert \/ Escalates(alert, verdict)) -> verdict
      [] verdict = "clear" /\ alert # NoAlert -> "info"
      [] OTHER -> "none"

-----------------------------------------------------------------------------
Observed(h, s) ==
    [consecutive_misses |-> Misses(h, s),
     peak_cabinets |->
        IF Counted(s) /\ thresholds.cabinet_loss_alerts
        THEN Larger(h.peak_cabinets, Larger(s.cabinets.total, s.cabinets.online))
        ELSE h.peak_cabinets,
     cabinets_online |-> IF Counted(s) THEN s.cabinets.online ELSE h.cabinets_online]

Observe(a, s) ==
    LET verdict == Verdict(a, s)
        key(kind) == <<a, kind>>
        toggles == (alerts[key("temperature")] = NoAlert)
                     # (alerts'[key("temperature")] = NoAlert)
    IN  /\ histories' = [histories EXCEPT ![a] = Observed(histories[a], s)]
        /\ alerts' = [k \in Key |->
             IF k \in KeysOf(a) THEN Settle(alerts[k], verdict[k[2]]) ELSE alerts[k]]
        /\ events' = [k \in Key |->
             IF k \in KeysOf(a) /\ EventOf(alerts[k], verdict[k[2]]) # "none"
             THEN EventOf(alerts[k], verdict[k[2]])
             ELSE events[k]]
        /\ pivot' = IF toggles THEN [pivot EXCEPT ![a] = s.temperature_c] ELSE pivot
        /\ UNCHANGED thresholds

\* The history is dropped and the alerts are left standing.
Forget_alerts_stand(a) ==
    /\ histories' = [histories EXCEPT ![a] = Fresh]
    /\ pivot' = [pivot EXCEPT ![a] = None]
    /\ UNCHANGED <<thresholds, alerts, events>>

Forget(a) ==
    /\ histories' = [histories EXCEPT ![a] = Fresh]
    /\ alerts' = [k \in Key |-> IF k \in KeysOf(a) THEN NoAlert ELSE alerts[k]]
    /\ pivot' = [pivot EXCEPT ![a] = None]
    /\ UNCHANGED <<thresholds, events>>

Acknowledge(k) ==
    /\ alerts[k] # NoAlert
    /\ alerts' = [alerts EXCEPT ![k].acknowledged = TRUE]
    /\ UNCHANGED <<thresholds, histories, events, pivot>>

\* Application.set_thresholds: candidate.validate() raises before the assignment.
SetThresholds(t) ==
    /\ Valid(t)
    /\ thresholds' = t
    /\ pivot' = [a \in Address |-> None]
    /\ UNCHANGED <<histories, alerts, events>>

Init ==
    /\ thresholds \in Configured
    /\ histories = [a \in Address |-> Fresh]
    /\ alerts = [k \in Key |-> NoAlert]
    /\ events = [k \in Key |-> "none"]
    /\ pivot = [a \in Address |-> None]

Next ==
    \/ \E a \in Address, s \in Report : Observe(a, s)
    \/ \E a \in Address : Forget(a)
    \/ \E k \in Key : Acknowledge(k)
    \/ \E t \in Tunable : SetThresholds(t)

Spec == Init /\ [][Next]_vars

-----------------------------------------------------------------------------
(* Properties *)

TypeOK ==
    /\ thresholds \in ThresholdSetting
    /\ histories \in [Address -> History]
    /\ alerts \in [Key -> Alert \cup {NoAlert}]
    /\ events \in [Key -> Severity \cup {"info", "none"}]
    /\ pivot \in [Address -> Int \cup {None}]

(* An alert is raised, escalates, is acknowledged and ends as Alerting     *)
(* says, one event for each change: severity never falls while the alert   *)
(* stands, and an acknowledgement is lost only to an escalation or the end.*)
LifecycleSpec == Lifecycle!Spec

(* The dwell: an offline alert stands only in an outage that has lasted at *)
(* least the shortest offline_ticks in use, and an outage as long as the   *)
(* longest one always has its alert.  The counter and the alert are kept   *)
(* by different code, so each must follow the other through every call.    *)
OfflineAlertTracksOutage ==
    \A a \in Address :
        LET misses == histories[a].consecutive_misses
            offline == alerts[<<a, "offline">>] # NoAlert
        IN  /\ offline => \E t \in ThresholdSetting : misses >= t.offline_ticks
            /\ (\A t \in ThresholdSetting : misses >= t.offline_ticks) => offline

(* Where the temperature alert last began or ended, the reading was        *)
(* outside the hysteresis band, on the side the alert is on.               *)
PivotOutsideBand ==
    Valid(thresholds) =>
        \A a \in Address :
            pivot[a] # None =>
                IF alerts[<<a, "temperature">>] = NoAlert
                THEN pivot[a] <= thresholds.clear
                ELSE pivot[a] >= thresholds.warning

(* "A reading sitting on the threshold does not flap": under one set of    *)
(* thresholds a temperature alert that began ends, and one that ended      *)
(* begins again, only when the reading has crossed the whole band.         *)
NoFlapping ==
    [][\A a \in Address :
        LET stands == alerts[<<a, "temperature">>] # NoAlert
            stands_next == alerts'[<<a, "temperature">>] # NoAlert
            band == thresholds.warning - thresholds.clear
        IN  (Valid(thresholds) /\ pivot[a] # None /\ pivot'[a] # None /\ stands # stands_next)
            => IF stands THEN pivot[a] - pivot'[a] >= band
                         ELSE pivot'[a] - pivot[a] >= band]_vars

WorstSeverity ==
    LET unacknowledged == {k \in Key : alerts[k] # NoAlert /\ ~alerts[k].acknowledged}
    IN  IF \E k \in unacknowledged : alerts[k].severity = "critical" THEN "critical"
        ELSE IF unacknowledged # {} THEN "warning"
        ELSE "none"

(* "The operator agreed to ignore a warning, not a critical": whatever was *)
(* acknowledged before, a step that makes any alert critical makes the     *)
(* severity the interface shows critical.                                  *)
EscalationIsHeard ==
    [][(\E k \in Key : alerts[k].severity # "critical" /\ alerts'[k].severity = "critical")
        => WorstSeverity' = "critical"]_vars
=============================================================================
