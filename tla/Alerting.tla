------------------------------ MODULE Alerting ------------------------------
(***************************************************************************)
(* What novasun's alerting promises an operator, whatever the rules that   *)
(* raise and clear alerts say.  An alert has a key: a device address and   *)
(* the kind of condition.  It is raised, may escalate, may be acknowledged *)
(* and goes away when its condition clears or its device is removed.       *)
(*                                                                         *)
(* `events` keeps, for each key, the severity of the newest event logged   *)
(* about it: every raise, escalation and clearing logs one.                *)
(***************************************************************************)
CONSTANT Address

VARIABLES
    alerts,     \* key -> the standing alert, or NoAlert
    events      \* key -> severity of the newest event about it, or "none"

vars == <<alerts, events>>

Kind == {"offline", "temperature", "cabinets"}
Key == Address \X Kind
KeysOf(a) == {k \in Key : k[1] = a}

Severity == {"warning", "critical"}
Alert == [severity : Severity, acknowledged : BOOLEAN]
NoAlert == [severity |-> "none", acknowledged |-> FALSE]

TypeOK ==
    /\ alerts \in [Key -> Alert \cup {NoAlert}]
    /\ events \in [Key -> Severity \cup {"info", "none"}]

Init ==
    /\ alerts = [k \in Key |-> NoAlert]
    /\ events = [k \in Key |-> "none"]

(***************************************************************************)
(* The life of one alert under one report of its device.                   *)
(***************************************************************************)
Silent(k) == alerts'[k] = alerts[k] /\ events'[k] = events[k]

Begin(k) ==
    /\ alerts[k] = NoAlert
    /\ \E s \in Severity :
        /\ alerts'[k] = [severity |-> s, acknowledged |-> FALSE]
        /\ events'[k] = s

\* An acknowledgement was given for the warning: it does not cover the critical.
Escalate(k) ==
    /\ alerts[k].severity = "warning"
    /\ alerts'[k] = [severity |-> "critical", acknowledged |-> FALSE]
    /\ events'[k] = "critical"

End(k) ==
    /\ alerts[k] # NoAlert
    /\ alerts'[k] = NoAlert
    /\ events'[k] = "info"

Others(a) == \A k \in Key \ KeysOf(a) : Silent(k)

\* One report of device a moves each of its alerts by at most one stage.
Report(a) ==
    /\ alerts' \in [Key -> Alert \cup {NoAlert}]
    /\ events' \in [Key -> Severity \cup {"info", "none"}]
    /\ \A k \in KeysOf(a) : Silent(k) \/ Begin(k) \/ Escalate(k) \/ End(k)
    /\ Others(a)

Acknowledge(k) ==
    /\ alerts[k] # NoAlert
    /\ alerts' = [alerts EXCEPT ![k].acknowledged = TRUE]
    /\ UNCHANGED events

\* A removed device takes its alerts with it, without an event.
Forget(a) ==
    /\ alerts' = [k \in Key |-> IF k \in KeysOf(a) THEN NoAlert ELSE alerts[k]]
    /\ UNCHANGED events

Next ==
    \/ \E a \in Address : Report(a) \/ Forget(a)
    \/ \E k \in Key : Acknowledge(k)

Spec == Init /\ [][Next]_vars
=============================================================================
