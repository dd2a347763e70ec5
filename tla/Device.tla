------------------------------- MODULE Device -------------------------------
(***************************************************************************)
(* novasun/app/state.py: class Device, one processor with its connection   *)
(* and cached state, as the values its methods assign.  Who calls them,    *)
(* under which lock and in which order is the business of Application.     *)
(*                                                                         *)
(* session is the held Processor: "none", "live", or "dead" when the       *)
(* register-bus connection under it is gone and the object is still kept.  *)
(* A COEX device is spoken to with one HTTP request after another: its     *)
(* session is never "dead".                                                *)
(***************************************************************************)
EXTENDS Integers

CONSTANTS
    FirstBackoff,   \* FIRST_BACKOFF, in ticks of the clock
    MaxBackoff      \* MAX_BACKOFF

ASSUME BackoffAssumption ==
    /\ FirstBackoff \in Nat \ {0}
    /\ MaxBackoff \in Nat
    /\ FirstBackoff <= MaxBackoff

Reachability == {"unknown", "online", "unreachable", "in-use"}
Session == {"none", "live", "dead"}

\* What a failed attempt to connect records: ConnectionError or another OSError.
Down == {"unreachable", "in-use"}

\* Device.__init__: retry_in = 0 is next_retry = None or already passed.
NewDevice(address, ports) ==
    [address |-> address, ports |-> ports,
     session |-> "none", reachability |-> "unknown",
     backoff |-> FirstBackoff, retry_in |-> 0]

Smaller(i, j) == IF i < j THEN i ELSE j

Close(d) == [d EXCEPT !.session = "none"]

\* Drops the processor and keeps showing the device online.
MarkDown_shown(d, reachability) ==
    Close([d EXCEPT !.retry_in = d.backoff,
                    !.backoff = Smaller(2 * d.backoff, MaxBackoff)])

\* Doubles the wait without the cap.
MarkDown_uncapped(d, reachability) ==
    Close([d EXCEPT !.reachability = reachability,
                    !.retry_in = d.backoff,
                    !.backoff = 2 * d.backoff])

MarkDown(d, reachability) ==
    Close([d EXCEPT !.reachability = reachability,
                    !.retry_in = d.backoff,
                    !.backoff = Smaller(2 * d.backoff, MaxBackoff)])

Connected(d) == [d EXCEPT !.session = "live", !.backoff = FirstBackoff]

\* _read_into_state says "online" before it asks the device anything.
Reading(d) == [d EXCEPT !.reachability = "online", !.retry_in = 0]

DueForRetry(d) == d.retry_in = 0
=============================================================================
