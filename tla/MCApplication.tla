--------------------------- MODULE MCApplication ----------------------------
(* Finite values for Application: how many evaluations in a row without an  *)
(* answer raise the offline alert, and what the config file holds.          *)
EXTENDS Application, TLC

Offline(ticks) ==
    [clear |-> 1, warning |-> 2, critical |-> 3, offline_ticks |-> ticks,
     temperature_alerts |-> TRUE, cabinet_loss_alerts |-> TRUE]
AtOnce == Offline(1)
OnTheSecond == Offline(2)

Entry(a, ports) == [address |-> a, ports |-> ports]

\* A saved device with the ports a request gives, or with its own.
CONSTANT d1
SavedPlain == <<Entry(d1, HttpPorts)>>
SavedCustom == <<Entry(d1, "custom")>>

HandlerSymmetry == Permutations(Handler)
=============================================================================
