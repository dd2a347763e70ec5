--------------------------- MODULE MCAlertEngine ----------------------------
(* Finite values for AlertEngine.  Five readings fall below, on both edges *)
(* of, inside and above the hysteresis band of every setting; one setting  *)
(* a config file may hold is not valid (it would flap).                    *)
EXTENDS AlertEngine

Setting(clear, warning, critical, ticks, temperature, cabinets) ==
    [clear |-> clear, warning |-> warning, critical |-> critical,
     offline_ticks |-> ticks,
     temperature_alerts |-> temperature, cabinet_loss_alerts |-> cabinets]

MCTemperature == {1, 2, 3, 4, 5}
MCCabinetCount == {[total |-> 2, online |-> 2], [total |-> 2, online |-> 1],
                   [total |-> 1, online |-> 1]}
MCTunable == {Setting(2, 4, 5, 2, TRUE, TRUE), Setting(1, 3, 4, 3, TRUE, FALSE),
              Setting(3, 3, 5, 2, TRUE, TRUE), Setting(2, 4, 5, 3, FALSE, TRUE)}
MCConfigured == {Setting(2, 4, 5, 2, TRUE, TRUE), Setting(3, 3, 3, 2, TRUE, TRUE)}
=============================================================================
