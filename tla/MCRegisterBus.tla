---------------------------- MODULE MCRegisterBus ---------------------------
(* RegisterBus with few serial numbers, so that they wrap many times.        *)
EXTENDS RegisterBus
=============================================================================
