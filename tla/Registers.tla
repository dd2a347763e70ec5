------------------------------ MODULE Registers -----------------------------
(***************************************************************************)
(* What Controller.read and Controller.write promise their caller, however *)
(* many frames it takes and whatever becomes of them.  A transfer of some  *)
(* registers runs, and returns or fails; the writes of transfers are       *)
(* numbered, and a register holds the number of one.                       *)
(*                                                                         *)
(* What a failed transfer sent may still be carried out, at any time, but  *)
(* in its order: never over a later write, nor ahead of the register       *)
(* before it.                                                              *)
(***************************************************************************)
EXTENDS Naturals, Sequences

CONSTANTS
    Chunks,     \* registers of a transfer
    MaxWrites   \* bound: write transfers of a behaviour

VARIABLES
    state,      \* of the transfer that runs, or of the last one
    io,         \* it is a read or a write
    data,       \* its registers so far
    result,     \* how the last one ended that did
    registers,  \* the number of the write each register holds
    writes,     \* write transfers begun
    held        \* what each register held since the transfer began
call == <<state, io, data, result>>
vars == <<call, registers, writes, held>>

Register == 1..Chunks

Init ==
    /\ state = "idle" /\ io = "read" /\ data = <<>> /\ result = "done"
    /\ registers = [r \in Register |-> 0] /\ writes = 0
    /\ held = [r \in Register |-> {0}]

Begin ==
    /\ state = "idle" /\ state' = "running" /\ data' = <<>>
    /\ held' = [r \in Register |-> {registers[r]}]
    /\ UNCHANGED <<result, registers>>

Read == Begin /\ io' = "read" /\ UNCHANGED writes
Write == Begin /\ io' = "write" /\ writes < MaxWrites /\ writes' = writes + 1

\* A register read had that value since the transfer began; one written has it now.
Return(value) ==
    LET last == Len(data) + 1 = Chunks IN
    /\ state = "running"
    /\ io = "read" => value \in held[Len(data) + 1]
    /\ io = "write" => registers[Len(data) + 1] = writes
    /\ data' = Append(data, value)
    /\ state' = IF last THEN "idle" ELSE state
    /\ result' = IF last THEN "done" ELSE result
    /\ UNCHANGED <<io, registers, writes, held>>

Fail ==
    /\ state = "running" /\ state' = "idle" /\ result' = "failed"
    /\ UNCHANGED <<io, data, registers, writes, held>>

\* The write of a register takes effect: one of this transfer or of one before.
Perform(r, value) ==
    /\ registers[r] <= value
    /\ r > 1 => value <= registers[r - 1]
    /\ registers' = [registers EXCEPT ![r] = value]
    /\ held' = [held EXCEPT ![r] = @ \cup {value}]
    /\ UNCHANGED <<call, writes>>

Next ==
    \/ Read \/ Write \/ Fail
    \/ \E value \in 0..writes :
        Return(value) \/ \E r \in Register : Perform(r, value)

Spec == Init /\ [][Next]_vars
=============================================================================
