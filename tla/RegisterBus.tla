----------------------------- MODULE RegisterBus ----------------------------
(* One connection on the register bus: a transfer of client.Controller cut   *)
(* into chunks, each chunk an exchange of a request and a response matched   *)
(* by an 8-bit serial number, over a transport whose reader parses what has  *)
(* arrived.  The device answers in order, late, with an error or not at all. *)
(* A frame carries one history field, "age": the requests sent since the one *)
(* it belongs to, which the program cannot see.                              *)
EXTENDS Naturals, Sequences, SequencesExt

CONSTANTS
    SerialNumbers,  \* how many serial numbers there are: 256 in the code
    Retries,        \* responses exchange may skip
    Chunks,         \* chunks of one transfer, one register each
    MaxWrites,      \* bound: write transfers of a behaviour
    MaxAge          \* bound: requests that may follow an outstanding one

ASSUME BusAssumption ==
    /\ SerialNumbers \in Nat \ {0, 1} /\ Retries \in Nat
    /\ Chunks \in Nat \ {0} /\ MaxWrites \in Nat /\ MaxAge \in Nat

VARIABLES
    serno,     \* SerialNumberCounter.value
    transfer,  \* the call to read or write that is running, or the last one
    requests,  \* sent and not handled by the device
    stream,    \* responses not yet received
    buffer,    \* FrameReader._buffer: received and not parsed
    pending,   \* TcpTransport._pending: parsed and not handed over
    registers, \* the device's registers: the number of the write they hold
    healthy,   \* the device answers everything and nothing is damaged
    writes,    \* history: write transfers begun
    held       \* history: what each register held since the transfer began
vars == <<serno, transfer, requests, stream, buffer, pending, registers,
          healthy, writes, held>>
wire == <<requests, stream, buffer, pending>>

Register == 1..Chunks
Frames == requests \o stream \o buffer \o pending
Older(frames) == [i \in DOMAIN frames |-> [frames[i] EXCEPT !.age = @ + 1]]

Init ==
    /\ serno = 0
    /\ transfer = [pc |-> "idle", io |-> "read", data |-> <<>>, skips |-> 0,
                   result |-> "done", answered |-> TRUE]
    /\ requests = <<>> /\ stream = <<>> /\ buffer = <<>> /\ pending = <<>>
    /\ registers = [r \in Register |-> 0]
    /\ healthy = TRUE
    /\ writes = 0
    /\ held = [r \in Register |-> {0}]

-----------------------------------------------------------------------------
(* The caller: Controller.read and Controller.write.                         *)

Begin(io) ==
    /\ transfer.pc = "idle"
    /\ transfer' = [transfer EXCEPT !.pc = "send", !.io = io, !.data = <<>>]
    /\ held' = [r \in Register |-> {registers[r]}]

Read == Begin("read") /\ UNCHANGED <<serno, wire, registers, healthy, writes>>

Write ==
    /\ writes < MaxWrites
    /\ Begin("write")
    /\ writes' = writes + 1
    /\ UNCHANGED <<serno, wire, registers, healthy>>

NextSerial_unwrapped(n) == n + 1
NextSerial(n) == (n + 1) % SerialNumbers

SkipsAllowed_none == 0
SkipsAllowed == Retries

Send ==
    /\ transfer.pc = "send"
    /\ serno' = NextSerial(serno)
    /\ requests' = Append(Older(requests),
           [serno |-> serno', io |-> transfer.io, age |-> 0, value |-> writes,
            register |-> Len(transfer.data) + 1])
    /\ stream' = Older(stream) /\ buffer' = Older(buffer)
    /\ pending' = Older(pending)
    /\ transfer' = [transfer EXCEPT !.pc = "receive", !.skips = SkipsAllowed]
    /\ UNCHANGED <<registers, healthy, writes, held>>

\* An exchange that raises ends the transfer: the chunks after it are not sent.
Fail_skipping(answered) ==
    transfer' = [transfer EXCEPT
        !.pc = IF Len(transfer.data) + 1 < Chunks THEN "send" ELSE "idle",
        !.data = Append(@, 0), !.result = "failed", !.answered = answered]
Fail(answered) ==
    transfer' = [transfer EXCEPT !.pc = "idle", !.result = "failed",
                                 !.answered = answered]

\* The next chunk, or the end of the transfer.
Advance(value) ==
    LET data == Append(transfer.data, value)
        last == Len(data) = Chunks
    IN  transfer' = [transfer EXCEPT
            !.data = data, !.answered = TRUE,
            !.pc = IF last THEN "idle" ELSE "send",
            !.result = IF last THEN "done" ELSE @]

Mismatch_ignored(frame) == FALSE
Mismatch(frame) == frame.serno # serno

Acknowledged_always(frame) == TRUE
Acknowledged(frame) == frame.ok

Take ==
    /\ transfer.pc = "receive" /\ pending # <<>>
    /\ pending' = Tail(pending)
    /\ LET frame == Head(pending) IN
       \/ /\ Mismatch(frame) /\ transfer.skips > 0
          /\ transfer' = [transfer EXCEPT !.skips = @ - 1]
       \/ /\ Mismatch(frame) /\ transfer.skips = 0
          /\ Fail(FALSE)
       \/ /\ ~Mismatch(frame) /\ Acknowledged(frame)
          /\ Advance(frame.value)
       \/ /\ ~Mismatch(frame) /\ ~Acknowledged(frame)
          /\ Fail(TRUE)
    /\ UNCHANGED <<serno, requests, stream, buffer, registers, healthy,
                   writes, held>>

-----------------------------------------------------------------------------
(* The transport: what has arrived is parsed up to the first frame that is   *)
(* not one.  That frame is dropped, and so are the ones parsed before it in  *)
(* the same call; the ones after it stay in the buffer for the next call.    *)

FirstBad(frames) == SelectInSeq(frames, LAMBDA f : f.damaged)

Receive ==
    /\ transfer.pc = "receive" /\ pending = <<>>
    /\ \E n \in 1..Len(stream) :
        LET arrived == buffer \o SubSeq(stream, 1, n)
            bad == FirstBad(arrived)
        IN  /\ stream' = SubSeq(stream, n + 1, Len(stream))
            /\ \/ /\ bad = 0
                  /\ pending' = arrived /\ buffer' = <<>>
                  /\ UNCHANGED transfer
               \/ /\ bad # 0
                  /\ buffer' = SubSeq(arrived, bad + 1, Len(arrived))
                  /\ Fail(FALSE)
                  /\ UNCHANGED pending
    /\ UNCHANGED <<serno, requests, registers, healthy, writes, held>>

Overdue == \E i \in DOMAIN Frames : Frames[i].age >= MaxAge

\* Nothing arrives within the socket's timeout.
TimeOut ==
    /\ transfer.pc = "receive" /\ pending = <<>> /\ stream = <<>>
    /\ requests # <<>> => ~healthy /\ ~Overdue
    /\ Fail(FALSE)
    /\ UNCHANGED <<serno, wire, registers, healthy, writes, held>>

-----------------------------------------------------------------------------
(* The device, one request after another.                                    *)

Respond(ok, value) ==
    LET request == Head(requests) IN
    /\ requests' = Tail(requests)
    /\ \E damaged \in IF healthy THEN {FALSE} ELSE BOOLEAN :
        stream' = Append(stream,
            [serno |-> request.serno, age |-> request.age, ok |-> ok,
             value |-> value, damaged |-> damaged])
    /\ UNCHANGED <<serno, transfer, buffer, pending, healthy, writes>>

\* A register is read or written, and the answer says so.
Answer ==
    /\ requests # <<>>
    /\ LET r == Head(requests).register IN
       \/ /\ Head(requests).io = "read"
          /\ Respond(TRUE, registers[r])
          /\ UNCHANGED <<registers, held>>
       \/ /\ Head(requests).io = "write"
          /\ registers' = [registers EXCEPT ![r] = Head(requests).value]
          /\ held' = [held EXCEPT ![r] = @ \cup {Head(requests).value}]
          /\ Respond(TRUE, Head(requests).value)

\* No receiving card behind the address: an answer with a non-zero ack.
Refuse ==
    /\ requests # <<>>
    /\ Respond(FALSE, 0)
    /\ UNCHANGED <<registers, held>>

\* No answer: the device is gone, or the request or its response was lost.
Silent ==
    /\ requests # <<>> /\ ~healthy /\ ~Overdue
    /\ requests' = Tail(requests)
    /\ \/ UNCHANGED <<registers, held>>
       \/ /\ Head(requests).io = "write"
          /\ LET r == Head(requests).register IN
             /\ registers' = [registers EXCEPT ![r] = Head(requests).value]
             /\ held' = [held EXCEPT ![r] = @ \cup {Head(requests).value}]
    /\ UNCHANGED <<serno, transfer, stream, buffer, pending, healthy, writes>>

Weather ==
    /\ healthy' = ~healthy
    /\ UNCHANGED <<serno, transfer, wire, registers, writes, held>>

-----------------------------------------------------------------------------
Caller == Read \/ Write \/ Send \/ Take \/ Receive \/ TimeOut
Handle == Answer \/ Refuse
Next == Caller \/ Handle \/ Silent \/ Weather

\* The caller is a loop that keeps reading; a healthy device answers.
Fairness ==
    /\ WF_vars(Read) /\ WF_vars(Send) /\ WF_vars(Take)
    /\ WF_vars(Receive) /\ WF_vars(TimeOut)
    /\ WF_vars(healthy /\ Handle)

Spec == Init /\ [][Next]_vars
FairSpec == Spec /\ Fairness

-----------------------------------------------------------------------------
TypeOK ==
    /\ serno \in 0..(SerialNumbers - 1)
    /\ transfer.pc \in {"idle", "send", "receive"}
    /\ transfer.skips \in 0..Retries
    /\ transfer.data \in BoundedSeq(0..MaxWrites, Chunks)
    /\ \A i \in DOMAIN Frames : /\ Frames[i].serno \in 0..(SerialNumbers - 1)
                                /\ Frames[i].age \in Nat
    /\ registers \in [Register -> 0..writes]

\* A read returns what the register held at some time since it began, never
\* an answer left over from a request that timed out before (client.py:75).
\* It takes less than a whole turn of the serial numbers: MaxAge.
ReadIsFresh ==
    transfer.io = "read" =>
        \A r \in DOMAIN transfer.data : transfer.data[r] \in held[r]

\* A write that returned is on the device, every chunk of it, whatever was
\* still under way when it began (client.py:92).
AcknowledgedWritesHold ==
    transfer.io = "write" =>
        \A r \in DOMAIN transfer.data : registers[r] = writes

\* However transfers fail, a register never holds a later write than the one
\* before it: what a failed write leaves behind is a prefix of it (client.py:92).
\* Registers keeps to this, so it is checked with ImplementsRegisters.
TornWritesArePrefixes ==
    \A r \in 2..Chunks : registers[r] <= registers[r - 1]

\* Whatever becomes of its frames, a transfer is one of registers: what it returns,
\* when it fails and what it may leave behind is as Registers has it (client.py:92).
Promise == INSTANCE Registers WITH
    state <- IF transfer.pc = "idle" THEN "idle" ELSE "running",
    io <- transfer.io, data <- transfer.data, result <- transfer.result
ImplementsRegisters == Promise!Spec

\* With a device that is healthy again, leftover answers are read off sooner
\* or later: exchanges do not go on failing for want of a match.
Recovers == <>[]healthy => []<>transfer.answered
=============================================================================
