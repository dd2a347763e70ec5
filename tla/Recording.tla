------------------------------ MODULE Recording -----------------------------
(* The recording proxy between another program and a device: two pump        *)
(* threads that forward what they receive and then decode and log it, and    *)
(* the pairing of the log into transactions (proxy.py, capture.py).  Frames  *)
(* travel as halves, so that the chunks a pump receives may cut them.        *)
EXTENDS Integers, FiniteSets, Sequences, SequencesExt

CONSTANTS
    SerialNumbers,  \* serial numbers before they wrap
    MaxRequests,    \* bound: requests of a session
    MaxFaults       \* bound: frames that do not decode, broken sockets, failed logs

RecordingAssumption ==
    /\ SerialNumbers \in Nat \ {0} /\ MaxRequests \in Nat /\ MaxFaults \in Nat

VARIABLES
    sent,       \* frames each side has sent, in order
    wire,       \* halves sent and not yet received by the pump
    pump,       \* what each pump does: "recv", "send", "record"; it has "ended", or
                \* an exception ended it, in decoding ("dead") or logging ("failed")
    chunk,      \* what it received and has not forwarded
    buffer,     \* its FrameReader
    toRecord,   \* packets decoded and not yet recorded
    forwarded,  \* halves the other side has received
    log,        \* the session's events
    open,       \* sides whose socket is open
    faults,
    lossy       \* history: pumps that dropped their reader
vars == <<sent, wire, pump, chunk, buffer, toRecord, forwarded, log, open, faults, lossy>>

Way == {"request", "response"}
\* good; a wrong checksum; a good checksum over an io byte that is neither 0 nor 1
Kind == {"good", "bad", "odd"}
Halves(f) == <<[frame |-> f, half |-> 1], [frame |-> f, half |-> 2]>>
serno(n) == n % SerialNumbers

Init ==
    /\ sent = [w \in Way |-> <<>>] /\ wire = [w \in Way |-> <<>>]
    /\ pump = [w \in Way |-> "off"] /\ chunk = [w \in Way |-> <<>>]
    /\ buffer = [w \in Way |-> <<>>] /\ toRecord = [w \in Way |-> <<>>]
    /\ forwarded = [w \in Way |-> <<>>] /\ log = <<>>
    /\ open = {} /\ faults = 0 /\ lossy = {}

\* A client connected, and upstream did: two threads.
Accept ==
    /\ open = {} /\ pump["request"] = "off"
    /\ open' = Way /\ pump' = [w \in Way |-> "recv"]
    /\ UNCHANGED <<sent, wire, chunk, buffer, toRecord, forwarded, log, faults, lossy>>

-----------------------------------------------------------------------------
(* The two programs.                                                         *)

Transmit(w, frame) ==
    /\ w \in open /\ faults + (IF frame.kind = "good" THEN 0 ELSE 1) <= MaxFaults
    /\ faults' = faults + (IF frame.kind = "good" THEN 0 ELSE 1)
    /\ sent' = [sent EXCEPT ![w] = Append(@, frame)]
    /\ wire' = [wire EXCEPT ![w] = @ \o Halves(frame)]
    /\ UNCHANGED <<pump, chunk, buffer, toRecord, forwarded, log, open, lossy>>

\* The next request, whether or not the one before was answered.
Ask ==
    /\ Len(sent["request"]) < MaxRequests
    /\ \E kind \in Kind : Transmit("request", [n |-> Len(sent["request"]) + 1, kind |-> kind])

\* The device answers what it received whole, or never does.
Answer ==
    \E n \in 1..Len(sent["request"]), kind \in Kind :
        /\ Len(forwarded["request"]) >= 2 * n
        /\ \A f \in Range(sent["response"]) : f.n < n
        /\ Transmit("response", [n |-> n, kind |-> kind])

\* A socket breaks: the pump that reads it or writes to it will see.
Break ==
    /\ \E w \in open : open' = open \ {w}
    /\ faults < MaxFaults /\ faults' = faults + 1
    /\ UNCHANGED <<sent, wire, pump, chunk, buffer, toRecord, forwarded, log, lossy>>

-----------------------------------------------------------------------------
(* _pump: recv, sendall, and only then feed and record.                      *)

Receive(w) ==
    /\ pump[w] = "recv" /\ wire[w] # <<>>
    /\ \E n \in 1..Len(wire[w]) :
        /\ chunk' = [chunk EXCEPT ![w] = SubSeq(wire[w], 1, n)]
        /\ wire' = [wire EXCEPT ![w] = SubSeq(@, n + 1, Len(@))]
    /\ pump' = [pump EXCEPT ![w] = "send"]
    /\ UNCHANGED <<sent, buffer, toRecord, forwarded, log, open, faults, lossy>>

\* OSError, or nothing more to come: the other side is told, the thread ends.
HangUp(w) ==
    /\ pump[w] \in {"recv", "send"} /\ open # Way
    /\ pump' = [pump EXCEPT ![w] = "ended"]
    /\ UNCHANGED <<sent, wire, chunk, buffer, toRecord, forwarded, log, open, faults, lossy>>

\* FrameReader.feed: halves without a beginning are skipped, then frames taken
\* off until one does not decode.
Synchronised(b) == IF b # <<>> /\ Head(b).half = 2 THEN Tail(b) ELSE b
Whole(b) == [i \in 1..Len(b) \div 2 |-> b[2 * i].frame]
FirstFault(frames) == SelectInSeq(frames, LAMBDA f : f.kind # "good")

Kept_nothing(b) == <<>>
\* The beginning of a frame stays for the next chunk.
Kept(b) == IF Len(b) % 2 = 1 THEN <<Last(b)>> ELSE <<>>

Forwarded_decoded(c) == SelectSeq(c, LAMBDA h : h.frame.kind # "bad")
Forwarded(c) == c

Forward(w) ==
    /\ pump[w] = "send"
    /\ forwarded' = [forwarded EXCEPT ![w] = @ \o Forwarded(chunk[w])]
    /\ chunk' = [chunk EXCEPT ![w] = <<>>]
    /\ LET b == Synchronised(buffer[w] \o chunk[w])
           first == FirstFault(Whole(b))
       IN  \/ /\ first = 0
              /\ toRecord' = [toRecord EXCEPT ![w] = Whole(b)]
              /\ buffer' = [buffer EXCEPT ![w] = Kept(b)]
              /\ pump' = [pump EXCEPT ![w] = "record"]
              /\ UNCHANGED lossy
           \/ /\ first # 0 /\ Whole(b)[first].kind = "bad"     \* ProtocolError
              /\ buffer' = [buffer EXCEPT ![w] = <<>>]
              /\ pump' = [pump EXCEPT ![w] = "recv"]
              /\ lossy' = lossy \cup {w} /\ UNCHANGED toRecord
           \/ /\ first # 0 /\ Whole(b)[first].kind = "odd"     \* ValueError
              /\ pump' = [pump EXCEPT ![w] = "dead"]
              /\ UNCHANGED <<buffer, toRecord, lossy>>
    /\ UNCHANGED <<sent, wire, log, open, faults>>

\* ProxySession.record, one packet after another.
Note(w) ==
    /\ log' = Append(log, [way |-> w, n |-> Head(toRecord[w]).n])
    /\ toRecord' = [toRecord EXCEPT ![w] = Tail(@)]

Record(w) ==
    /\ pump[w] = "record"
    /\ IF toRecord[w] = <<>>
       THEN pump' = [pump EXCEPT ![w] = "recv"] /\ UNCHANGED <<toRecord, log>>
       ELSE Note(w) /\ UNCHANGED pump
    /\ UNCHANGED <<sent, wire, chunk, buffer, forwarded, open, faults, lossy>>

\* The log file cannot be written, or an observer raises, after the event was
\* noted: nothing catches it, and the thread ends with what it still has to note.
RecordFails(w) ==
    /\ pump[w] = "record" /\ toRecord[w] # <<>>
    /\ faults < MaxFaults /\ faults' = faults + 1
    /\ Note(w) /\ pump' = [pump EXCEPT ![w] = "failed"]
    /\ UNCHANGED <<sent, wire, chunk, buffer, forwarded, open, lossy>>

Next == Accept \/ Ask \/ Answer \/ Break
        \/ \E w \in Way : \/ Receive(w) \/ HangUp(w) \/ Forward(w)
                         \/ Record(w) \/ RecordFails(w)

Spec == Init /\ [][Next]_vars

-----------------------------------------------------------------------------
(* pair_transactions, over the log: the request each event answers, 0 for    *)
(* none, with the newest request of each number that waits for an answer.    *)

Waits_oldest(outstanding, s, i) == IF outstanding[s] = 0 THEN i ELSE outstanding[s]
Waits(outstanding, s, i) == i

Paired(state, i) ==
    LET s == serno(log[i].n) IN
    IF log[i].way = "request"
    THEN [state EXCEPT !.outstanding[s] = Waits(state.outstanding, s, i)]
    ELSE [outstanding |-> [state.outstanding EXCEPT ![s] = 0],
          answers |-> [state.answers EXCEPT ![i] = state.outstanding[s]]]

pair_transactions ==
    FoldLeft(Paired, [outstanding |-> [s \in 0..SerialNumbers-1 |-> 0],
                      answers |-> [i \in DOMAIN log |-> 0]],
             [i \in DOMAIN log |-> i]).answers

TypeOK ==
    /\ open \subseteq Way /\ lossy \subseteq Way
    /\ \A w \in Way : pump[w] \in {"off", "recv", "send", "record",
                                 "ended", "dead", "failed"}
    /\ Len(log) <= 2 * MaxRequests

AllHalves(w) ==
    [k \in 1..2 * Len(sent[w]) |-> Halves(sent[w][(k + 1) \div 2])[2 - (k % 2)]]

\* Whatever fails to decode, the other side receives exactly what was sent, as
\* soon as it was received and in its order (proxy.py:86).
ForwardingIsExact ==
    \A w \in Way : IF pump[w] = "ended" THEN IsPrefix(forwarded[w], AllHalves(w))
                   ELSE forwarded[w] \o chunk[w] \o wire[w] = AllHalves(w)

LoggedOf(w) == {log[i].n : i \in {k \in DOMAIN log : log[k].way = w}}

\* A direction's log has the frames forwarded, each once and in order, all of
\* them unless one of its frames did not decode, however chunks cut them.
LogIsComplete ==
    /\ \A i, j \in DOMAIN log : i < j /\ log[i].way = log[j].way => log[i].n < log[j].n
    /\ \A w \in Way : pump[w] = "recv" /\ w \notin lossy =>
            LoggedOf(w) = {sent[w][k].n : k \in 1..Len(forwarded[w]) \div 2}

\* When every response in a log comes after its request, and before the next
\* request of its serial number, each is paired with its own request, whatever
\* else was never answered or not logged (capture.py:366).
InStep ==
    \A i \in DOMAIN log : log[i].way = "response" =>
        /\ \E j \in 1..i-1 : log[j] = [way |-> "request", n |-> log[i].n]
        /\ \A j \in 1..i-1 : serno(log[j].n) = serno(log[i].n) => log[j].n <= log[i].n
PairsMatch ==
    InStep => \A i \in DOMAIN log : log[i].way = "response" =>
        LET j == pair_transactions[i] IN
        j # 0 /\ log[j] = [way |-> "request", n |-> log[i].n]

\* The claim of proxy.py:85: decoding never stalls the session it observes.
NeverStalled == \A w \in Way : pump[w] # "dead"
=============================================================================
