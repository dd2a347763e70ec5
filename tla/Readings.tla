------------------------------ MODULE Readings ------------------------------
(* Three pure readings: the aggregate of a screen over its members' states   *)
(* (screens.py), the difference of two snapshots of a controller, whose      *)
(* lists are aligned by identity (coex.py), and one direction of a captured  *)
(* connection, put together from its TCP segments (capture.py).  A behaviour *)
(* picks an input; the properties hold the result to what it should say.     *)
EXTENDS Integers, FiniteSets, Sequences, SequencesExt

CONSTANTS
    Device,     \* addresses a screen may name
    Total,      \* cabinets a device may report
    Key,        \* values an identity key may have
    Length,     \* bound: length of the lists compared
    Captured,   \* bound: segments of a captured connection
    Stream,     \* bytes of the connection that segments are of
    SequenceNumbers     \* how many sequence numbers there are: 2^32

ReadingsAssumption ==
    IsFiniteSet(Device) /\ Total \in Nat /\ Key \subseteq Nat
    /\ {Length, Captured, Stream} \subseteq Nat
    /\ SequenceNumbers \in Nat \ {0} /\ Stream <= SequenceNumbers

VARIABLE input
vars == input

Reachability == {"unknown", "online", "unreachable", "in-use"}
DeviceState == {s \in [held : BOOLEAN, reachability : Reachability, total : 0..Total,
                       online : 0..Total, unhealthy : BOOLEAN] : s.online <= s.total}
\* An element of a list: two identity keys, the second of which may be absent.
Absent == 99
Item == [cabinetID : Key, id : Key \cup {Absent}, value : 0..1]

Init == input = [of |-> "none"]

AskScreen ==
    /\ input.of = "none"
    /\ \E members \in BoundedSeq(Device, 3), states \in [Device -> DeviceState] :
        input' = [of |-> "screen", members |-> members, states |-> states]

AskDifference ==
    /\ input.of = "none"
    /\ \E before, after \in BoundedSeq(Item, Length) :
        input' = [of |-> "difference", before |-> before, after |-> after]

\* A segment's payload is the positions of its bytes in what was sent; the
\* numbers the connection starts from may be about to turn.
Segment == {s \in [from : 0..Stream, length : 1..Stream] : s.from + s.length <= Stream}

AskCapture ==
    /\ input.of = "none"
    /\ \E segments \in BoundedSeq(Segment, Captured), first \in 0..SequenceNumbers-1 :
        /\ segments # <<>>
        /\ input' = [of |-> "capture", segments |-> segments, first |-> first]

Next == AskScreen \/ AskDifference \/ AskCapture

Spec == Init /\ [][Next]_vars

-----------------------------------------------------------------------------
(* aggregate.                                                                *)

addresses == ToSet(input.members)
State(a) == input.states[a]
Held == {a \in addresses : State(a).held}

Reachabilities_held == {State(a).reachability : a \in Held}
\* A device the application does not hold is one that is unknown.
Reachabilities ==
    {IF a \in Held THEN State(a).reachability ELSE "unknown" : a \in addresses}

reachability ==
    IF Reachabilities \subseteq {"unknown"} THEN "unknown"
    ELSE IF Reachabilities = {"online"} THEN "online"
    ELSE IF "online" \in Reachabilities THEN "partial"
    ELSE IF "in-use" \in Reachabilities THEN "in-use" ELSE "unreachable"

SumOf(f) == FoldFunction(+, 0, f)
cabinets_total == SumOf([a \in Held |-> State(a).total])
cabinets_online == SumOf([a \in Held |-> State(a).online])

problems ==
    \/ \E a \in addresses : a \notin Held
    \/ \E a \in Held : State(a).reachability # "online" \/ State(a).unhealthy
    \/ cabinets_online < cabinets_total

healthy == reachability = "online" /\ ~problems

-----------------------------------------------------------------------------
(* diff_snapshots, on lists of identifiable elements.                        *)

Identities == <<"cabinetID", "id">>     \* tried in this order
Has(item, key) == key = "cabinetID" \/ item[key] # Absent
Distinct(list, key) == IsInjective([i \in DOMAIN list |-> list[i][key]])

Usable_present(key) == \A item \in ToSet(input.before \o input.after) : Has(item, key)
\* Every element has the key, and no two of a list share its value.
Usable(key) ==
    /\ \A item \in ToSet(input.before \o input.after) : Has(item, key)
    /\ Distinct(input.before, key) /\ Distinct(input.after, key)

Keyed == \E i \in DOMAIN Identities : Usable(Identities[i])
aligned == Identities[SelectInSeq(Identities, Usable)]

\* The last element with an identity; a table keeps one.
Named(list, v) == SelectLastInSeq(list, LAMBDA item : item[aligned] = v)
Values == {item[aligned] : item \in ToSet(input.before \o input.after)}
At(list, i) == IF i = 0 THEN {} ELSE {list[i]}

Unchanged ==
    /\ Len(input.before) = Len(input.after)
    /\ IF Keyed
       THEN \A v \in Values : At(input.before, Named(input.before, v))
                                = At(input.after, Named(input.after, v))
       ELSE input.before = input.after

-----------------------------------------------------------------------------
(* _Stream: segments as they were captured, retransmitted and out of order.  *)

seq(segment) == (input.first + segment.from) % SequenceNumbers
payload(segment) == [i \in 1..segment.length |-> segment.from + i]
base == seq(Head(input.segments))
offset(segment) == (seq(segment) - base) % SequenceNumbers
offsets == {offset(s) : s \in ToSet(input.segments)}
\* Of the segments with one offset the first is kept.
First(o) == input.segments[SelectInSeq(input.segments, LAMBDA s : offset(s) = o)]

Trimmed_not(bytes, n) == bytes
\* Without the n bytes that an earlier segment already gave.
Trimmed(bytes, n) == IF n > 0 THEN SubSeq(bytes, n + 1, Len(bytes)) ELSE bytes

Appended(o, out) ==
    LET bytes == payload(First(o)) IN
    IF o + Len(bytes) <= out.position THEN out      \* wholly retransmitted
    ELSE [position |-> o + Len(bytes),
          bytes |-> out.bytes \o Trimmed(bytes, out.position - o)]

\* From the least offset on: what is appended last is at the greatest.
ordered ==
    MapThenFoldSet(Appended, [position |-> 0, bytes |-> <<>>], LAMBDA o : o,
                   Max, offsets).bytes

-----------------------------------------------------------------------------
TypeOK == input.of \in {"none", "screen", "difference", "capture"}

\* A screen is online only when every device it names is held and online, and
\* healthy only when nothing at all is wrong with any of them; a device nobody
\* tried to reach is not called unreachable (screens.py:114, 217).
ScreenIsPessimistic ==
    input.of = "screen" =>
        /\ reachability = "online" =>
              addresses # {} /\ \A a \in addresses : State(a).held /\ State(a).reachability = "online"
        /\ healthy <=>
              /\ reachability = "online"
              /\ \A a \in addresses : State(a).online = State(a).total /\ ~State(a).unhealthy
        /\ reachability = "unreachable" => \E a \in Held : State(a).reachability = "unreachable"

\* No difference is reported exactly when the same elements are there: in any
\* order where something identifies them, else in the same one (coex.py:445).
DifferenceIsReal ==
    input.of = "difference" =>
        (Unchanged <=>
            IF Keyed THEN /\ Len(input.before) = Len(input.after)
                          /\ ToSet(input.before) = ToSet(input.after)
            ELSE input.before = input.after)

\* A stream whose first segment was captured first is put together without a
\* byte repeated or out of order, and with every byte of the first copy of each
\* segment, however they were retransmitted, reordered and lost, and wherever the
\* sequence numbers turn (capture.py:262, 268).
ReassemblyIsExact ==
    /\ input.of = "capture"
    /\ \A s \in ToSet(input.segments) : Head(input.segments).from <= s.from
    =>      /\ \A i \in 2..Len(ordered) : ordered[i-1] < ordered[i]
            /\ ToSet(ordered) = UNION {ToSet(payload(First(o))) : o \in offsets}
=============================================================================
