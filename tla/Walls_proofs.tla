---------------------------- MODULE Walls_proofs ----------------------------
(* Proofs about the part of MCParts that drives a screen: for every set of   *)
(* parts of its devices and every number of commands, whatever fails on the  *)
(* way, a command keeps to the ports it names, and a member whose record is  *)
(* ok shows what was asked for.  With what the other three modules prove of  *)
(* their parts, every state of all the parts side by side is well formed.    *)
EXTENDS MCParts, Configuration_proofs, Tools_proofs, Traffic_proofs

-----------------------------------------------------------------------------
(* Driving a screen: the inductive invariant                                 *)

Members == [address : {"vx", "mx", "sc", "gone"}, ports : SUBSET {1, 2, 3},
            screen_ids : SUBSET {1}]
Register == {"refused", "reread", "sources", "screens", "display", "kill", "lock",
             "brightness", "pattern", "input", "locked"}
Value == (0..2) \cup BOOLEAN \cup Scr!Mode
Writes == [register : Register, value : Value, parts : SUBSET Part]
Card == [kill : BOOLEAN, lock : BOOLEAN, brightness : 0..2, pattern : 0..1]

ScrTyped ==
    /\ cards \in [Device -> [Part -> Card]]
    /\ display \in [Device -> Scr!Mode]
    /\ panel \in [Device -> [input : 0..1, locked : BOOLEAN]]
    /\ paths \in [Device -> SUBSET {"display", "cards"}]
    /\ connected \in [Device -> BOOLEAN]
    /\ command \in [action : Scr!Action \cup {"none"}, members : Seq(Members)]
    /\ plan \in Seq(Writes)
    /\ records \in Seq([member : Members, ok : BOOLEAN])
    /\ plan # <<>> => Scr!Driving /\ Scr!Member.address \in Device
    /\ Scr!Driving => command.action \in Scr!Action

\* What a write of an action may be.
Toward(action, w) ==
    \/ w.register \in {"refused", "reread", "sources", "screens"} /\ w.parts = {}
    \/ w.register = "display" /\ action \in Scr!Mode /\ w.value = action /\ w.parts = {}
    \/ w.register = "kill" /\ w.value = (action = "blackout")
    \/ w.register = "lock" /\ w.value = (action = "freeze")
    \/ w.register = "brightness" /\ w.value \in 1..2
    \/ w.register = "pattern" /\ w.value = 1
    \/ w.register = "input" /\ w.value = 1 /\ w.parts = {}
    \/ w.register = "locked" /\ w.value = TRUE /\ w.parts = {}

\* Every write still to come is toward the action, and one of a member with
\* ports is for those ports only.
PlanIsToward ==
    \A j \in DOMAIN plan :
        /\ Toward(command.action, plan[j])
        /\ command.action \notin Scr!Whole /\ Scr!Member.ports # {} =>
              plan[j].register # "display" /\ plan[j].parts \subseteq Scr!Member.ports

\* The reading that makes a record ok comes last, a refusal first.
RereadIsLast ==
    \A j \in DOMAIN plan : /\ plan[j].register = "reread" <=> j = Len(plan)
                           /\ plan[j].register = "refused" => j = 1

\* How a member shows a mode: by its display register or by its cards.
ByDisplay(m) == m.ports = {} /\ Path[m.address] # "cards"
Scope(m) == IF m.ports = {} THEN Part ELSE m.ports
DisplaySet(m) == display[m.address] = command.action /\ "display" \in paths[m.address]
KillSet(m, p) == cards[m.address][p].kill = (command.action = "blackout")
                 /\ "cards" \in paths[m.address]
LockSet(m, p) == cards[m.address][p].lock = (command.action = "freeze")
                 /\ "cards" \in paths[m.address]
Done(m) ==
    /\ command.action \in Scr!Mode =>
          /\ Scope(m) \subseteq Part
          /\ ByDisplay(m) => DisplaySet(m)
          /\ ~ByDisplay(m) => \A p \in Scope(m) : KillSet(m, p) /\ LockSet(m, p)
    /\ command.action = "select_input" => panel[m.address].input = 1

\* What is not done yet is still to be written, or nothing of it will be.
WillBeDone(m) ==
    /\ command.action \in Scr!Mode =>
          /\ Scope(m) \subseteq Part
          /\ ByDisplay(m) => DisplaySet(m) \/ \E j \in DOMAIN plan : plan[j].register = "display"
          /\ ~ByDisplay(m) => \A p \in Scope(m) :
                /\ \/ KillSet(m, p)
                   \/ \E j \in DOMAIN plan : plan[j].register = "kill" /\ p \in plan[j].parts
                /\ \/ LockSet(m, p)
                   \/ \E j \in DOMAIN plan : plan[j].register = "lock" /\ p \in plan[j].parts
    /\ command.action = "select_input" =>
          \/ panel[m.address].input = 1
          \/ \E j \in DOMAIN plan : plan[j].register = "input"

PlanIsComplete ==
    plan # <<>> => plan[1].register = "refused" \/ WillBeDone(Scr!Member)

RecordsAreDone ==
    \A i \in DOMAIN records :
        records[i].ok => records[i].member.address \in Device /\ Done(records[i].member)

\* A way by which a device was not addressed is as it was.
PathsTell ==
    \A d \in Device :
        /\ "display" \notin paths[d] => display[d] = "normal"
        /\ "cards" \notin paths[d] =>
              \A p \in Part : ~cards[d][p].kill /\ ~cards[d][p].lock

ScrInv ==
    /\ ScrTyped /\ PlanIsToward /\ RereadIsLast /\ PlanIsComplete /\ RecordsAreDone
    /\ PathsTell

-----------------------------------------------------------------------------
(* Driving a screen: what an action becomes                                  *)

LEMMA ScrAssumed ==
    Path \in [Device -> {"coex", "level", "cards"}] /\ Part \subseteq Nat
BY PartsAssumption DEF Scr!ScreensAssumption

LEMMA CountsAgree == \A S : Scr!Cardinality(S) = Cardinality(S)
BY DEF Scr!Cardinality, Cardinality

LEMMA WallsAreOfMembers ==
    /\ \A w \in Walls : w \in Seq(Members)
    /\ \A m \in Members : IsFiniteSet(m.ports) /\ m.ports \subseteq Nat
<1>1. /\ M("vx", {1}, {}) \in Members /\ M("mx", {}, {1}) \in Members
      /\ M("sc", {}, {}) \in Members /\ M("vx", {}, {}) \in Members
      /\ M("gone", {}, {}) \in Members /\ M("sc", {1, 2}, {}) \in Members
      /\ M("mx", {1}, {}) \in Members /\ M("vx", {2, 3}, {}) \in Members
  BY DEF M, Members
<1>2. \A a, b, c \in Members : <<a, b>> \in Seq(Members) /\ <<a, b, c>> \in Seq(Members)
  OBVIOUS
<1>3. \A w \in Walls : w \in Seq(Members)
  BY <1>1, <1>2 DEF Walls
<1>4. ASSUME NEW m \in Members PROVE IsFiniteSet(m.ports) /\ m.ports \subseteq Nat
  <2>1. m.ports \in SUBSET {1, 2, 3}
    BY DEF Members
  <2>2. IsFiniteSet({1, 2, 3})
    <3>1. {1, 2, 3} = 1..3 /\ 1 \in Int /\ 3 \in Int
      OBVIOUS
    <3>2. IsFiniteSet(1..3)
      BY <3>1, FS_Interval
    <3> QED
      BY <3>1, <3>2
  <2> QED
    BY <2>1, <2>2, FS_Subset
<1> QED
  BY <1>3, <1>4

\* The writes an action becomes are toward it, none of them reads, none but the
\* first refuses, and with ports they are for these.
Fits(action, ports, s) ==
    /\ s \in Seq(Writes)
    /\ \A j \in DOMAIN s :
          /\ Toward(action, s[j]) /\ s[j].register # "reread"
          /\ s[j].register = "refused" => j = 1
          /\ action \notin Scr!Whole /\ ports # {} =>
                s[j].register # "display" /\ s[j].parts \subseteq ports

Refuses(s) == s # <<>> /\ s[1].register = "refused"

\* They reach all that the member names.
Covers(action, m, s) ==
    /\ action \in Scr!Mode =>
          /\ Scope(m) \subseteq Part
          /\ ByDisplay(m) => \E j \in DOMAIN s : s[j].register = "display"
          /\ ~ByDisplay(m) => \A p \in Scope(m) :
                /\ \E j \in DOMAIN s : s[j].register = "kill" /\ p \in s[j].parts
                /\ \E j \in DOMAIN s : s[j].register = "lock" /\ p \in s[j].parts
    /\ action = "select_input" => \E j \in DOMAIN s : s[j].register = "input"

LEMMA OneWrite ==
    ASSUME NEW action, NEW ports, NEW w \in Writes, Toward(action, w),
           w.register # "reread",
           action \notin Scr!Whole /\ ports # {} =>
                w.register # "display" /\ w.parts \subseteq ports
    PROVE  Fits(action, ports, <<w>>)
<1>1. <<w>> \in Seq(Writes) /\ DOMAIN <<w>> = {1} /\ <<w>>[1] = w
  OBVIOUS
<1> QED
  BY <1>1 DEF Fits

LEMMA TwoWrites ==
    ASSUME NEW action, NEW ports, NEW v \in Writes, NEW w \in Writes,
           Toward(action, v), Toward(action, w),
           v.register # "reread", w.register \notin {"reread", "refused"},
           action \notin Scr!Whole /\ ports # {} =>
                /\ v.register # "display" /\ v.parts \subseteq ports
                /\ w.register # "display" /\ w.parts \subseteq ports
    PROVE  Fits(action, ports, <<v, w>>)
<1>1. /\ <<v, w>> \in Seq(Writes) /\ DOMAIN <<v, w>> = {1, 2}
      /\ <<v, w>>[1] = v /\ <<v, w>>[2] = w
  OBVIOUS
<1> QED
  BY <1>1 DEF Fits

\* A write by its register, its value and the parts it is for.
LEMMA PutIsAWrite ==
    ASSUME NEW register_name \in Register, NEW v \in Value, NEW parts \in SUBSET Part
    PROVE  /\ Scr!Put(register_name, v, parts) \in Writes
           /\ Scr!Put(register_name, v, parts).register = register_name
           /\ Scr!Put(register_name, v, parts).value = v
           /\ Scr!Put(register_name, v, parts).parts = parts
BY DEF Scr!Put, Writes

LEMMA ValuesAre ==
    /\ TRUE \in Value /\ FALSE \in Value /\ 0 \in Value /\ 1 \in Value /\ 2 \in Value
    /\ Scr!Mode \subseteq Value /\ \A b \in BOOLEAN : b \in Value
BY DEF Value

\* On the cards of some parts: both registers of a mode, or the one of the rest.
LEMMA CardWritesFit ==
    ASSUME NEW action \in Scr!Action \ Scr!Whole, NEW parts \in SUBSET Part
    PROVE  LET s == Scr!CardWrites(action, parts)
           IN  /\ Fits(action, {}, s) /\ ~Refuses(s)
               /\ Len(s) = IF action \in Scr!Mode THEN 2 ELSE 1
               /\ \A j \in DOMAIN s :
                     s[j].parts = parts /\ s[j].register \notin {"display", "refused"}
               /\ action \in Scr!Mode => s[1].register = "kill" /\ s[2].register = "lock"
<1> DEFINE s == Scr!CardWrites(action, parts)
<1>1. CASE action \in Scr!Mode
  <2> DEFINE black == action = "blackout"
             frozen == action = "freeze"
             v == Scr!Put("kill", black, parts)
             w == Scr!Put("lock", frozen, parts)
  <2>1. s = <<v, w>>
    BY <1>1 DEF Scr!CardWrites, Scr!Mode
  <2>2. black \in BOOLEAN /\ frozen \in BOOLEAN
    OBVIOUS
  <2>3. black = (action = "blackout") /\ frozen = (action = "freeze")
    OBVIOUS
  <2>4. black \in Value /\ frozen \in Value
    BY <2>2, ValuesAre
  <2>5. "kill" \in Register /\ "lock" \in Register
    BY DEF Register
  <2> HIDE DEF black, frozen
  <2>6. v \in Writes /\ v.register = "kill" /\ v.parts = parts /\ v.value = black
    BY <2>4, <2>5, PutIsAWrite
  <2>7. w \in Writes /\ w.register = "lock" /\ w.parts = parts /\ w.value = frozen
    BY <2>4, <2>5, PutIsAWrite
  <2> HIDE DEF v, w, s
  <2>8. Toward(action, v) /\ Toward(action, w)
    BY <2>3, <2>6, <2>7 DEF Toward
  <2>9. Fits(action, {}, s)
    BY <2>1, <2>6, <2>7, <2>8, TwoWrites
  <2>10. DOMAIN s = {1, 2} /\ Len(s) = 2 /\ s[1] = v /\ s[2] = w
    BY <2>1
  <2>11. action \in Scr!Mode => s[1].register = "kill" /\ s[2].register = "lock"
    BY <2>6, <2>7, <2>10
  <2>12. \A j \in DOMAIN s : s[j].parts = parts /\ s[j].register \notin {"display", "refused"}
    BY <2>6, <2>7, <2>10
  <2>13. ~Refuses(s)
    BY <2>6, <2>10 DEF Refuses
  <2> QED
    BY <1>1, <2>9, <2>10, <2>11, <2>12, <2>13 DEF s
<1>2. CASE action = "brightness"
  <2> DEFINE w == Scr!Put("brightness", 1, parts)
  <2>1. s = <<w>>
    BY <1>2 DEF Scr!CardWrites, Scr!Mode
  <2>2. w \in Writes /\ w.register = "brightness" /\ w.parts = parts /\ w.value = 1
    BY ValuesAre, PutIsAWrite DEF Register
  <2> HIDE DEF w, s
  <2>3. Toward(action, w)
    BY <2>2 DEF Toward
  <2>4. Fits(action, {}, s)
    BY <2>1, <2>2, <2>3, OneWrite
  <2> QED
    BY <1>2, <2>1, <2>2, <2>4 DEF s, Refuses, Scr!Mode
<1>3. CASE action = "test_pattern"
  <2> DEFINE w == Scr!Put("pattern", 1, parts)
  <2>1. s = <<w>>
    BY <1>3 DEF Scr!CardWrites, Scr!Mode
  <2>2. w \in Writes /\ w.register = "pattern" /\ w.parts = parts /\ w.value = 1
    BY ValuesAre, PutIsAWrite DEF Register
  <2> HIDE DEF w, s
  <2>3. Toward(action, w)
    BY <2>2 DEF Toward
  <2>4. Fits(action, {}, s)
    BY <2>1, <2>2, <2>3, OneWrite
  <2> QED
    BY <1>3, <2>1, <2>2, <2>4 DEF s, Refuses, Scr!Mode
<1> QED
  BY <1>1, <1>2, <1>3 DEF Scr!Action, Scr!Whole

\* A port has its turn among the ports: as many are lower as its place says.
LEMMA RankIsWithin ==
    ASSUME NEW ports \in SUBSET Nat, IsFiniteSet(ports), NEW p \in ports
    PROVE  Cardinality({r \in ports : r < p}) \in 0..(Cardinality(ports) - 1)
<1> DEFINE lower == {r \in ports : r < p}
<1>1. lower \in SUBSET ports /\ p \notin lower
  OBVIOUS
<1> HIDE DEF lower
<1>2. IsFiniteSet(lower) /\ Cardinality(lower) <= Cardinality(ports)
      /\ Cardinality(lower) # Cardinality(ports)
  BY <1>1, FS_Subset
<1>3. Cardinality(lower) \in Nat /\ Cardinality(ports) \in Nat
  BY <1>2, FS_CardinalityType
<1>4. Cardinality(lower) \in 0..(Cardinality(ports) - 1)
  BY <1>2, <1>3
<1> QED
  BY <1>4 DEF lower

\* The i-th of some ports is one of them, and every one is the i-th for its rank.
LEMMA NthPortIsAPort ==
    ASSUME NEW ports \in SUBSET Nat, IsFiniteSet(ports)
    PROVE  /\ \A i : Scr!nth_port(ports, i) \subseteq ports
           /\ \A p \in ports : \E i \in 1..Cardinality(ports) : p \in Scr!nth_port(ports, i)
<1>1. \A i : Scr!nth_port(ports, i) \subseteq ports
  BY DEF Scr!nth_port, Scr!all_on_port
<1>2. ASSUME NEW p \in ports
      PROVE  \E i \in 1..Cardinality(ports) : p \in Scr!nth_port(ports, i)
  <2> DEFINE rank == Cardinality({r \in ports : r < p})
  <2>1. rank \in 0..(Cardinality(ports) - 1) /\ Cardinality(ports) \in Nat
    BY RankIsWithin, FS_CardinalityType
  <2>2. Scr!Cardinality({r \in ports : r < p}) = rank
    BY CountsAgree
  <2> HIDE DEF rank
  <2>3. (rank + 1) - 1 = rank /\ rank + 1 \in 1..Cardinality(ports)
    BY <2>1
  <2>4. p \in Scr!all_on_port(p)
    BY DEF Scr!all_on_port
  <2>5. p \in {q \in ports : Scr!Cardinality({r \in ports : r < q}) = (rank + 1) - 1}
    BY <2>2, <2>3
  <2>6. p \in Scr!nth_port(ports, rank + 1)
    BY <2>4, <2>5 DEF Scr!nth_port
  <2> QED
    BY <2>3, <2>6
<1> QED
  BY <1>1, <1>2

LEMMA DivisionIs ==
    ASSUME NEW each \in {1, 2}, NEW n \in Nat
    PROVE  /\ each * n \in Nat
           /\ \A k \in 1..(each * n) : ((k - 1) % each) + 1 \in 1..each
           /\ \A i \in 1..n, x \in 1..each :
                 /\ each * (i - 1) + x \in 1..(each * n)
                 /\ (((each * (i - 1) + x) - 1) \div each) + 1 = i
                 /\ (((each * (i - 1) + x) - 1) % each) + 1 = x
<1>1. CASE each = 1
  BY <1>1
<1>2. CASE each = 2
  <2>1. 2 * n \in Nat /\ \A k \in 1..(2 * n) : ((k - 1) % 2) + 1 \in 1..2
    OBVIOUS
  <2>2. ASSUME NEW i \in 1..n PROVE /\ 2 * (i - 1) + 1 \in 1..(2 * n)
                                    /\ 2 * (i - 1) + 2 \in 1..(2 * n)
    OBVIOUS
  <2>3. ASSUME NEW i \in 1..n PROVE /\ ((2 * (i - 1) + 1) - 1) \div 2 = i - 1
                                    /\ ((2 * (i - 1) + 2) - 1) \div 2 = i - 1
                                    /\ ((2 * (i - 1) + 1) - 1) % 2 = 0
                                    /\ ((2 * (i - 1) + 2) - 1) % 2 = 1
    OBVIOUS
  <2>4. ASSUME NEW i \in 1..n, NEW x \in 1..2
        PROVE  /\ 2 * (i - 1) + x \in 1..(2 * n)
               /\ (((2 * (i - 1) + x) - 1) \div 2) + 1 = i
               /\ (((2 * (i - 1) + x) - 1) % 2) + 1 = x
    <3>1. CASE x = 1
      BY <3>1, <2>2, <2>3
    <3>2. CASE x = 2
      BY <3>2, <2>2, <2>3
    <3> QED
      BY <3>1, <3>2
  <2> QED
    BY <1>2, <2>1, <2>4
<1> QED
  BY <1>1, <1>2

\* Port after port: the writes are for the ports alone, and reach each of them.
LEMMA PortWritesFit ==
    ASSUME NEW d \in Device, NEW m \in Members, m.ports # {},
           NEW action \in Scr!Action \ Scr!Whole
    PROVE  LET s == Scr!PortWrites(d, action, m.ports)
           IN  /\ Fits(action, m.ports, s)
               /\ Refuses(s) \/ Covers(action, m, s)
<1> DEFINE ports == m.ports
           s == Scr!PortWrites(d, action, ports)
           each == Len(Scr!CardWrites(action, {}))
           n == Cardinality(ports)
           C(i) == Scr!CardWrites(action, Scr!nth_port(ports, i))
<1>1. ports \in SUBSET Nat /\ IsFiniteSet(ports) /\ n \in Nat /\ ports # {}
  BY WallsAreOfMembers, FS_CardinalityType
<1>2. CASE Path[d] = "coex" \/ ~(ports \subseteq Part)
  <2> DEFINE w == Scr!Put("refused", 0, {})
  <2>1. s = <<w>>
    BY <1>2 DEF Scr!PortWrites, Scr!Refused
  <2>2. w \in Writes /\ w.register = "refused" /\ w.parts = {}
    BY ValuesAre, PutIsAWrite DEF Register
  <2> HIDE DEF w, s
  <2>3. Toward(action, w)
    BY <2>2 DEF Toward
  <2>4. Fits(action, ports, s)
    BY <2>1, <2>2, <2>3, OneWrite
  <2>5. Refuses(s)
    BY <2>1, <2>2 DEF Refuses
  <2> QED
    BY <2>4, <2>5 DEF s
<1>3. CASE Path[d] # "coex" /\ ports \subseteq Part
  <2>1. each = (IF action \in Scr!Mode THEN 2 ELSE 1) /\ each \in {1, 2}
    BY CardWritesFit
  <2>2. s = [k \in 1..each * n |-> C(((k - 1) \div each) + 1)[((k - 1) % each) + 1]]
    BY <1>3, CountsAgree DEF Scr!PortWrites
  <2>3. \A i : Scr!nth_port(ports, i) \in SUBSET Part /\ Scr!nth_port(ports, i) \subseteq ports
    BY <1>1, <1>3, NthPortIsAPort
  <2>4. ASSUME NEW i
        PROVE  /\ \A x \in 1..each : /\ C(i)[x] \in Writes /\ Toward(action, C(i)[x])
                                     /\ C(i)[x].parts = Scr!nth_port(ports, i)
                                     /\ C(i)[x].register \notin {"reread", "display", "refused"}
               /\ action \in Scr!Mode => C(i)[1].register = "kill" /\ C(i)[2].register = "lock"
    <3> DEFINE some == Scr!nth_port(ports, i)
    <3>1. some \in SUBSET Part
      BY <2>3
    <3> HIDE DEF some
    <3> DEFINE t == Scr!CardWrites(action, some)
    <3>2. /\ Fits(action, {}, t) /\ Len(t) = each
          /\ \A j \in DOMAIN t : t[j].parts = some /\ t[j].register \notin {"display", "refused"}
          /\ action \in Scr!Mode => t[1].register = "kill" /\ t[2].register = "lock"
      BY <2>1, <3>1, CardWritesFit
    <3> HIDE DEF t, each
    <3>3. t \in Seq(Writes) /\ DOMAIN t = 1..each
      BY <3>2 DEF Fits
    <3>4. \A x \in 1..each : /\ t[x] \in Writes /\ Toward(action, t[x]) /\ t[x].parts = some
                             /\ t[x].register \notin {"reread", "display", "refused"}
      <4>1. ASSUME NEW x \in 1..each PROVE t[x] \in Writes
        BY <2>1, <3>3
      <4> QED
        BY <3>2, <3>3, <4>1 DEF Fits
    <3>5. C(i) = t
      BY DEF t, some
    <3> HIDE DEF C
    <3> QED
      BY <3>2, <3>3, <3>4, <3>5 DEF some
  <2> HIDE DEF C, each, s, n
  <2>5. each * n \in Nat
    BY <1>1, <2>1, DivisionIs
  <2>6. ASSUME NEW k \in 1..(each * n)
        PROVE  /\ s[k] \in Writes /\ Toward(action, s[k]) /\ s[k].parts \subseteq ports
               /\ s[k].register \notin {"reread", "display", "refused"}
    <3> DEFINE i == ((k - 1) \div each) + 1
               x == ((k - 1) % each) + 1
    <3>1. x \in 1..each
      BY <1>1, <2>1, DivisionIs
    <3>2. s[k] = C(i)[x]
      BY <2>2
    <3> HIDE DEF i, x
    <3>3. C(i)[x] \in Writes
      BY <2>4, <3>1
    <3> QED
      BY <2>3, <2>4, <3>1, <3>2, <3>3
  <2>7. s \in Seq(Writes) /\ DOMAIN s = 1..(each * n)
    <3>1. DOMAIN s = 1..(each * n)
      BY <2>2
    <3>2. s \in [1..(each * n) -> Writes]
      BY <2>2, <2>6, <3>1
    <3> QED
      BY <2>5, <3>1, <3>2
  <2>8. Fits(action, ports, s)
    BY <2>6, <2>7 DEF Fits
  <2>9. Covers(action, m, s)
    <3>1. ASSUME action \in Scr!Mode, NEW p \in ports
          PROVE  /\ \E j \in DOMAIN s : s[j].register = "kill" /\ p \in s[j].parts
                 /\ \E j \in DOMAIN s : s[j].register = "lock" /\ p \in s[j].parts
      <4>1. PICK i \in 1..n : p \in Scr!nth_port(ports, i)
        BY <1>1, NthPortIsAPort DEF n
      <4>2. each = 2 /\ 1 \in 1..each /\ 2 \in 1..each
        BY <2>1, <3>1
      <4>3. ASSUME NEW x \in 1..each
            PROVE  each * (i - 1) + x \in DOMAIN s /\ s[each * (i - 1) + x] = C(i)[x]
        <5> DEFINE k == each * (i - 1) + x
        <5>1. k \in 1..(each * n) /\ ((k - 1) \div each) + 1 = i /\ ((k - 1) % each) + 1 = x
          BY <1>1, <2>1, DivisionIs
        <5> HIDE DEF k
        <5>2. k \in DOMAIN s /\ s[k] = C(i)[x]
          BY <2>2, <5>1
        <5> QED
          BY <5>2 DEF k
      <4>4. /\ C(i)[1].register = "kill" /\ p \in C(i)[1].parts
            /\ C(i)[2].register = "lock" /\ p \in C(i)[2].parts
        BY <2>4, <3>1, <4>1, <4>2
      <4> QED
        BY <4>2, <4>3, <4>4
    <3>2. action # "select_input" /\ Scope(m) = ports /\ ~ByDisplay(m)
      BY <1>1 DEF Scr!Whole, Scope, ByDisplay
    <3> HIDE DEF ports
    <3> QED
      BY <1>3, <3>1, <3>2 DEF Covers
  <2> QED
    BY <2>8, <2>9 DEF s
<1> QED
  BY <1>2, <1>3

-----------------------------------------------------------------------------
(* Driving a screen: what a member is sent                                   *)

\* Without ports, a device's own display register or the cards of all its parts.
LEMMA WholeWritesFit ==
    ASSUME NEW d \in Device, NEW m \in Members, m.ports = {}, m.address = d,
           NEW action \in Scr!Action \ Scr!Whole
    PROVE  LET s == Scr!dispatch(d, action, {})
           IN  Fits(action, {}, s) /\ (Refuses(s) \/ Covers(action, m, s))
<1> DEFINE s == Scr!dispatch(d, action, {})
<1>1. Part \in SUBSET Part /\ Scope(m) = Part /\ (ByDisplay(m) <=> Path[d] # "cards")
  BY DEF Scope, ByDisplay
<1>2. action # "select_input"
  BY DEF Scr!Whole
<1>3. CASE s = Scr!CardWrites(action, Part) /\ (action \in Scr!Mode => Path[d] = "cards")
  <2> DEFINE t == Scr!CardWrites(action, Part)
  <2>1. /\ Fits(action, {}, t)
        /\ Len(t) = IF action \in Scr!Mode THEN 2 ELSE 1
        /\ \A j \in DOMAIN t : t[j].parts = Part
        /\ action \in Scr!Mode => t[1].register = "kill" /\ t[2].register = "lock"
    BY <1>1, CardWritesFit
  <2> HIDE DEF t
  <2>2. t \in Seq(Writes)
    BY <2>1 DEF Fits
  <2>3. action \in Scr!Mode => 1 \in DOMAIN t /\ 2 \in DOMAIN t
    BY <2>1, <2>2
  <2>4. Covers(action, m, t)
    BY <1>1, <1>2, <1>3, <2>1, <2>3 DEF Covers
  <2> QED
    BY <1>3, <2>1, <2>4 DEF t
<1>4. CASE action \in Scr!Mode /\ Path[d] # "cards"
  <2> DEFINE w == Scr!Put("display", action, {})
  <2>1. s = <<w>>
    BY <1>4 DEF Scr!dispatch, Scr!set_display_mode, Scr!Mode
  <2>2. w \in Writes /\ w.register = "display" /\ w.value = action /\ w.parts = {}
    BY <1>4, ValuesAre, PutIsAWrite DEF Register
  <2> HIDE DEF w, s
  <2>3. Toward(action, w)
    BY <1>4, <2>2 DEF Toward
  <2>4. Fits(action, {}, s)
    BY <2>1, <2>2, <2>3, OneWrite
  <2>5. 1 \in DOMAIN s /\ s[1].register = "display"
    BY <2>1, <2>2
  <2>6. Covers(action, m, s)
    BY <1>1, <1>2, <1>4, <2>5 DEF Covers
  <2> QED
    BY <2>4, <2>6 DEF s
<1>5. CASE action = "brightness" /\ Path[d] = "coex"
  <2> DEFINE v == Scr!Put("screens", 0, {})
             w == Scr!Put("brightness", 1, Part)
  <2>1. s = <<v, w>>
    BY <1>5 DEF Scr!dispatch, Scr!set_brightness, Scr!Whole, Scr!Mode
  <2>2. /\ v \in Writes /\ v.register = "screens" /\ v.parts = {}
        /\ w \in Writes /\ w.register = "brightness" /\ w.value = 1 /\ w.parts = Part
    BY <1>1, ValuesAre, PutIsAWrite DEF Register
  <2> HIDE DEF v, w, s
  <2>3. Toward(action, v) /\ Toward(action, w)
    BY <2>2 DEF Toward
  <2>4. Fits(action, {}, s)
    BY <2>1, <2>2, <2>3, TwoWrites
  <2>5. Covers(action, m, s)
    BY <1>2, <1>5 DEF Covers, Scr!Mode
  <2> QED
    BY <2>4, <2>5 DEF s
<1>6. CASE action = "test_pattern" /\ Path[d] = "coex"
  <2> DEFINE w == Scr!Put("refused", 0, {})
  <2>1. s = <<w>>
    BY <1>6 DEF Scr!dispatch, Scr!set_test_pattern, Scr!Refused, Scr!Whole, Scr!Mode
  <2>2. w \in Writes /\ w.register = "refused" /\ w.parts = {}
    BY ValuesAre, PutIsAWrite DEF Register
  <2> HIDE DEF w, s
  <2>3. Toward(action, w)
    BY <2>2 DEF Toward
  <2>4. Fits(action, {}, s) /\ Refuses(s)
    BY <2>1, <2>2, <2>3, OneWrite DEF Refuses
  <2> QED
    BY <2>4 DEF s
<1>7. CASE action \in Scr!Mode /\ Path[d] = "cards"
  <2>1. s = Scr!CardWrites(action, Part)
    BY <1>7 DEF Scr!dispatch, Scr!set_display_mode, Scr!Mode
  <2> QED
    BY <1>3, <1>7, <2>1
<1>8. CASE action = "brightness" /\ Path[d] # "coex"
  <2>1. s = Scr!CardWrites(action, Part)
    BY <1>8 DEF Scr!dispatch, Scr!set_brightness, Scr!Whole, Scr!Mode
  <2> QED
    BY <1>3, <1>8, <2>1 DEF Scr!Mode
<1>9. CASE action = "test_pattern" /\ Path[d] # "coex"
  <2>1. s = Scr!CardWrites(action, Part)
    BY <1>9 DEF Scr!dispatch, Scr!set_test_pattern, Scr!Whole, Scr!Mode
  <2> QED
    BY <1>3, <1>9, <2>1 DEF Scr!Mode
<1> QED
  BY <1>4, <1>5, <1>6, <1>7, <1>8, <1>9 DEF Scr!Action, Scr!Whole

\* The actions that know of no ports.
LEMMA PanelWritesFit ==
    ASSUME NEW d \in Device, NEW m \in Members, NEW action \in Scr!Whole
    PROVE  LET s == Scr!dispatch(d, action, m.ports)
           IN  Fits(action, m.ports, s) /\ (Refuses(s) \/ Covers(action, m, s))
<1> DEFINE s == Scr!dispatch(d, action, m.ports)
           refused == Scr!Put("refused", 0, {})
<1>1. action \notin Scr!Mode /\ Path[d] \in {"coex", "level", "cards"}
  BY ScrAssumed DEF Scr!Whole, Scr!Mode
<1>2. refused \in Writes /\ refused.register = "refused" /\ refused.parts = {}
  BY ValuesAre, PutIsAWrite DEF Register
<1>3. CASE s = <<refused>>
  <2> HIDE DEF refused, s
  <2>1. Toward(action, refused)
    BY <1>2 DEF Toward
  <2>2. Fits(action, m.ports, s)
    BY <1>2, <1>3, <2>1, OneWrite
  <2>3. Refuses(s)
    BY <1>2, <1>3 DEF Refuses
  <2> QED
    BY <2>2, <2>3 DEF s
<1>4. CASE action = "apply_preset"
  <2> DEFINE w == Scr!Put("brightness", 2, Part)
  <2>1. s = <<w>>
    BY <1>4 DEF Scr!dispatch, Scr!Whole, Scr!Mode, Scr!apply_preset
  <2>2. w \in Writes /\ w.register = "brightness" /\ w.value = 2
    BY ValuesAre, PutIsAWrite DEF Register
  <2> HIDE DEF w, s
  <2>3. Toward(action, w)
    BY <2>2 DEF Toward
  <2>4. Fits(action, m.ports, s)
    BY <2>1, <2>2, <2>3, OneWrite
  <2>5. Covers(action, m, s)
    BY <1>1, <1>4 DEF Covers
  <2> QED
    BY <2>4, <2>5 DEF s
<1>5. CASE action = "panel_lock" /\ Path[d] = "level"
  <2> DEFINE w == Scr!Put("locked", TRUE, {})
  <2>1. s = <<w>>
    BY <1>5 DEF Scr!dispatch, Scr!Whole, Scr!Mode, Scr!set_panel_lock
  <2>2. w \in Writes /\ w.register = "locked" /\ w.value = TRUE /\ w.parts = {}
    BY DEF Scr!Put, Writes, Register, Value
  <2> HIDE DEF w, s
  <2>3. Toward(action, w)
    BY <2>2 DEF Toward
  <2>4. Fits(action, m.ports, s)
    BY <2>1, <2>2, <2>3, OneWrite
  <2>5. Covers(action, m, s)
    BY <1>1, <1>5 DEF Covers
  <2> QED
    BY <2>4, <2>5 DEF s
<1>6. CASE action = "panel_lock" /\ Path[d] # "level"
  <2>1. s = <<refused>>
    BY <1>6 DEF Scr!dispatch, Scr!Whole, Scr!Mode, Scr!set_panel_lock, Scr!Refused
  <2> QED
    BY <1>3, <2>1
<1>7. CASE action = "select_input"
  <2> DEFINE v == Scr!Put("sources", 0, {})
             w == Scr!Put("input", 1, {})
  <2>1. s = Scr!select_input(d)
    BY <1>7 DEF Scr!dispatch, Scr!Whole, Scr!Mode
  <2>2. s = <<v, w>> \/ s = <<w>> \/ s = <<refused>>
    BY <1>1, <2>1 DEF Scr!select_input, Scr!Refused
  <2>3. /\ v \in Writes /\ v.register = "sources" /\ v.parts = {}
        /\ w \in Writes /\ w.register = "input" /\ w.value = 1 /\ w.parts = {}
    BY ValuesAre, PutIsAWrite DEF Register
  <2> HIDE DEF v, w, s
  <2>4. Toward(action, v) /\ Toward(action, w)
    BY <2>3 DEF Toward
  <2>5. CASE s = <<v, w>>
    <3>1. Fits(action, m.ports, s)
      BY <2>3, <2>4, <2>5, TwoWrites
    <3>2. 2 \in DOMAIN s /\ s[2].register = "input"
      BY <2>3, <2>5
    <3> QED
      BY <1>1, <3>1, <3>2 DEF s, Covers
  <2>6. CASE s = <<w>>
    <3>1. Fits(action, m.ports, s)
      BY <2>3, <2>4, <2>6, OneWrite
    <3>2. 1 \in DOMAIN s /\ s[1].register = "input"
      BY <2>3, <2>6
    <3> QED
      BY <1>1, <3>1, <3>2 DEF s, Covers
  <2> QED
    BY <1>3, <2>2, <2>5, <2>6 DEF s
<1> QED
  BY <1>4, <1>5, <1>6, <1>7 DEF Scr!Whole

\* What a member is sent is toward the action, and reaches all that it names
\* unless nothing is sent.
LEMMA DispatchFits ==
    ASSUME NEW m \in Members, m.address \in Device, NEW action \in Scr!Action
    PROVE  LET s == Scr!dispatch(m.address, action, m.ports)
           IN  Fits(action, m.ports, s) /\ (Refuses(s) \/ Covers(action, m, s))
<1>1. CASE action \in Scr!Whole
  BY <1>1, PanelWritesFit
<1>2. CASE action \notin Scr!Whole /\ m.ports = {}
  BY <1>2, WholeWritesFit
<1>3. CASE action \notin Scr!Whole /\ m.ports # {}
  <2>1. Scr!dispatch(m.address, action, m.ports) = Scr!PortWrites(m.address, action, m.ports)
    BY <1>3 DEF Scr!dispatch, Scr!Whole
  <2> QED
    BY <1>3, <2>1, PortWritesFit
<1> QED
  BY <1>1, <1>2, <1>3

-----------------------------------------------------------------------------
(* Driving a screen: what a write does                                       *)

LEMMA CardExcept ==
    ASSUME NEW c \in Card, NEW v
    PROVE  /\ v \in BOOLEAN =>
                 /\ [c EXCEPT !["kill"] = v] \in Card
                 /\ [c EXCEPT !["kill"] = v].kill = v /\ [c EXCEPT !["kill"] = v].lock = c.lock
                 /\ [c EXCEPT !["lock"] = v] \in Card
                 /\ [c EXCEPT !["lock"] = v].lock = v /\ [c EXCEPT !["lock"] = v].kill = c.kill
           /\ v \in 0..2 =>
                 /\ [c EXCEPT !["brightness"] = v] \in Card
                 /\ [c EXCEPT !["brightness"] = v].kill = c.kill
                 /\ [c EXCEPT !["brightness"] = v].lock = c.lock
           /\ v \in 0..1 =>
                 /\ [c EXCEPT !["pattern"] = v] \in Card
                 /\ [c EXCEPT !["pattern"] = v].kill = c.kill
                 /\ [c EXCEPT !["pattern"] = v].lock = c.lock
BY DEF Card

\* A write toward an action changes only the parts it is for, and of the device
\* only the register it is for.
LEMMA CardValues ==
    ASSUME NEW action, NEW w \in Writes, Toward(action, w), NEW p, p \in w.parts
    PROVE  \/ w.register = "kill" /\ w.value \in BOOLEAN
           \/ w.register = "lock" /\ w.value \in BOOLEAN
           \/ w.register = "brightness" /\ w.value \in 0..2
           \/ w.register = "pattern" /\ w.value \in 0..1
<1> DEFINE black == action = "blackout"
           frozen == action = "freeze"
           v == w.value
<1>1. black \in BOOLEAN /\ frozen \in BOOLEAN
  OBVIOUS
<1>2. \/ w.register = "kill" /\ v = black
      \/ w.register = "lock" /\ v = frozen
      \/ w.register = "brightness" /\ v \in 1..2
      \/ w.register = "pattern" /\ v = 1
  BY DEF Toward
<1> HIDE DEF black, frozen, v
<1>3. \/ w.register = "kill" /\ v \in BOOLEAN
      \/ w.register = "lock" /\ v \in BOOLEAN
      \/ w.register = "brightness" /\ v \in 0..2
      \/ w.register = "pattern" /\ v \in 0..1
  BY <1>1, <1>2
<1> QED
  BY <1>3 DEF v

LEMMA EffectOnCards ==
    ASSUME ScrTyped, NEW w \in Writes, Toward(command.action, w),
           Scr!Member.address \in Device, Scr!Effect(w)
    PROVE  /\ cards' \in [Device -> [Part -> Card]]
           /\ \A e \in Device, p \in Part :
                 ~(e = Scr!Member.address /\ p \in w.parts) => cards'[e][p] = cards[e][p]
           /\ \A p \in Part \cap w.parts :
                 LET d == Scr!Member.address
                 IN  /\ cards'[d][p].kill = IF w.register = "kill" THEN w.value
                                            ELSE cards[d][p].kill
                     /\ cards'[d][p].lock = IF w.register = "lock" THEN w.value
                                            ELSE cards[d][p].lock
<1> DEFINE d == Scr!Member.address
           made(p) == [cards[d][p] EXCEPT ![w.register] = w.value]
           row == [p \in Part |-> IF p \in w.parts THEN made(p) ELSE cards[d][p]]
<1>1. cards \in [Device -> [Part -> Card]] /\ d \in Device
  BY DEF ScrTyped
<1>2. cards' = [cards EXCEPT ![d] = row]
  BY DEF Scr!Effect
<1>3. ASSUME NEW p \in Part, p \in w.parts
      PROVE  /\ made(p) \in Card
             /\ made(p).kill = IF w.register = "kill" THEN w.value ELSE cards[d][p].kill
             /\ made(p).lock = IF w.register = "lock" THEN w.value ELSE cards[d][p].lock
  <2> DEFINE c == cards[d][p]
             v == w.value
  <2>1. c \in Card
    BY <1>1
  <2>2. made(p) = [c EXCEPT ![w.register] = v]
    OBVIOUS
  <2>3. \/ w.register = "kill" /\ v \in BOOLEAN
        \/ w.register = "lock" /\ v \in BOOLEAN
        \/ w.register = "brightness" /\ v \in 0..2
        \/ w.register = "pattern" /\ v \in 0..1
    BY <1>3, CardValues
  <2> HIDE DEF c, v, made
  <2> SUFFICES /\ made(p) \in Card
               /\ made(p).kill = IF w.register = "kill" THEN v ELSE c.kill
               /\ made(p).lock = IF w.register = "lock" THEN v ELSE c.lock
    BY DEF c, v
  <2>4. CASE w.register = "kill" /\ v \in BOOLEAN
    <3>1. made(p) = [c EXCEPT !["kill"] = v]
      BY <2>2, <2>4
    <3>2. /\ [c EXCEPT !["kill"] = v] \in Card
          /\ [c EXCEPT !["kill"] = v].kill = v
          /\ [c EXCEPT !["kill"] = v].lock = c.lock
      BY <2>1, <2>4, CardExcept
    <3> QED
      BY <2>4, <3>1, <3>2
  <2>5. CASE w.register = "lock" /\ v \in BOOLEAN
    <3>1. made(p) = [c EXCEPT !["lock"] = v]
      BY <2>2, <2>5
    <3>2. /\ [c EXCEPT !["lock"] = v] \in Card
          /\ [c EXCEPT !["lock"] = v].kill = c.kill
          /\ [c EXCEPT !["lock"] = v].lock = v
      BY <2>1, <2>5, CardExcept
    <3> QED
      BY <2>5, <3>1, <3>2
  <2>6. CASE w.register = "brightness" /\ v \in 0..2
    <3>1. made(p) = [c EXCEPT !["brightness"] = v]
      BY <2>2, <2>6
    <3>2. /\ [c EXCEPT !["brightness"] = v] \in Card
          /\ [c EXCEPT !["brightness"] = v].kill = c.kill
          /\ [c EXCEPT !["brightness"] = v].lock = c.lock
      BY <2>1, <2>6, CardExcept
    <3> QED
      BY <2>6, <3>1, <3>2
  <2>7. CASE w.register = "pattern" /\ v \in 0..1
    <3>1. made(p) = [c EXCEPT !["pattern"] = v]
      BY <2>2, <2>7
    <3>2. /\ [c EXCEPT !["pattern"] = v] \in Card
          /\ [c EXCEPT !["pattern"] = v].kill = c.kill
          /\ [c EXCEPT !["pattern"] = v].lock = c.lock
      BY <2>1, <2>7, CardExcept
    <3> QED
      BY <2>7, <3>1, <3>2
  <2> QED
    BY <2>4, <2>5, <2>6, <2>7, <2>3
<1> HIDE DEF made
<1>4. row \in [Part -> Card]
  BY <1>1, <1>3
<1>5. \A p \in Part : row[p] = IF p \in w.parts THEN made(p) ELSE cards[d][p]
  OBVIOUS
<1> HIDE DEF row, d
<1>6. cards' \in [Device -> [Part -> Card]]
  BY <1>1, <1>2, <1>4
<1>7. cards'[d] = row /\ \A e \in Device : e # d => cards'[e] = cards[e]
  BY <1>1, <1>2
<1> QED
  BY <1>3, <1>5, <1>6, <1>7 DEF d

LEMMA EffectElsewhere ==
    ASSUME ScrTyped, NEW w \in Writes, Toward(command.action, w),
           Scr!Member.address \in Device, Scr!Effect(w)
    PROVE  /\ display' \in [Device -> Scr!Mode]
           /\ panel' \in [Device -> [input : 0..1, locked : BOOLEAN]]
           /\ paths' \in [Device -> SUBSET {"display", "cards"}]
           /\ \A e \in Device : paths[e] \subseteq paths'[e]
           /\ \A e \in Device :
                 display'[e] = IF e = Scr!Member.address /\ w.register = "display"
                               THEN command.action ELSE display[e]
           /\ \A e \in Device : panel[e].input = 1 => panel'[e].input = 1
           /\ w.register = "input" => panel'[Scr!Member.address].input = 1
           /\ w.register = "display" => "display" \in paths'[Scr!Member.address]
           /\ w.register \in {"kill", "lock"} => "cards" \in paths'[Scr!Member.address]
<1> DEFINE d == Scr!Member.address
           way == IF w.register = "display" THEN {"display"}
                  ELSE IF w.register \in {"kill", "lock"} THEN {"cards"} ELSE {}
<1>1. /\ display \in [Device -> Scr!Mode] /\ d \in Device
      /\ panel \in [Device -> [input : 0..1, locked : BOOLEAN]]
      /\ paths \in [Device -> SUBSET {"display", "cards"}]
  BY DEF ScrTyped
<1>2. /\ display' = IF w.register = "display" THEN [display EXCEPT ![d] = w.value] ELSE display
      /\ panel' = IF w.register \in {"input", "locked"}
                  THEN [panel EXCEPT ![d][w.register] = w.value] ELSE panel
      /\ paths' = [paths EXCEPT ![d] = paths[d] \cup way]
  BY DEF Scr!Effect
<1> HIDE DEF d
<1>3. w.register = "display" => w.value = command.action /\ command.action \in Scr!Mode
  BY DEF Toward
<1>4. /\ display' \in [Device -> Scr!Mode]
      /\ \A e \in Device : display'[e] = IF e = d /\ w.register = "display"
                                         THEN command.action ELSE display[e]
  BY <1>1, <1>2, <1>3
<1>5. /\ panel' \in [Device -> [input : 0..1, locked : BOOLEAN]]
      /\ \A e \in Device : panel[e].input = 1 => panel'[e].input = 1
      /\ w.register = "input" => panel'[d].input = 1
  <2>1. CASE w.register = "input"
    <3>1. w.value = 1
      BY <2>1 DEF Toward
    <3>2. panel' = [panel EXCEPT ![d] = [panel[d] EXCEPT !.input = 1]]
      BY <1>2, <2>1, <3>1
    <3>3. /\ [panel[d] EXCEPT !.input = 1] \in [input : 0..1, locked : BOOLEAN]
          /\ [panel[d] EXCEPT !.input = 1].input = 1
      BY <1>1
    <3> QED
      BY <1>1, <3>2, <3>3
  <2>2. CASE w.register = "locked"
    <3>1. w.value = TRUE
      BY <2>2 DEF Toward
    <3>2. panel' = [panel EXCEPT ![d] = [panel[d] EXCEPT !.locked = TRUE]]
      BY <1>2, <2>2, <3>1
    <3>3. /\ [panel[d] EXCEPT !.locked = TRUE] \in [input : 0..1, locked : BOOLEAN]
          /\ [panel[d] EXCEPT !.locked = TRUE].input = panel[d].input
      BY <1>1
    <3> QED
      BY <1>1, <2>2, <3>2, <3>3
  <2>3. CASE w.register \notin {"input", "locked"}
    BY <1>1, <1>2, <2>3
  <2> QED
    BY <2>1, <2>2, <2>3
<1>6. /\ way \subseteq {"display", "cards"}
      /\ w.register = "display" => "display" \in way
      /\ w.register \in {"kill", "lock"} => "cards" \in way
  OBVIOUS
<1> HIDE DEF way
<1>7. /\ paths' \in [Device -> SUBSET {"display", "cards"}]
      /\ \A e \in Device : paths[e] \subseteq paths'[e]
      /\ way \subseteq paths'[d]
  BY <1>1, <1>2, <1>6
<1> QED
  BY <1>4, <1>5, <1>6, <1>7 DEF d

\* A write toward the action undoes nothing that a member asked for, and does
\* what it is for.
LEMMA EffectKeeps ==
    ASSUME ScrTyped, NEW w \in Writes, Toward(command.action, w),
           Scr!Member.address \in Device, Scr!Effect(w),
           command'.action = command.action,
           NEW m \in Members, m.address \in Device
    PROVE  /\ DisplaySet(m) \/ (w.register = "display" /\ m.address = Scr!Member.address)
                => DisplaySet(m)'
           /\ \A p \in Part :
                 /\ KillSet(m, p) \/ (w.register = "kill" /\ p \in w.parts
                                        /\ m.address = Scr!Member.address)
                       => KillSet(m, p)'
                 /\ LockSet(m, p) \/ (w.register = "lock" /\ p \in w.parts
                                        /\ m.address = Scr!Member.address)
                       => LockSet(m, p)'
           /\ panel[m.address].input = 1
                 \/ (w.register = "input" /\ m.address = Scr!Member.address)
              => panel'[m.address].input = 1
           /\ Done(m) => Done(m)'
<1> DEFINE d == m.address
           black == command.action = "blackout"
           frozen == command.action = "freeze"
<1>1. /\ DisplaySet(m) <=> display[d] = command.action /\ "display" \in paths[d]
      /\ DisplaySet(m)' <=> display'[d] = command.action /\ "display" \in paths'[d]
  BY DEF DisplaySet
<1>2. \A p : /\ KillSet(m, p) <=> cards[d][p].kill = black /\ "cards" \in paths[d]
             /\ LockSet(m, p) <=> cards[d][p].lock = frozen /\ "cards" \in paths[d]
  BY DEF KillSet, LockSet
<1>3. \A p : /\ KillSet(m, p)' <=> cards'[d][p].kill = black /\ "cards" \in paths'[d]
             /\ LockSet(m, p)' <=> cards'[d][p].lock = frozen /\ "cards" \in paths'[d]
  BY DEF KillSet, LockSet
<1>4. /\ w.register = "kill" => w.value = black
      /\ w.register = "lock" => w.value = frozen
  BY DEF Toward
<1> HIDE DEF black, frozen
<1>5. DisplaySet(m) \/ (w.register = "display" /\ d = Scr!Member.address) => DisplaySet(m)'
  BY <1>1, EffectElsewhere
<1>6. ASSUME NEW p \in Part
      PROVE  /\ KillSet(m, p) \/ (w.register = "kill" /\ p \in w.parts /\ d = Scr!Member.address)
                => KillSet(m, p)'
             /\ LockSet(m, p) \/ (w.register = "lock" /\ p \in w.parts /\ d = Scr!Member.address)
                => LockSet(m, p)'
  <2>1. /\ paths[d] \subseteq paths'[d]
        /\ w.register \in {"kill", "lock"} => "cards" \in paths'[Scr!Member.address]
    BY EffectElsewhere
  <2>2. CASE d = Scr!Member.address /\ p \in w.parts
    <3>1. /\ cards'[d][p].kill = IF w.register = "kill" THEN w.value ELSE cards[d][p].kill
          /\ cards'[d][p].lock = IF w.register = "lock" THEN w.value ELSE cards[d][p].lock
      BY <2>2, EffectOnCards
    <3>2. CASE w.register = "kill"
      BY <1>2, <1>3, <1>4, <2>1, <2>2, <3>1, <3>2
    <3>3. CASE w.register = "lock"
      BY <1>2, <1>3, <1>4, <2>1, <2>2, <3>1, <3>3
    <3>4. CASE w.register \notin {"kill", "lock"}
      BY <1>2, <1>3, <2>1, <3>1, <3>4
    <3> QED
      BY <3>2, <3>3, <3>4
  <2>3. CASE ~(d = Scr!Member.address /\ p \in w.parts)
    <3>1. cards'[d][p] = cards[d][p]
      BY <2>3, EffectOnCards
    <3> QED
      BY <1>2, <1>3, <2>1, <2>3, <3>1
  <2> QED
    BY <2>2, <2>3
<1>7. panel[d].input = 1 \/ (w.register = "input" /\ d = Scr!Member.address)
         => panel'[d].input = 1
  BY EffectElsewhere
<1>8. Done(m) => Done(m)'
  <2>1. Scope(m)' = Scope(m) /\ ByDisplay(m)' = ByDisplay(m)
    BY DEF Scope, ByDisplay
  <2> QED
    BY <1>5, <1>6, <1>7, <2>1 DEF Done
<1> QED
  BY <1>5, <1>6, <1>7, <1>8

LEMMA EffectTells ==
    ASSUME ScrTyped, PathsTell, NEW w \in Writes, Toward(command.action, w),
           Scr!Member.address \in Device, Scr!Effect(w)
    PROVE  PathsTell'
<1> DEFINE d == Scr!Member.address
<1>1. ASSUME NEW e \in Device, "display" \notin paths'[e] PROVE display'[e] = "normal"
  BY <1>1, EffectElsewhere DEF PathsTell
<1>2. ASSUME NEW e \in Device, "cards" \notin paths'[e], NEW p \in Part
      PROVE  ~cards'[e][p].kill /\ ~cards'[e][p].lock
  <2>1. "cards" \notin paths[e] /\ (e = d => w.register \notin {"kill", "lock"})
    BY <1>2, EffectElsewhere
  <2>2. ~cards[e][p].kill /\ ~cards[e][p].lock
    BY <2>1 DEF PathsTell
  <2>3. CASE e = d /\ p \in w.parts
    <3>1. cards'[e][p].kill = cards[e][p].kill /\ cards'[e][p].lock = cards[e][p].lock
      BY <2>1, <2>3, EffectOnCards
    <3> QED
      BY <2>2, <3>1
  <2>4. CASE ~(e = d /\ p \in w.parts)
    <3>1. cards'[e][p] = cards[e][p]
      BY <2>4, EffectOnCards
    <3> QED
      BY <2>2, <3>1
  <2> QED
    BY <2>3, <2>4
<1> QED
  BY <1>1, <1>2 DEF PathsTell

-----------------------------------------------------------------------------
(* Driving a screen: every step keeps the invariant                          *)

LEMMA ScrInitHolds == Scr!Init => ScrInv
<1> SUFFICES ASSUME Scr!Init PROVE ScrInv
  OBVIOUS
<1>1. /\ cards = [d \in Device |-> [p \in Part |->
              [kill |-> FALSE, lock |-> FALSE, brightness |-> 0, pattern |-> 0]]]
      /\ display = [d \in Device |-> "normal"]
      /\ panel = [d \in Device |-> [input |-> 0, locked |-> FALSE]]
      /\ connected = [d \in Device |-> FALSE]
      /\ command = [action |-> "none", members |-> <<>>]
      /\ plan = <<>> /\ records = <<>>
      /\ paths = [d \in Device |-> {}]
  BY DEF Scr!Init, Scr!NoCommand
<1>2. /\ [kill |-> FALSE, lock |-> FALSE, brightness |-> 0, pattern |-> 0] \in Card
      /\ "normal" \in Scr!Mode
      /\ [input |-> 0, locked |-> FALSE] \in [input : 0..1, locked : BOOLEAN]
      /\ [action |-> "none", members |-> <<>>] \in
            [action : Scr!Action \cup {"none"}, members : Seq(Members)]
      /\ <<>> \in Seq(Writes) /\ <<>> \in Seq([member : Members, ok : BOOLEAN])
  BY DEF Card, Scr!Mode
<1>3. ScrTyped
  BY <1>1, <1>2 DEF ScrTyped, Scr!Driving
<1>4. PlanIsToward /\ RereadIsLast /\ PlanIsComplete /\ RecordsAreDone
  BY <1>1 DEF PlanIsToward, RereadIsLast, PlanIsComplete, RecordsAreDone
<1>5. PathsTell
  BY <1>1 DEF PathsTell
<1> QED
  BY <1>3, <1>4, <1>5 DEF ScrInv

LEMMA ExecuteScreenStep == ScrInv /\ Scr!ExecuteScreen => ScrInv'
<1> SUFFICES ASSUME ScrInv, Scr!ExecuteScreen PROVE ScrInv'
  OBVIOUS
<1>1. PICK members \in Walls, action \in Scr!Action :
          command' = [action |-> action, members |-> members]
  BY DEF Scr!ExecuteScreen
<1>2. records' = <<>> /\ plan' = <<>> /\ UNCHANGED <<cards, display, panel, connected, paths>>
  BY DEF Scr!ExecuteScreen
<1>3. command' \in [action : Scr!Action \cup {"none"}, members : Seq(Members)]
  BY <1>1, WallsAreOfMembers
<1>4. <<>> \in Seq(Writes) /\ <<>> \in Seq([member : Members, ok : BOOLEAN])
  OBVIOUS
<1>5. ScrTyped'
  <2>1. command'.action \in Scr!Action
    BY <1>1
  <2> QED
    BY <1>2, <1>3, <1>4, <2>1 DEF ScrInv, ScrTyped
<1>6. PlanIsToward' /\ RereadIsLast' /\ PlanIsComplete' /\ RecordsAreDone'
  BY <1>2 DEF PlanIsToward, RereadIsLast, PlanIsComplete, RecordsAreDone
<1>7. PathsTell'
  BY <1>2 DEF ScrInv, PathsTell
<1> QED
  BY <1>5, <1>6, <1>7 DEF ScrInv

\* The end of a member's turn: nothing of its plan is left, and its record is
\* the last one.
LEMMA RecordIs ==
    ASSUME ScrTyped, Scr!Driving, NEW ok \in BOOLEAN, Scr!Record(ok)
    PROVE  /\ command' \in [action : Scr!Action \cup {"none"}, members : Seq(Members)]
           /\ command'.action = command.action
           /\ plan' = <<>> /\ plan' \in Seq(Writes)
           /\ Scr!Member \in Members
           /\ records' \in Seq([member : Members, ok : BOOLEAN])
           /\ DOMAIN records' = 1..(Len(records) + 1)
           /\ \A i \in 1..Len(records) : records'[i] = records[i] /\ i \in DOMAIN records
           /\ records'[Len(records) + 1] = [member |-> Scr!Member, ok |-> ok]
<1>1. /\ command \in [action : Scr!Action \cup {"none"}, members : Seq(Members)]
      /\ command.members \in Seq(Members) /\ command.members # <<>>
      /\ records \in Seq([member : Members, ok : BOOLEAN])
  BY DEF ScrTyped, Scr!Driving
<1>2. Scr!Member \in Members /\ Tail(command.members) \in Seq(Members)
  BY <1>1, HeadTailProperties DEF Scr!Member
<1>3. command' = [command EXCEPT !.members = Tail(command.members)]
  BY DEF Scr!Record
<1>4. /\ command' \in [action : Scr!Action \cup {"none"}, members : Seq(Members)]
      /\ command'.action = command.action
  BY <1>1, <1>2, <1>3
<1> DEFINE r == [member |-> Scr!Member, ok |-> ok]
<1>5. r \in [member : Members, ok : BOOLEAN] /\ records' = Append(records, r)
  BY <1>2 DEF Scr!Record
<1> HIDE DEF r
<1>6. /\ records' \in Seq([member : Members, ok : BOOLEAN])
      /\ Len(records') = Len(records) + 1
      /\ \A i \in 1..Len(records) : records'[i] = records[i]
      /\ records'[Len(records) + 1] = r
  BY <1>1, <1>5, AppendProperties
<1>7. DOMAIN records' = 1..(Len(records) + 1) /\ DOMAIN records = 1..Len(records)
  BY <1>1, <1>6
<1>8. plan' = <<>> /\ plan' \in Seq(Writes)
  BY DEF Scr!Record
<1> QED
  BY <1>2, <1>4, <1>6, <1>7, <1>8 DEF r

\* A turn that ends with what was done before still done keeps the invariant.
LEMMA TurnEnds ==
    ASSUME ScrInv, Scr!Driving, NEW ok \in BOOLEAN, Scr!Record(ok),
           /\ cards' \in [Device -> [Part -> Card]]
           /\ display' \in [Device -> Scr!Mode]
           /\ panel' \in [Device -> [input : 0..1, locked : BOOLEAN]]
           /\ paths' \in [Device -> SUBSET {"display", "cards"}]
           /\ connected' \in [Device -> BOOLEAN],
           PathsTell',
           \A m \in Members : m.address \in Device /\ Done(m) => Done(m)',
           \A m \in Members : m = Scr!Member /\ ok => m.address \in Device /\ Done(m)'
    PROVE  ScrInv'
<1>1. ScrTyped'
  BY RecordIs DEF ScrInv, ScrTyped
<1>2. PlanIsToward' /\ RereadIsLast' /\ PlanIsComplete'
  <2>1. plan' = <<>>
    BY RecordIs DEF ScrInv
  <2> QED
    BY <2>1 DEF PlanIsToward, RereadIsLast, PlanIsComplete
<1>3. ASSUME NEW i \in DOMAIN records', records'[i].ok
      PROVE  (records[i].member.address \in Device /\ Done(records[i].member))'
  <2>1. /\ DOMAIN records' = 1..(Len(records) + 1) /\ Len(records) \in Nat
        /\ \A j \in 1..Len(records) : records'[j] = records[j] /\ j \in DOMAIN records
        /\ records'[Len(records) + 1] = [member |-> Scr!Member, ok |-> ok]
        /\ Scr!Member \in Members
    BY RecordIs DEF ScrInv, ScrTyped
  <2>2. CASE i = Len(records) + 1
    <3>1. PICK m \in Members : m = Scr!Member
      BY <2>1
    <3>2. records'[i].member = m /\ ok
      BY <1>3, <2>1, <2>2, <3>1
    <3>3. m.address \in Device /\ Done(m)'
      BY <3>1, <3>2
    <3> QED
      BY <3>2, <3>3 DEF Done, Scope, ByDisplay, DisplaySet, KillSet, LockSet
  <2>3. CASE i \in 1..Len(records)
    <3>1. records'[i] = records[i] /\ i \in DOMAIN records
      BY <2>1, <2>3
    <3>2. records[i].member \in Members
      <4>1. records \in Seq([member : Members, ok : BOOLEAN])
        BY DEF ScrInv, ScrTyped
      <4>2. i \in 1..Len(records)
        BY <2>3
      <4>3. records[i] \in [member : Members, ok : BOOLEAN]
        BY <4>1, <4>2, ElementOfSeq
      <4> QED
        BY <4>3
    <3>3. PICK m \in Members : m = records[i].member
      BY <3>2
    <3>4. m.address \in Device /\ Done(m)
      BY <1>3, <3>1, <3>3
         DEF ScrInv, RecordsAreDone, Done, Scope, ByDisplay, DisplaySet, KillSet, LockSet
    <3>5. Done(m)' /\ records'[i].member = m
      BY <3>1, <3>3, <3>4
    <3> QED
      BY <3>4, <3>5 DEF Done, Scope, ByDisplay, DisplaySet, KillSet, LockSet
  <2> QED
    BY <2>1, <2>2, <2>3
<1>4. RecordsAreDone'
  BY <1>3 DEF RecordsAreDone
<1> QED
  BY <1>1, <1>2, <1>4 DEF ScrInv

LEMMA NothingHappens ==
    ASSUME ScrInv, UNCHANGED <<cards, display, panel, paths>>,
           command'.action = command.action
    PROVE  /\ cards' \in [Device -> [Part -> Card]]
           /\ display' \in [Device -> Scr!Mode]
           /\ panel' \in [Device -> [input : 0..1, locked : BOOLEAN]]
           /\ paths' \in [Device -> SUBSET {"display", "cards"}]
           /\ PathsTell'
           /\ \A m \in Members : Done(m) => Done(m)'
<1>1. ScrTyped /\ PathsTell
  BY DEF ScrInv
<1>2. PathsTell'
  BY <1>1 DEF PathsTell
<1>3. \A m \in Members : Done(m) => Done(m)'
  BY DEF Done, Scope, ByDisplay, DisplaySet, KillSet, LockSet
<1> QED
  BY <1>1, <1>2, <1>3 DEF ScrTyped

LEMMA SomethingHappens ==
    ASSUME ScrInv, Scr!Sending, Scr!Effect(Head(plan)),
           command'.action = command.action
    PROVE  /\ cards' \in [Device -> [Part -> Card]]
           /\ display' \in [Device -> Scr!Mode]
           /\ panel' \in [Device -> [input : 0..1, locked : BOOLEAN]]
           /\ paths' \in [Device -> SUBSET {"display", "cards"}]
           /\ PathsTell'
           /\ \A m \in Members : m.address \in Device /\ Done(m) => Done(m)'
<1>1. /\ ScrTyped /\ PathsTell /\ plan # <<>> /\ plan \in Seq(Writes)
      /\ Scr!Member.address \in Device
  BY DEF ScrInv, ScrTyped, Scr!Sending
<1>2. 1 \in DOMAIN plan /\ Head(plan) = plan[1] /\ plan[1] \in Writes
  BY <1>1
<1>3. Toward(command.action, plan[1])
  BY <1>2 DEF ScrInv, PlanIsToward
<1> DEFINE w == plan[1]
<1>4. w \in Writes /\ Toward(command.action, w) /\ Scr!Effect(w)
  BY <1>2, <1>3
<1> HIDE DEF w
<1>5. PathsTell'
  BY <1>1, <1>4, EffectTells
<1>6. \A m \in Members : m.address \in Device /\ Done(m) => Done(m)'
  BY <1>1, <1>4, EffectKeeps
<1>7. cards' \in [Device -> [Part -> Card]]
  BY <1>1, <1>4, EffectOnCards
<1>8. /\ display' \in [Device -> Scr!Mode]
      /\ panel' \in [Device -> [input : 0..1, locked : BOOLEAN]]
      /\ paths' \in [Device -> SUBSET {"display", "cards"}]
  BY <1>1, <1>4, EffectElsewhere
<1> QED
  BY <1>5, <1>6, <1>7, <1>8

LEMMA UnknownDeviceStep == ScrInv /\ Scr!UnknownDevice => ScrInv'
<1> SUFFICES ASSUME ScrInv, Scr!UnknownDevice PROVE ScrInv'
  OBVIOUS
<1>1. /\ Scr!Driving /\ Scr!Record(FALSE) /\ ScrTyped
      /\ UNCHANGED <<cards, display, panel, connected, paths>>
  BY DEF Scr!UnknownDevice, ScrInv
<1>2. command'.action = command.action /\ connected' \in [Device -> BOOLEAN]
  BY <1>1, RecordIs DEF ScrTyped
<1> QED
  BY <1>1, <1>2, NothingHappens, TurnEnds

LEMMA WriteFailsStep == ScrInv /\ (Scr!WriteRefused \/ Scr!WriteLost) => ScrInv'
<1> SUFFICES ASSUME ScrInv, Scr!WriteRefused \/ Scr!WriteLost PROVE ScrInv'
  OBVIOUS
<1>1. /\ Scr!Sending /\ Scr!Record(FALSE) /\ Scr!Driving /\ ScrTyped
      /\ Scr!Effect(Head(plan)) \/ Scr!NoEffect
      /\ \/ UNCHANGED connected
         \/ connected' = [connected EXCEPT ![Scr!Member.address] = FALSE]
  BY DEF Scr!WriteRefused, Scr!WriteLost, Scr!Sending, ScrInv
<1>2. command'.action = command.action /\ connected' \in [Device -> BOOLEAN]
  BY <1>1, RecordIs DEF ScrTyped
<1>3. CASE Scr!Effect(Head(plan))
  BY <1>1, <1>2, <1>3, SomethingHappens, TurnEnds
<1>4. CASE Scr!NoEffect
  <2>1. UNCHANGED <<cards, display, panel, paths>>
    BY <1>4 DEF Scr!NoEffect
  <2> QED
    BY <1>1, <1>2, <2>1, NothingHappens, TurnEnds
<1> QED
  BY <1>1, <1>3, <1>4

LEMMA NotSentStep == ScrInv /\ Scr!NotSent => ScrInv'
<1> SUFFICES ASSUME ScrInv, Scr!NotSent PROVE ScrInv'
  OBVIOUS
<1>1. /\ Scr!Driving /\ Scr!Record(FALSE) /\ ScrTyped
      /\ UNCHANGED <<cards, display, panel, connected, paths>>
  BY DEF Scr!NotSent, ScrInv
<1>2. command'.action = command.action /\ connected' \in [Device -> BOOLEAN]
  BY <1>1, RecordIs DEF ScrTyped
<1> QED
  BY <1>1, <1>2, NothingHappens, TurnEnds

\* When the reading is reached nothing is left to write: the member is done.
LEMMA RereadStep == ScrInv /\ Scr!Reread => ScrInv'
<1> SUFFICES ASSUME ScrInv, Scr!Reread PROVE ScrInv'
  OBVIOUS
<1>1. /\ Scr!Driving /\ Scr!Record(TRUE) /\ ScrTyped
      /\ plan # <<>> /\ Head(plan).register = "reread"
      /\ UNCHANGED <<cards, display, panel, connected, paths>>
  BY DEF Scr!Reread, ScrInv
<1>2. command'.action = command.action /\ connected' \in [Device -> BOOLEAN]
  BY <1>1, RecordIs DEF ScrTyped
<1>3. DOMAIN plan = {1} /\ plan[1].register = "reread" /\ Scr!Member.address \in Device
  <2>1. plan \in Seq(Writes) /\ 1 \in DOMAIN plan /\ Head(plan) = plan[1]
    BY <1>1 DEF ScrTyped
  <2>2. 1 = Len(plan)
    BY <1>1, <2>1 DEF ScrInv, RereadIsLast
  <2> QED
    BY <1>1, <2>1, <2>2 DEF ScrTyped
<1>4. ASSUME NEW m \in Members, m = Scr!Member PROVE m.address \in Device /\ Done(m)'
  <2>1. WillBeDone(Scr!Member)
    BY <1>1, <1>3 DEF ScrInv, PlanIsComplete
  <2>2. WillBeDone(m)
    BY <1>4, <2>1
       DEF WillBeDone, Scope, ByDisplay, DisplaySet, KillSet, LockSet
  <2>3. Done(m)
    BY <1>3, <2>2 DEF WillBeDone, Done
  <2> QED
    BY <1>1, <1>2, <1>3, <1>4, <2>3, NothingHappens
<1> QED
  BY <1>1, <1>2, <1>4, NothingHappens, TurnEnds

LEMMA RecordsKeep ==
    ASSUME ScrInv, records' = records,
           \A m \in Members : m.address \in Device /\ Done(m) => Done(m)'
    PROVE  RecordsAreDone'
<1>1. ASSUME NEW i \in DOMAIN records', records'[i].ok
      PROVE  (records[i].member.address \in Device /\ Done(records[i].member))'
  <2>1. records \in Seq([member : Members, ok : BOOLEAN]) /\ i \in 1..Len(records)
    BY DEF ScrInv, ScrTyped
  <2>2. records[i] \in [member : Members, ok : BOOLEAN]
    BY <2>1, ElementOfSeq
  <2>3. PICK m \in Members : m = records[i].member
    BY <2>2
  <2>4. m.address \in Device /\ Done(m)
    BY <1>1, <2>1, <2>3
       DEF ScrInv, RecordsAreDone, Done, Scope, ByDisplay, DisplaySet, KillSet, LockSet
  <2>5. Done(m)' /\ records'[i].member = m
    BY <2>3, <2>4
  <2> QED
    BY <2>4, <2>5 DEF Done, Scope, ByDisplay, DisplaySet, KillSet, LockSet
<1> QED
  BY <1>1 DEF RecordsAreDone

LEMMA EscapeStep == ScrInv /\ Scr!Escape => ScrInv'
<1> SUFFICES ASSUME ScrInv, Scr!Escape PROVE ScrInv'
  OBVIOUS
<1>1. /\ ScrTyped /\ plan' = <<>> /\ records' = records /\ connected' = connected
      /\ command' = [command EXCEPT !.members = <<>>]
      /\ \/ Scr!NoEffect
         \/ Scr!Sending /\ Scr!Effect(Head(plan))
  BY DEF ScrInv, Scr!Escape, Scr!Sending
<1>2. /\ command' \in [action : Scr!Action \cup {"none"}, members : Seq(Members)]
      /\ command'.action = command.action
  <2>1. /\ command \in [action : Scr!Action \cup {"none"}, members : Seq(Members)]
        /\ <<>> \in Seq(Members)
    BY <1>1 DEF ScrTyped
  <2> QED
    BY <1>1, <2>1
<1>3. /\ cards' \in [Device -> [Part -> Card]]
      /\ display' \in [Device -> Scr!Mode]
      /\ panel' \in [Device -> [input : 0..1, locked : BOOLEAN]]
      /\ paths' \in [Device -> SUBSET {"display", "cards"}]
      /\ PathsTell'
      /\ \A m \in Members : m.address \in Device /\ Done(m) => Done(m)'
  <2>1. CASE Scr!NoEffect
    <3>1. UNCHANGED <<cards, display, panel, paths>>
      BY <2>1 DEF Scr!NoEffect
    <3> QED
      BY <1>2, <3>1, NothingHappens
  <2>2. CASE Scr!Sending /\ Scr!Effect(Head(plan))
    BY <1>2, <2>2, SomethingHappens
  <2> QED
    BY <1>1, <2>1, <2>2
<1>4. ScrTyped'
  <2>1. <<>> \in Seq(Writes)
    OBVIOUS
  <2>2. ~Scr!Driving'
    <3>1. command \in [action : Scr!Action \cup {"none"}, members : Seq(Members)]
      BY <1>1 DEF ScrTyped
    <3>2. command'.members = <<>>
      BY <1>1, <3>1
    <3> QED
      BY <3>2 DEF Scr!Driving
  <2> QED
    BY <1>1, <1>2, <1>3, <2>1, <2>2 DEF ScrTyped
<1>5. PlanIsToward' /\ RereadIsLast' /\ PlanIsComplete'
  BY <1>1 DEF PlanIsToward, RereadIsLast, PlanIsComplete
<1>6. RecordsAreDone'
  BY <1>1, <1>3, RecordsKeep
<1> QED
  BY <1>3, <1>4, <1>5, <1>6 DEF ScrInv

\* A plan that is made is toward the action, complete, and read back last.
LEMMA PlanIsMade ==
    ASSUME ScrInv, Scr!Driving, Scr!Member.address \in Device,
           UNCHANGED <<command, cards, display, panel, paths, records>>,
           connected' \in [Device -> BOOLEAN],
           plan' = Append(Scr!dispatch(Scr!Member.address, command.action, Scr!Member.ports),
                          Scr!Put("reread", 0, {}))
    PROVE  ScrInv'
<1> DEFINE s == Scr!dispatch(Scr!Member.address, command.action, Scr!Member.ports)
           r == Scr!Put("reread", 0, {})
<1>1. /\ ScrTyped /\ command \in [action : Scr!Action \cup {"none"}, members : Seq(Members)]
      /\ command.members # <<>> /\ Scr!Member = Head(command.members)
  BY DEF ScrInv, ScrTyped, Scr!Driving, Scr!Member
<1>2. PICK m \in Members : m = Scr!Member
  BY <1>1, HeadTailProperties
<1>3. command.action \in Scr!Action
  BY <1>1 DEF ScrTyped, Scr!Driving
<1> DEFINE action == command.action
<1>4. /\ Fits(action, m.ports, s)
      /\ Refuses(s) \/ Covers(action, m, s)
  <2> DEFINE a == command.action
  <2>1. a \in Scr!Action /\ m.address \in Device
    BY <1>2, <1>3
  <2> HIDE DEF a
  <2>2. LET t == Scr!dispatch(m.address, a, m.ports)
        IN  Fits(a, m.ports, t) /\ (Refuses(t) \/ Covers(a, m, t))
    BY <2>1, DispatchFits
  <2> QED
    BY <1>2, <2>2 DEF a
<1>5. /\ r \in Writes /\ r.register = "reread" /\ r.parts = {}
  BY ValuesAre, PutIsAWrite DEF Register
<1>6. Toward(action, r)
  BY <1>5 DEF Toward
<1> HIDE DEF s, r, action
<1>7. s \in Seq(Writes) /\ Len(s) \in Nat /\ DOMAIN s = 1..Len(s)
  BY <1>4 DEF Fits
<1>8. /\ plan' \in Seq(Writes) /\ Len(plan') = Len(s) + 1
      /\ \A j \in 1..Len(s) : plan'[j] = s[j]
      /\ plan'[Len(s) + 1] = r
  <2>1. plan' = Append(s, r)
    BY DEF s, r
  <2>2. /\ Append(s, r) \in Seq(Writes) /\ Len(Append(s, r)) = Len(s) + 1
        /\ \A j \in 1..Len(s) : Append(s, r)[j] = s[j]
        /\ Append(s, r)[Len(s) + 1] = r
    BY <1>5, <1>7, AppendProperties
  <2> QED
    BY <2>1, <2>2
<1>9. DOMAIN plan' = 1..(Len(s) + 1) /\ plan' # <<>>
  BY <1>7, <1>8
<1>10. ScrTyped'
  BY <1>1, <1>8 DEF ScrTyped, Scr!Driving, Scr!Member
<1>11. PlanIsToward'
  <2>1. command'.action = action /\ Scr!Member' = m
    BY <1>2 DEF action, Scr!Member
  <2>2. ASSUME NEW j \in DOMAIN plan'
        PROVE  /\ Toward(action, plan'[j])
               /\ action \notin Scr!Whole /\ m.ports # {} =>
                     plan'[j].register # "display" /\ plan'[j].parts \subseteq m.ports
    <3>1. CASE j = Len(s) + 1
      BY <1>5, <1>6, <1>8, <3>1
    <3>2. CASE j \in 1..Len(s)
      BY <1>4, <1>7, <1>8, <3>2 DEF Fits
    <3> QED
      BY <1>7, <1>9, <3>1, <3>2
  <2>3. PICK c : c = command'.action /\ c = action
    BY <2>1
  <2> QED
    BY <2>1, <2>2 DEF PlanIsToward, Toward
<1>12. RereadIsLast'
  <2>1. ASSUME NEW j \in DOMAIN plan'
        PROVE  /\ plan'[j].register = "reread" <=> j = Len(plan')
               /\ plan'[j].register = "refused" => j = 1
    <3>1. CASE j = Len(s) + 1
      BY <1>5, <1>8, <3>1
    <3>2. CASE j \in 1..Len(s)
      <4>1. /\ s[j].register # "reread"
            /\ s[j].register = "refused" => j = 1
        BY <1>4, <1>7, <3>2 DEF Fits
      <4> QED
        BY <1>7, <1>8, <3>2, <4>1
    <3> QED
      BY <1>7, <1>9, <3>1, <3>2
  <2> QED
    BY <2>1 DEF RereadIsLast
<1>13. PlanIsComplete'
  <2>1. CASE Refuses(s)
    <3>1. 1 \in 1..Len(s) /\ s[1].register = "refused"
      BY <1>7, <2>1 DEF Refuses
    <3> QED
      BY <1>8, <3>1 DEF PlanIsComplete
  <2>2. CASE Covers(action, m, s)
    <3>1. \A j \in DOMAIN s : j \in DOMAIN plan' /\ plan'[j] = s[j]
      BY <1>7, <1>8, <1>9
    <3>2. /\ command.action \in Scr!Mode =>
                /\ Scope(m) \subseteq Part
                /\ ByDisplay(m) => \E j \in DOMAIN plan' : plan'[j].register = "display"
                /\ ~ByDisplay(m) => \A p \in Scope(m) :
                      /\ \E j \in DOMAIN plan' : plan'[j].register = "kill" /\ p \in plan'[j].parts
                      /\ \E j \in DOMAIN plan' : plan'[j].register = "lock" /\ p \in plan'[j].parts
          /\ command.action = "select_input" => \E j \in DOMAIN plan' : plan'[j].register = "input"
      BY <2>2, <3>1 DEF Covers, action
    <3>3. WillBeDone(m)'
      BY <3>2 DEF WillBeDone, Scope, ByDisplay
    <3>4. Scr!Member' = m
      BY <1>2 DEF Scr!Member
    <3> QED
      BY <3>3, <3>4
         DEF PlanIsComplete, WillBeDone, Scope, ByDisplay, DisplaySet, KillSet, LockSet
  <2> QED
    BY <1>4, <2>1, <2>2
<1>14. RecordsAreDone' /\ PathsTell'
  BY NothingHappens, RecordsKeep
<1> QED
  BY <1>10, <1>11, <1>12, <1>13, <1>14 DEF ScrInv

LEMMA BeginStep == ScrInv /\ Scr!Begin => ScrInv'
<1> SUFFICES ASSUME ScrInv, Scr!Begin PROVE ScrInv'
  OBVIOUS
<1>1. /\ ScrTyped /\ Scr!Driving /\ Scr!Member.address \in Device
      /\ UNCHANGED <<cards, display, panel, paths>>
  BY DEF ScrInv, Scr!Begin
<1>2. CASE /\ connected' = [connected EXCEPT ![Scr!Member.address] = TRUE]
           /\ plan' = Append(Scr!dispatch(Scr!Member.address, command.action, Scr!Member.ports),
                             Scr!Put("reread", 0, {}))
           /\ UNCHANGED <<command, records, ended>>
  <2>1. connected' \in [Device -> BOOLEAN]
    BY <1>1, <1>2 DEF ScrTyped
  <2> QED
    BY <1>1, <1>2, <2>1, PlanIsMade
<1>3. CASE Scr!Record(FALSE) /\ UNCHANGED connected
  <2>1. command'.action = command.action /\ connected' \in [Device -> BOOLEAN]
    BY <1>1, <1>3, RecordIs DEF ScrTyped
  <2> QED
    BY <1>1, <1>3, <2>1, NothingHappens, TurnEnds
<1> QED
  BY <1>2, <1>3 DEF Scr!Begin

\* A write done is off the plan, and what it was for is done.
LEMMA WriteTakesStep == ScrInv /\ Scr!Write => ScrInv'
<1> SUFFICES ASSUME ScrInv, Scr!Write PROVE ScrInv'
  OBVIOUS
<1>1. /\ Scr!Sending /\ Scr!Effect(Head(plan)) /\ plan' = Tail(plan)
      /\ UNCHANGED <<connected, command, records>>
      /\ ScrTyped /\ Scr!Driving /\ plan \in Seq(Writes) /\ plan # <<>>
      /\ Scr!Member.address \in Device
      /\ Head(plan).register \notin {"refused", "reread"}
  BY DEF Scr!Write, Scr!Sending, ScrInv, ScrTyped
<1> DEFINE w == plan[1]
           n == Len(plan)
<1>2. Head(plan) = w /\ w \in Writes /\ DOMAIN plan = 1..n /\ n \in Nat \ {0}
  BY <1>1
<1>3. /\ plan' \in Seq(Writes) /\ DOMAIN plan' = 1..(n - 1) /\ Len(plan') = n - 1
      /\ \A j \in 1..(n - 1) : plan'[j] = plan[j + 1] /\ j + 1 \in DOMAIN plan
  <2>1. /\ Tail(plan) \in Seq(Writes) /\ Len(Tail(plan)) = n - 1
        /\ \A j \in 1..Len(Tail(plan)) : Tail(plan)[j] = plan[j + 1]
    BY <1>1, HeadTailProperties
  <2> QED
    BY <1>1, <1>2, <2>1
<1>4. Toward(command.action, w)
  BY <1>2 DEF ScrInv, PlanIsToward
<1>5. PICK m \in Members : m = Scr!Member
  <2>1. command.members \in Seq(Members) /\ command.members # <<>>
    BY <1>1 DEF ScrTyped, Scr!Driving
  <2> QED
    BY <2>1, HeadTailProperties DEF Scr!Member
<1>6. Scr!Effect(w) /\ w.register \notin {"refused", "reread"}
  BY <1>1, <1>2
<1> HIDE DEF w, n
<1>7. /\ cards' \in [Device -> [Part -> Card]]
      /\ display' \in [Device -> Scr!Mode]
      /\ panel' \in [Device -> [input : 0..1, locked : BOOLEAN]]
      /\ paths' \in [Device -> SUBSET {"display", "cards"}]
      /\ PathsTell'
      /\ \A k \in Members : k.address \in Device /\ Done(k) => Done(k)'
  BY <1>1, SomethingHappens
<1>8. ScrTyped'
  BY <1>1, <1>3, <1>7 DEF ScrTyped, Scr!Driving, Scr!Member
<1>9. PlanIsToward'
  <2>1. ASSUME NEW j \in DOMAIN plan'
        PROVE  /\ Toward(command.action, plan[j + 1])
               /\ command.action \notin Scr!Whole /\ Scr!Member.ports # {} =>
                     /\ plan[j + 1].register # "display"
                     /\ plan[j + 1].parts \subseteq Scr!Member.ports
    BY <1>3 DEF ScrInv, PlanIsToward
  <2>2. /\ command' = command /\ Scr!Member' = Scr!Member
        /\ \A j \in DOMAIN plan' : plan'[j] = plan[j + 1]
    BY <1>1, <1>3 DEF Scr!Member
  <2>3. ASSUME NEW j \in DOMAIN plan'
        PROVE  /\ Toward(command'.action, plan'[j])
               /\ command'.action \notin Scr!Whole /\ Scr!Member'.ports # {} =>
                     plan'[j].register # "display" /\ plan'[j].parts \subseteq Scr!Member'.ports
    <3>1. plan'[j] = plan[j + 1] /\ command' = command /\ Scr!Member' = Scr!Member
      BY <2>2
    <3>2. Toward(command'.action, plan'[j])
      BY <2>1, <3>1
    <3> QED
      BY <2>1, <3>1, <3>2
  <2> QED
    BY <2>3 DEF PlanIsToward, Toward
<1>10. RereadIsLast'
  <2>1. ASSUME NEW j \in DOMAIN plan'
        PROVE  /\ plan'[j].register = "reread" <=> j = Len(plan')
               /\ plan'[j].register = "refused" => j = 1
    <3>1. /\ plan[j + 1].register = "reread" <=> j + 1 = n
          /\ plan[j + 1].register = "refused" => j + 1 = 1
      BY <1>3 DEF ScrInv, RereadIsLast, n
    <3>2. j \in 1..(n - 1) /\ plan'[j] = plan[j + 1] /\ Len(plan') = n - 1
      BY <1>3
    <3> QED
      BY <1>2, <3>1, <3>2
  <2> QED
    BY <2>1 DEF RereadIsLast
<1>11. PlanIsComplete'
  <2>1. WillBeDone(m)
    <3>1. WillBeDone(Scr!Member)
      BY <1>1, <1>2, <1>6 DEF ScrInv, PlanIsComplete, w
    <3> QED
      BY <1>5, <3>1 DEF WillBeDone, Scope, ByDisplay, DisplaySet, KillSet, LockSet
  <2>2. ASSUME NEW j \in DOMAIN plan, j # 1
        PROVE  \E k \in DOMAIN plan' : plan'[k] = plan[j]
    <3>1. j - 1 \in DOMAIN plan' /\ (j - 1) + 1 = j
      BY <1>2, <1>3, <2>2
    <3>2. plan'[j - 1] = plan[j]
      BY <1>3, <3>1
    <3> QED
      BY <3>1, <3>2
  <2>3. m.address \in Device /\ command'.action = command.action /\ m.address = Scr!Member.address
    BY <1>1, <1>5
  <2>4. /\ DisplaySet(m) \/ (w.register = "display" /\ m.address = Scr!Member.address)
             => DisplaySet(m)'
        /\ \A p \in Part :
              /\ KillSet(m, p) \/ (w.register = "kill" /\ p \in w.parts
                                     /\ m.address = Scr!Member.address)
                    => KillSet(m, p)'
              /\ LockSet(m, p) \/ (w.register = "lock" /\ p \in w.parts
                                     /\ m.address = Scr!Member.address)
                    => LockSet(m, p)'
        /\ panel[m.address].input = 1
              \/ (w.register = "input" /\ m.address = Scr!Member.address)
           => panel'[m.address].input = 1
    BY <1>1, <1>2, <1>4, <1>6, <2>3, EffectKeeps
  <2>5. ASSUME command.action \in Scr!Mode, ByDisplay(m)
        PROVE  DisplaySet(m)' \/ \E k \in DOMAIN plan' : plan'[k].register = "display"
    <3>1. CASE DisplaySet(m)
      BY <2>4, <3>1
    <3>2. CASE \E j \in DOMAIN plan : plan[j].register = "display"
      BY <2>2, <2>3, <2>4, <3>2 DEF w
    <3> QED
      BY <2>1, <2>5, <3>1, <3>2 DEF WillBeDone
  <2>6. ASSUME command.action \in Scr!Mode, ~ByDisplay(m), NEW p \in Scope(m)
        PROVE  KillSet(m, p)' \/ \E k \in DOMAIN plan' : plan'[k].register = "kill" /\ p \in plan'[k].parts
    <3>1. CASE KillSet(m, p)
      BY <2>1, <2>4, <2>6, <3>1 DEF WillBeDone
    <3>2. CASE \E j \in DOMAIN plan : plan[j].register = "kill" /\ p \in plan[j].parts
      <4>1. PICK j \in DOMAIN plan : plan[j].register = "kill" /\ p \in plan[j].parts
        BY <3>2
      <4>2. CASE j = 1
        BY <2>1, <2>3, <2>4, <2>6, <4>1, <4>2 DEF w, WillBeDone
      <4> QED
        BY <2>2, <4>1, <4>2
    <3> QED
      BY <2>1, <2>6, <3>1, <3>2 DEF WillBeDone
  <2>7. ASSUME command.action \in Scr!Mode, ~ByDisplay(m), NEW p \in Scope(m)
        PROVE  LockSet(m, p)' \/ \E k \in DOMAIN plan' : plan'[k].register = "lock" /\ p \in plan'[k].parts
    <3>1. CASE LockSet(m, p)
      BY <2>1, <2>4, <2>7, <3>1 DEF WillBeDone
    <3>2. CASE \E j \in DOMAIN plan : plan[j].register = "lock" /\ p \in plan[j].parts
      <4>1. PICK j \in DOMAIN plan : plan[j].register = "lock" /\ p \in plan[j].parts
        BY <3>2
      <4>2. CASE j = 1
        BY <2>1, <2>3, <2>4, <2>7, <4>1, <4>2 DEF w, WillBeDone
      <4> QED
        BY <2>2, <4>1, <4>2
    <3> QED
      BY <2>1, <2>7, <3>1, <3>2 DEF WillBeDone
  <2>8. ASSUME command.action = "select_input"
        PROVE  panel'[m.address].input = 1 \/ \E k \in DOMAIN plan' : plan'[k].register = "input"
    <3>1. CASE panel[m.address].input = 1
      BY <2>4, <3>1
    <3>2. CASE \E j \in DOMAIN plan : plan[j].register = "input"
      BY <2>2, <2>3, <2>4, <3>2 DEF w
    <3> QED
      BY <2>1, <2>8, <3>1, <3>2 DEF WillBeDone
  <2>9. /\ Scope(m)' = Scope(m) /\ ByDisplay(m)' = ByDisplay(m)
        /\ command.action \in Scr!Mode => Scope(m) \subseteq Part
    BY <2>1 DEF WillBeDone, Scope, ByDisplay
  <2>10. WillBeDone(m)'
    BY <2>3, <2>5, <2>6, <2>7, <2>8, <2>9 DEF WillBeDone
  <2>11. Scr!Member' = m
    BY <1>1, <1>5 DEF Scr!Member
  <2> QED
    BY <2>10, <2>11
       DEF PlanIsComplete, WillBeDone, Scope, ByDisplay, DisplaySet, KillSet, LockSet
<1>12. RecordsAreDone'
  BY <1>1, <1>7, RecordsKeep
<1> QED
  BY <1>7, <1>8, <1>9, <1>10, <1>11, <1>12 DEF ScrInv

LEMMA ScrNextHolds == ScrInv /\ (Scr!Next \/ UNCHANGED scrVars) => ScrInv'
<1>1. ScrInv /\ Scr!Next => ScrInv'
  BY ExecuteScreenStep, UnknownDeviceStep, BeginStep, WriteTakesStep, WriteFailsStep,
     NotSentStep, RereadStep, EscapeStep DEF Scr!Next
<1>2. ASSUME ScrInv, UNCHANGED scrVars PROVE ScrInv'
  <2>1. UNCHANGED <<cards, display, panel, connected, command, plan, records, paths>>
    BY <1>2 DEF scrVars
  <2>2. ScrTyped'
    BY <1>2, <2>1 DEF ScrInv, ScrTyped, Scr!Driving, Scr!Member
  <2>3. PlanIsToward' /\ RereadIsLast'
    BY <1>2, <2>1 DEF ScrInv, PlanIsToward, RereadIsLast, Toward, Scr!Member
  <2>4. PlanIsComplete'
    BY <1>2, <2>1 DEF ScrInv, PlanIsComplete, WillBeDone, Scope, ByDisplay, DisplaySet,
       KillSet, LockSet, Scr!Member
  <2>5. RecordsAreDone'
    BY <1>2, <2>1 DEF ScrInv, RecordsAreDone, Done, Scope, ByDisplay, DisplaySet, KillSet,
       LockSet
  <2>6. PathsTell'
    BY <1>2, <2>1 DEF ScrInv, PathsTell
  <2> QED
    BY <2>2, <2>3, <2>4, <2>5, <2>6 DEF ScrInv
<1> QED
  BY <1>1, <1>2

-----------------------------------------------------------------------------
(* Driving a screen: what the invariant gives                                *)

LEMMA TwoWays == \A S \in SUBSET {"display", "cards"} :
                    "display" \in S /\ "cards" \in S => Scr!Cardinality(S) = 2
<1>1. Cardinality({"display", "cards"}) = 2
  <2>1. IsFiniteSet({"display"}) /\ Cardinality({"display"}) = 1
    BY FS_Singleton
  <2>2. {"display", "cards"} = {"display"} \cup {"cards"} /\ "cards" \notin {"display"}
    OBVIOUS
  <2> QED
    BY <2>1, <2>2, FS_AddElement
<1>2. ASSUME NEW S \in SUBSET {"display", "cards"}, "display" \in S, "cards" \in S
      PROVE  Scr!Cardinality(S) = 2
  <2>1. S = {"display", "cards"}
    BY <1>2
  <2>2. Scr!Cardinality(S) = Cardinality(S)
    BY CountsAgree
  <2> QED
    BY <1>1, <2>1, <2>2
<1> QED
  BY <1>2

\* A done member shows its mode, unless its device is also driven the other way.
LEMMA DoneIsShown ==
    ASSUME ScrInv, NEW m \in Members, m.address \in Device, Done(m),
           command.action \in Scr!Mode, NEW p \in Scope(m)
    PROVE  \/ Scr!Shown(m.address, p) = command.action
           \/ command.action # "blackout" /\ Scr!Cardinality(paths[m.address]) = 2
<1> DEFINE d == m.address
           a == command.action
           black == a = "blackout"
           frozen == a = "freeze"
           c == cards[d][p]
<1>1. p \in Part /\ a \in {"normal", "blackout", "freeze"}
  BY DEF Done, Scr!Mode
<1>2. paths[d] \in SUBSET {"display", "cards"}
  BY DEF ScrInv, ScrTyped
<1>3. /\ "display" \notin paths[d] => display[d] = "normal"
      /\ "cards" \notin paths[d] => ~c.kill /\ ~c.lock
  BY <1>1 DEF ScrInv, PathsTell
<1>4. Scr!Shown(d, p) = IF c.kill \/ display[d] = "blackout" THEN "blackout"
                        ELSE IF c.lock \/ display[d] = "freeze" THEN "freeze" ELSE "normal"
  BY DEF Scr!Shown
<1>5. CASE ByDisplay(m)
  <2>1. display[d] = a /\ "display" \in paths[d]
    BY <1>5 DEF Done, DisplaySet
  <2>2. CASE "cards" \in paths[d]
    <3>1. Scr!Cardinality(paths[d]) = 2
      BY <1>2, <2>1, <2>2, TwoWays
    <3>2. a = "blackout" => Scr!Shown(d, p) = a
      BY <1>4, <2>1
    <3> QED
      BY <3>1, <3>2
  <2>3. CASE "cards" \notin paths[d]
    BY <1>1, <1>3, <1>4, <2>1, <2>3
  <2> QED
    BY <2>2, <2>3
<1>6. CASE ~ByDisplay(m)
  <2>1. KillSet(m, p) /\ LockSet(m, p)
    BY <1>6 DEF Done
  <2>2. c.kill = black /\ c.lock = frozen /\ "cards" \in paths[d]
    BY <2>1 DEF KillSet, LockSet
  <2>3. (black <=> a = "blackout") /\ (frozen <=> a = "freeze")
    OBVIOUS
  <2> HIDE DEF black, frozen, c
  <2>4. CASE "display" \in paths[d]
    <3>1. Scr!Cardinality(paths[d]) = 2
      BY <1>2, <2>2, <2>4, TwoWays
    <3>2. a = "blackout" => Scr!Shown(d, p) = a
      BY <1>4, <2>2, <2>3
    <3> QED
      BY <3>1, <3>2
  <2>5. CASE "display" \notin paths[d]
    <3>1. display[d] = "normal"
      BY <1>3, <2>5
    <3> QED
      BY <1>1, <1>4, <2>2, <2>3, <3>1
  <2> QED
    BY <2>4, <2>5
<1> QED
  BY <1>5, <1>6

\* Neither of the ways a write may end reaches beyond the ports it is for.
LEMMA OtherPortsAreLeft ==
    ASSUME ScrInv, Scr!Next \/ UNCHANGED scrVars, Scr!Driving,
           command.action \notin Scr!Whole, Scr!Member.ports # {},
           NEW d \in Device, NEW p \in Part,
           ~(Scr!Member.address = d /\ p \in Scr!Named(Scr!Member))
    PROVE  Scr!Untouched(d, p)
<1>1. CASE UNCHANGED <<cards, display>>
  BY <1>1 DEF Scr!Untouched
<1>2. CASE Scr!Sending /\ Scr!Effect(Head(plan))
  <2>1. /\ ScrTyped /\ plan \in Seq(Writes) /\ plan # <<>> /\ Scr!Member.address \in Device
    BY <1>2 DEF ScrInv, ScrTyped, Scr!Sending
  <2> DEFINE w == plan[1]
  <2>2. Head(plan) = w /\ w \in Writes /\ 1 \in DOMAIN plan
    BY <2>1
  <2>3. /\ Toward(command.action, w)
        /\ w.register # "display" /\ w.parts \subseteq Scr!Member.ports
    BY <2>2 DEF ScrInv, PlanIsToward
  <2>4. Scr!Effect(w)
    BY <1>2, <2>2
  <2> HIDE DEF w
  <2>5. ~(d = Scr!Member.address /\ p \in w.parts)
    BY <2>3 DEF Scr!Named, Scr!whole_device
  <2>6. cards'[d][p] = cards[d][p]
    BY <2>1, <2>2, <2>3, <2>4, <2>5, EffectOnCards
  <2>7. display'[d] = display[d]
    BY <2>1, <2>2, <2>3, <2>4, EffectElsewhere
  <2> QED
    BY <2>6, <2>7 DEF Scr!Untouched
<1>3. \/ UNCHANGED <<cards, display>>
      \/ Scr!Sending /\ Scr!Effect(Head(plan))
  <2>1. CASE UNCHANGED scrVars
    BY <2>1 DEF scrVars
  <2>2. CASE Scr!Next
    BY <2>2 DEF Scr!Next, Scr!ExecuteScreen, Scr!UnknownDevice, Scr!Begin, Scr!Write,
       Scr!WriteRefused, Scr!WriteLost, Scr!NotSent, Scr!Reread, Scr!Escape, Scr!NoEffect,
       Scr!Sending
  <2> QED
    BY <2>1, <2>2
<1> QED
  BY <1>1, <1>2, <1>3

LEMMA ScreensAlone == [PartsNext]_<<part, vars, scrVars, verVars, conVars, monVars, recVars, reaVars>>
                        => Scr!Next \/ UNCHANGED scrVars
BY DEF PartsNext, Server, DrivingScreens, Verifying, Contacting, Monitoring, Proxying,
   Interpreting

\* The invariant of driving a screen, whatever fails on the way.
THEOREM ScreensInvariant == PartsSpec => []ScrInv
<1>1. PartsInit => ScrInv
  BY ScrInitHolds DEF PartsInit
<1> QED
  BY <1>1, ScreensAlone, ScrNextHolds, PTL DEF PartsSpec

\* A member whose record is ok shows the mode that was asked for on every part it
\* was driven on, and is on the input that was selected (state.py:308).
THEOREM AcknowledgedIsShown == PartsSpec => []AcknowledgedModeShows
<1>1. ASSUME ScrInv, NEW i \in DOMAIN records, records[i].ok
      PROVE  LET m == records[i].member
             IN  /\ command.action = "select_input" => panel[m.address].input = 1
                 /\ command.action \in Scr!Mode =>
                       \A p \in IF m.ports = {} THEN Part ELSE m.ports :
                          \/ Scr!Shown(m.address, p) = command.action
                          \/ command.action # "blackout" /\ Scr!Cardinality(paths[m.address]) = 2
  <2>1. records \in Seq([member : Members, ok : BOOLEAN]) /\ i \in 1..Len(records)
    BY <1>1 DEF ScrInv, ScrTyped
  <2>2. records[i].member \in Members
    <3>1. records[i] \in [member : Members, ok : BOOLEAN]
      BY <2>1, ElementOfSeq
    <3> QED
      BY <3>1
  <2>3. records[i].member.address \in Device /\ Done(records[i].member)
    BY <1>1 DEF ScrInv, RecordsAreDone
  <2> DEFINE m == records[i].member
  <2>4. m \in Members /\ m.address \in Device /\ Done(m)
    BY <2>2, <2>3
  <2> HIDE DEF m
  <2>5. command.action = "select_input" => panel[m.address].input = 1
    BY <2>4 DEF Done
  <2>6. ASSUME command.action \in Scr!Mode, NEW p \in Scope(m)
        PROVE  \/ Scr!Shown(m.address, p) = command.action
               \/ command.action # "blackout" /\ Scr!Cardinality(paths[m.address]) = 2
    BY <1>1, <2>4, <2>6, DoneIsShown
  <2> QED
    BY <2>5, <2>6 DEF m, Scope
<1>2. ScrInv => AcknowledgedModeShows
  BY <1>1 DEF AcknowledgedModeShows, Scr!AcknowledgedModeShows
<1> QED
  BY <1>2, ScreensInvariant, PTL

\* Of a device, only the ports a member names change, in whatever order its
\* writes are sent and however often they fail (state.py:468).
THEOREM OtherPortsAreKept == PartsSpec => PortsAreKept
<1> DEFINE Kept == \A d \in Device, p \in Part :
                      Scr!Driving /\ command.action \notin Scr!Whole /\ Scr!Member.ports # {}
                         /\ ~(Scr!Member.address = d /\ p \in Scr!Named(Scr!Member))
                      => Scr!Untouched(d, p)
<1>1. ASSUME ScrInv,
             [PartsNext]_<<part, vars, scrVars, verVars, conVars, monVars, recVars, reaVars>>
      PROVE  [Kept]_(Scr!vars)
  <2>1. Scr!Next \/ UNCHANGED scrVars
    BY <1>1, ScreensAlone
  <2>2. Kept
    BY <1>1, <2>1, OtherPortsAreLeft
  <2> QED
    BY <2>2
<1> QED
  BY <1>1, ScreensInvariant, PTL DEF PartsSpec, PortsAreKept, Scr!PortsAreKept

\* A member without ports and screens is the whole device: no write of its command
\* goes to another.
LEMMA OthersAreLeft ==
    ASSUME ScrInv, Scr!Next \/ UNCHANGED scrVars, Scr!Driving,
           NEW d \in Device, d # Scr!Member.address, NEW p \in Part
    PROVE  Scr!Untouched(d, p)
<1>1. /\ cards \in [Device -> [Part -> Card]] /\ display \in [Device -> Scr!Mode]
  BY DEF ScrInv, ScrTyped
<1>2. CASE UNCHANGED <<cards, display>>
  BY <1>2 DEF Scr!Untouched
<1>3. ASSUME Scr!Effect(Head(plan)) PROVE cards'[d] = cards[d] /\ display'[d] = display[d]
  BY <1>1, <1>3 DEF Scr!Effect
<1>4. UNCHANGED <<cards, display>> \/ Scr!Effect(Head(plan))
  BY DEF Scr!Next, Scr!ExecuteScreen, Scr!UnknownDevice, Scr!Begin, Scr!Write,
     Scr!WriteRefused, Scr!WriteLost, Scr!NotSent, Scr!Reread, Scr!Escape, Scr!NoEffect,
     scrVars
<1> QED
  BY <1>2, <1>3, <1>4 DEF Scr!Untouched

\* "Each member is addressed with only its own ports" (state.py:464): what the run
\* screen_ids refutes of members that name screens of a COEX controller is true of
\* members that name ports or whole devices.
THEOREM PortMembersKeepToTheirParts ==
    PartsSpec /\ [](Scr!Driving => Scr!Member.screen_ids = {}) => MembersKeepToTheirParts
<1> DEFINE OnlyPorts == Scr!Driving => Scr!Member.screen_ids = {}
           Kept == \A d \in Device, p \in Part :
                      Scr!Driving /\ command.action \notin Scr!Whole
                         /\ ~(Scr!Member.address = d /\ p \in Scr!Named(Scr!Member))
                      => Scr!Untouched(d, p)
<1>1. ASSUME ScrInv, OnlyPorts,
             [PartsNext]_<<part, vars, scrVars, verVars, conVars, monVars, recVars, reaVars>>
      PROVE  [Kept]_(Scr!vars)
  <2>1. Scr!Next \/ UNCHANGED scrVars
    BY <1>1, ScreensAlone
  <2>2. ASSUME NEW d \in Device, NEW p \in Part, Scr!Driving, command.action \notin Scr!Whole,
               ~(Scr!Member.address = d /\ p \in Scr!Named(Scr!Member))
        PROVE  Scr!Untouched(d, p)
    <3>1. CASE Scr!Member.ports # {}
      BY <1>1, <2>1, <2>2, <3>1, OtherPortsAreLeft
    <3>2. CASE Scr!Member.ports = {}
      <4>1. Scr!Member.address # d
        BY <1>1, <2>2, <3>2 DEF Scr!Named, Scr!whole_device
      <4> QED
        BY <1>1, <2>1, <2>2, <4>1, OthersAreLeft
    <3> QED
      BY <3>1, <3>2
  <2>3. Kept
    BY <2>2
  <2> QED
    BY <2>3
<1> QED
  BY <1>1, ScreensInvariant, PTL
     DEF PartsSpec, MembersKeepToTheirParts, Scr!MembersKeepToTheirParts

-----------------------------------------------------------------------------
(* Driving a screen: well formed                                             *)

\* A member is written to only over a session, and a command that has returned
\* or raised has no member left.
InSession ==
    /\ plan # <<>> => connected[Scr!Member.address]
    /\ ended = "running" <=> Scr!Driving

LEMMA ScreensHaveMembers == \A w \in Walls : w # <<>>
BY DEF Walls

\* The record of the last member ends the command.
LEMMA TurnEndsInSession ==
    ASSUME ScrTyped, InSession, Scr!Driving, NEW ok, Scr!Record(ok)
    PROVE  InSession'
<1>1. command.members \in Seq(Members) /\ command.members # <<>>
  BY DEF ScrTyped, Scr!Driving
<1>2. Len(command.members) = 1 <=> Tail(command.members) = <<>>
  <2> DEFINE rest == Tail(command.members)
             n == Len(command.members)
  <2>1. Len(rest) = n - 1 /\ n \in Nat /\ rest \in Seq(Members)
    BY <1>1, HeadTailProperties
  <2>2. \A s \in Seq(Members) : Len(s) = 0 <=> s = <<>>
    BY EmptySeq
  <2> HIDE DEF rest, n
  <2>3. Len(rest) = 0 <=> rest = <<>>
    BY <2>1, <2>2
  <2>4. n = 1 <=> Len(rest) = 0
    BY <2>1
  <2> QED
    BY <2>3, <2>4 DEF rest, n
<1>3. /\ command'.members = Tail(command.members) /\ plan' = <<>>
      /\ ended' = IF Len(command.members) = 1 THEN "returned" ELSE ended
  BY DEF Scr!Record, ScrTyped
<1>4. ended = "running"
  BY DEF InSession
<1> QED
  BY <1>2, <1>3, <1>4 DEF InSession, Scr!Driving

LEMMA InSessionStep == ScrTyped /\ InSession /\ Scr!Next => InSession'
<1> SUFFICES ASSUME ScrTyped, InSession, Scr!Next PROVE InSession'
  OBVIOUS
<1>1. CASE Scr!ExecuteScreen
  <2>1. PICK members \in Walls, action \in Scr!Action :
            command' = [action |-> action, members |-> members]
    BY <1>1 DEF Scr!ExecuteScreen
  <2>2. plan' = <<>> /\ ended' = "running" /\ command'.members # <<>>
    BY <1>1, <2>1, ScreensHaveMembers DEF Scr!ExecuteScreen
  <2> QED
    BY <2>2 DEF InSession, Scr!Driving
<1>2. CASE \E ok \in BOOLEAN : Scr!Driving /\ Scr!Record(ok)
  BY <1>2, TurnEndsInSession
<1>3. CASE Scr!Begin
  <2>1. CASE \E ok \in BOOLEAN : Scr!Driving /\ Scr!Record(ok)
    BY <2>1, TurnEndsInSession
  <2>2. CASE /\ connected' = [connected EXCEPT ![Scr!Member.address] = TRUE]
             /\ UNCHANGED <<command, ended>>
    <3>1. Scr!Member.address \in Device /\ Scr!Member' = Scr!Member
      BY <1>3, <2>2 DEF Scr!Begin, Scr!Member
    <3>2. connected'[Scr!Member.address] = TRUE
      BY <2>2, <3>1 DEF ScrTyped
    <3> QED
      BY <2>2, <3>1, <3>2 DEF InSession, Scr!Driving
  <2> QED
    BY <1>3, <2>1, <2>2 DEF Scr!Begin
<1>4. CASE Scr!Write
  <2>1. /\ plan # <<>> /\ Scr!Driving /\ connected' = connected
        /\ command' = command /\ ended' = ended
    BY <1>4 DEF Scr!Write, Scr!Sending
  <2> QED
    BY <2>1 DEF InSession, Scr!Driving, Scr!Member
<1>5. CASE Scr!Escape
  <2>1. plan' = <<>> /\ ended' = "raised" /\ command'.members = <<>>
    BY <1>5 DEF Scr!Escape, ScrTyped
  <2> QED
    BY <2>1 DEF InSession, Scr!Driving
<1>6. CASE Scr!UnknownDevice \/ Scr!WriteRefused \/ Scr!WriteLost \/ Scr!NotSent \/ Scr!Reread
  BY <1>2, <1>6
     DEF Scr!UnknownDevice, Scr!WriteRefused, Scr!WriteLost, Scr!NotSent, Scr!Reread, Scr!Sending
<1> QED
  BY <1>1, <1>3, <1>4, <1>5, <1>6 DEF Scr!Next

\* Every state of driving a screen is well formed: only a member with a session is
\* written to, and a command is running exactly while members are left.
THEOREM ScreensAreWellFormed == PartsSpec => []Scr!TypeOK
<1>1. PartsInit => InSession
  BY DEF PartsInit, Scr!Init, Scr!NoCommand, InSession, Scr!Driving
<1>2. ASSUME ScrInv, InSession,
             [PartsNext]_<<part, vars, scrVars, verVars, conVars, monVars, recVars, reaVars>>
      PROVE  InSession'
  <2>1. CASE Scr!Next
    BY <1>2, <2>1, InSessionStep DEF ScrInv
  <2>2. CASE UNCHANGED scrVars
    BY <1>2, <2>2 DEF InSession, scrVars, Scr!Driving, Scr!Member
  <2> QED
    BY <1>2, <2>1, <2>2, ScreensAlone
<1>3. ScrInv /\ InSession => Scr!TypeOK
  BY DEF ScrInv, ScrTyped, InSession, Card, Scr!TypeOK
<1>4. PartsSpec => []InSession
  BY <1>1, <1>2, ScreensInvariant, PTL DEF PartsSpec
<1> QED
  BY <1>3, <1>4, ScreensInvariant, PTL

-----------------------------------------------------------------------------
(* All parts side by side                                                    *)

LEMMA ServerAlone == [PartsNext]_<<part, vars, scrVars, verVars, conVars, monVars, recVars, reaVars>>
                        => [Next]_vars
BY DEF PartsNext, Server, DrivingScreens, Verifying, Contacting, Monitoring, Proxying,
   Interpreting

\* What is proved of Configuration by itself holds of it beside the other parts.
LEMMA PartsServe == PartsSpec => Spec
<1>1. PartsInit => Init
  BY DEF PartsInit
<1> QED
  BY <1>1, ServerAlone, PTL DEF PartsSpec, Spec

\* Every state of every part is well formed, whichever part is at work.
THEOREM PartsAreWellFormed == PartsSpec => []PartsTypeOK
<1>1. TypeOK /\ Scr!TypeOK /\ Ver!TypeOK /\ Con!TypeOK /\ Mon!TypeOK /\ Rec!TypeOK /\ Rea!TypeOK
         => PartsTypeOK
  BY DEF PartsTypeOK
<1>2. PartsSpec => []TypeOK
  BY PartsServe, TypeCorrect, PTL
<1> QED
  BY <1>1, <1>2, ScreensAreWellFormed, VerifyIsWellFormed, ContactIsWellFormed,
     MonitorIsWellFormed, ProxyIsWellFormed, ReadingsAreWellFormed, PTL
=============================================================================
