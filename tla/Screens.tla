------------------------------ MODULE Screens -------------------------------
(* Driving a screen: Application.execute_screen over the members of a screen *)
(* (parts of devices), Device.execute on each, and what Processor makes of   *)
(* the action on the device's control path.  A part is an output port of a   *)
(* register-bus device or a screen of a COEX controller.                     *)
EXTENDS Integers, FiniteSets, Sequences, SequencesExt

CONSTANTS
    Device,         \* devices the application holds
    Path,           \* device -> "coex", "level" (a display register) or "cards"
    Part,           \* parts of every device, numbered
    Layout,         \* the screens: sequences of [address, ports, screen_ids]
    MaxCommands     \* bound: commands of a behaviour

ScreensAssumption ==
    /\ Path \in [Device -> {"coex", "level", "cards"}]
    /\ Part \subseteq Nat /\ MaxCommands \in Nat

VARIABLES
    cards,      \* what the receiving cards of a part hold
    display,    \* the device's own display mode
    panel,      \* its selected input, and whether its front panel is locked
    connected,  \* the device has a session
    command,    \* the command being executed: action, members still to drive
    plan,       \* writes the present member still needs
    records,    \* one per member driven
    ended,      \* how the last command ended
    paths,      \* history: how the display of a device was addressed
    commands
vars == <<cards, display, panel, connected, command, plan, records, ended, paths, commands>>

Mode == {"normal", "blackout", "freeze"}
Action == Mode \cup {"brightness", "test_pattern", "apply_preset", "select_input", "panel_lock"}
Whole == {"apply_preset", "select_input", "panel_lock"}     \* know of no ports
NoCommand == [action |-> "none", members |-> <<>>]
Driving == command.members # <<>>
Member == Head(command.members)
whole_device(m) == m.ports = {} /\ m.screen_ids = {}

Init ==
    /\ cards = [d \in Device |-> [p \in Part |->
           [kill |-> FALSE, lock |-> FALSE, brightness |-> 0, pattern |-> 0]]]
    /\ display = [d \in Device |-> "normal"]
    /\ panel = [d \in Device |-> [input |-> 0, locked |-> FALSE]]
    /\ connected = [d \in Device |-> FALSE]
    /\ command = NoCommand /\ plan = <<>> /\ records = <<>>
    /\ ended = "returned"
    /\ paths = [d \in Device |-> {}] /\ commands = 0

-----------------------------------------------------------------------------
(* Processor: what an action becomes on each path.                           *)

Put(register, value, parts) ==
    [register |-> register, value |-> value, parts |-> parts]
Refused == <<Put("refused", 0, {})>>    \* an exception before anything is sent

CardWrites_once(action, parts) ==
    CASE action \in {"normal", "blackout"} ->
            <<Put("kill", action = "blackout", parts)>>
      [] action = "freeze" -> <<Put("lock", TRUE, parts)>>
      [] action = "brightness" -> <<Put("brightness", 1, parts)>>
      [] action = "test_pattern" -> <<Put("pattern", 1, parts)>>
      [] OTHER -> <<>>
\* The receiving cards' own registers, on the parts a target stands for.
CardWrites(action, parts) ==
    CASE action \in Mode ->
            <<Put("kill", action = "blackout", parts),
              Put("lock", action = "freeze", parts)>>
      [] action = "brightness" -> <<Put("brightness", 1, parts)>>
      [] action = "test_pattern" -> <<Put("pattern", 1, parts)>>
      [] OTHER -> <<>>

all_on_port_broadcast(p) == Part
all_on_port(p) == {p}

\* The cards of the i-th of some ports, counted from the lowest.
nth_port(ports, i) ==
    UNION {all_on_port(p) : p \in {q \in ports : Cardinality({r \in ports : r < q}) = i - 1}}

\* Port after port, once every port is known to exist.
PortWrites(d, action, ports) ==
    IF Path[d] = "coex" \/ ~(ports \subseteq Part) THEN Refused
    ELSE LET each == Len(CardWrites(action, {})) IN
         [k \in 1..each * Cardinality(ports) |->
            CardWrites(action, nth_port(ports, ((k - 1) \div each) + 1))[((k - 1) % each) + 1]]

set_display_mode(d, action) ==
    IF Path[d] = "cards" THEN CardWrites(action, Part)
    ELSE <<Put("display", action, {})>>

set_brightness(d) ==
    IF Path[d] = "coex" THEN <<Put("screens", 0, {}), Put("brightness", 1, Part)>>
    ELSE CardWrites("brightness", Part)

set_test_pattern(d) ==
    IF Path[d] = "coex" THEN Refused ELSE CardWrites("test_pattern", Part)

apply_preset == <<Put("brightness", 2, Part)>>

\* A COEX controller is asked for its inputs first; the others have the codes
\* of their model, which the "cards" devices lack.
select_input(d) ==
    CASE Path[d] = "coex" -> <<Put("sources", 0, {}), Put("input", 1, {})>>
      [] Path[d] = "level" -> <<Put("input", 1, {})>>
      [] Path[d] = "cards" -> Refused

set_panel_lock(d) == IF Path[d] = "level" THEN <<Put("locked", TRUE, {})>> ELSE Refused

\* ports narrows the actions that know of them; screen_ids narrows none.
dispatch(d, action, ports) ==
    CASE action = "apply_preset" -> apply_preset
      [] action = "select_input" -> select_input(d)
      [] action = "panel_lock" -> set_panel_lock(d)
      [] action \notin Whole /\ ports # {} -> PortWrites(d, action, ports)
      [] action \in Mode /\ ports = {} -> set_display_mode(d, action)
      [] action = "brightness" /\ ports = {} -> set_brightness(d)
      [] action = "test_pattern" /\ ports = {} -> set_test_pattern(d)

-----------------------------------------------------------------------------
(* The command, one member after another.                                    *)

ExecuteScreen ==
    /\ ~Driving /\ commands < MaxCommands
    /\ \E members \in Layout, action \in Action :
        command' = [action |-> action, members |-> members]
    /\ records' = <<>> /\ plan' = <<>> /\ ended' = "running"
    /\ commands' = commands + 1
    /\ UNCHANGED <<cards, display, panel, connected, paths>>

\* The next member's turn, or the end of the command.
Record(ok) ==
    /\ records' = Append(records, [member |-> Member, ok |-> ok])
    /\ command' = [command EXCEPT !.members = Tail(@)]
    /\ ended' = IF Len(command.members) = 1 THEN "returned" ELSE ended
    /\ plan' = <<>>

UnknownDevice ==
    /\ Driving /\ plan = <<>> /\ Member.address \notin Device
    /\ Record(FALSE)
    /\ UNCHANGED <<cards, display, panel, connected, paths, commands>>

Begin ==
    /\ Driving /\ plan = <<>> /\ Member.address \in Device
    /\ \/ /\ connected' = [connected EXCEPT ![Member.address] = TRUE]
          /\ plan' = Append(dispatch(Member.address, command.action, Member.ports),
                            Put("reread", 0, {}))
          /\ UNCHANGED <<command, records, ended>>
       \/ /\ ~connected[Member.address]    \* _connect says why not
          /\ Record(FALSE)
          /\ UNCHANGED connected
    /\ UNCHANGED <<cards, display, panel, paths, commands>>

\* What a write does on the device.
Effect(write) ==
    LET d == Member.address IN
    /\ display' = IF write.register = "display"
                  THEN [display EXCEPT ![d] = write.value] ELSE display
    /\ panel' = IF write.register \in {"input", "locked"}
                THEN [panel EXCEPT ![d][write.register] = write.value] ELSE panel
    /\ cards' = [cards EXCEPT ![d] = [p \in Part |->
           IF p \in write.parts THEN [cards[d][p] EXCEPT ![write.register] = write.value]
           ELSE cards[d][p]]]
    /\ paths' = [paths EXCEPT ![d] = @ \cup
           IF write.register = "display" THEN {"display"}
           ELSE IF write.register \in {"kill", "lock"} THEN {"cards"} ELSE {}]

NoEffect == UNCHANGED <<cards, display, panel, paths>>
Sending == Driving /\ plan # <<>> /\ Head(plan).register \notin {"refused", "reread"}

Write ==
    /\ Sending
    /\ Effect(Head(plan))
    /\ plan' = Tail(plan)
    /\ UNCHANGED <<connected, command, records, ended, commands>>

\* An error answer, or none that matches: the write may have taken effect.
WriteRefused ==
    /\ Sending
    /\ Effect(Head(plan)) \/ NoEffect
    /\ Record(FALSE)
    /\ UNCHANGED <<connected, commands>>

\* An OSError also closes the session.
WriteLost ==
    /\ Sending
    /\ Effect(Head(plan)) \/ NoEffect
    /\ Record(FALSE)
    /\ connected' = [connected EXCEPT ![Member.address] = FALSE]
    /\ UNCHANGED commands

\* CapabilityUnknown, NotSupported, a port the model does not have.
NotSent ==
    /\ Driving /\ plan # <<>> /\ Head(plan).register = "refused"
    /\ Record(FALSE)
    /\ UNCHANGED <<cards, display, panel, connected, paths, commands>>

\* The change is read back; what the read says is not about the command.
Reread ==
    /\ Driving /\ plan # <<>> /\ Head(plan).register = "reread"
    /\ Record(TRUE)
    /\ UNCHANGED <<cards, display, panel, connected, paths, commands>>

\* Nobody catches a CoexError, of a write or of the reading after it.
Escape ==
    /\ Driving /\ plan # <<>> /\ Path[Member.address] = "coex"
    /\ Head(plan).register # "refused"
    /\ IF Head(plan).register = "reread" THEN NoEffect
       ELSE Effect(Head(plan)) \/ NoEffect
    /\ command' = [command EXCEPT !.members = <<>>]
    /\ plan' = <<>> /\ ended' = "raised"
    /\ UNCHANGED <<connected, records, commands>>

Next ==
    \/ ExecuteScreen \/ UnknownDevice \/ Begin \/ Write \/ WriteRefused
    \/ WriteLost \/ NotSent \/ Reread \/ Escape

Spec == Init /\ [][Next]_vars

-----------------------------------------------------------------------------
TypeOK ==
    /\ cards \in [Device -> [Part -> [kill : BOOLEAN, lock : BOOLEAN,
                                      brightness : 0..2, pattern : 0..1]]]
    /\ display \in [Device -> Mode]
    /\ panel \in [Device -> [input : 0..1, locked : BOOLEAN]]
    /\ connected \in [Device -> BOOLEAN]
    /\ paths \in [Device -> SUBSET {"display", "cards"}]
    /\ plan # <<>> => Driving /\ connected[Member.address]
    /\ ended = "running" <=> Driving

\* What the LEDs of a part show.
Shown(d, p) ==
    IF cards[d][p].kill \/ display[d] = "blackout" THEN "blackout"
    ELSE IF cards[d][p].lock \/ display[d] = "freeze" THEN "freeze" ELSE "normal"

\* The parts a member names.
Named(m) ==
    IF whole_device(m) THEN Part ELSE (m.ports \cup m.screen_ids) \cap Part
Untouched(d, p) == cards'[d][p] = cards[d][p] /\ display'[d] = display[d]

\* An action that knows of ports leaves every part alone that a member with
\* ports does not name, in whatever order and however often it fails (state.py:468).
PortsAreKept ==
    [][\A d \in Device, p \in Part :
         Driving /\ command.action \notin Whole /\ Member.ports # {}
            /\ ~(Member.address = d /\ p \in Named(Member))
         => Untouched(d, p)]_vars

\* A member whose record is ok shows the mode that was asked for, on every part
\* it was driven on, after any partial failures before.  Black is black; normal
\* and freeze may be hidden by the other of two ways a device was addressed.  An
\* input that was selected is the one the device is on.
AcknowledgedModeShows ==
    \A i \in DOMAIN records :
        LET m == records[i].member IN
        records[i].ok =>
        /\ command.action = "select_input" => panel[m.address].input = 1
        /\ command.action \in Mode =>
            \A p \in IF m.ports = {} THEN Part ELSE m.ports :
                \/ Shown(m.address, p) = command.action
                \/ command.action # "blackout" /\ Cardinality(paths[m.address]) = 2

\* The claim of state.py:468, of members with screen_ids too: only the parts a
\* member names change.
MembersKeepToTheirParts ==
    [][\A d \in Device, p \in Part :
         Driving /\ command.action \notin Whole
            /\ ~(Member.address = d /\ p \in Named(Member)) => Untouched(d, p)]_vars
=============================================================================
