------------------------------- MODULE Contact ------------------------------
(* First contact with whatever is at an address: identify, the survey of a   *)
(* device, Processor.connect and bringup.run, with the classification of a   *)
(* register and the walk along the chains of receiving cards.  They may run  *)
(* against a live screen, so what they open matters: a register-bus session  *)
(* takes a controller away from the program that drives it.                  *)
EXTENDS Integers, FiniteSets, Sequences

CONSTANTS
    Endpoints,  \* how many HTTP endpoints bring-up asks
    Poisons,    \* how many registers the buffer is poisoned from
    Ports,      \* ports walked
    Cards,      \* positions walked on each port
    Chain,      \* positions a chain may have
    Hosts       \* addresses a survey may go through

ContactAssumption ==
    /\ Endpoints \in Nat \ {0} /\ Poisons \in Nat \ {0}
    /\ Ports \in Nat \ {0} /\ Cards \in Nat \ {0} /\ Chain \in Nat
    /\ Hosts \in Nat

VARIABLES
    tool,       \* which of the four runs
    hosts,      \* addresses a survey has left
    allow,      \* may the register bus be used: "yes", "no" or "unless" HTTP answers
    step,       \* what is done next
    asked,      \* bring-up: endpoints asked so far
    untried,    \* register-bus ports still to be tried
    session,    \* the port of the open register-bus session, 0 for none
    answered,   \* the HTTP API is taken to be there
    reached,    \* the port at which identify found a register-bus device
    spoke,      \* history: what the HTTP API answered, see Spoken
    walk,       \* the card walk: port, index, misses in a row, and what it found
    register    \* the register under test, the poisons, the buffer, the trials
vars == <<tool, hosts, allow, step, asked, untried, session, answered, reached, spoke,
          walk, register>>

TCP_PORT == 5200
VX_PRO_TCP_PORT == 15200
\* A survey names the one port.
Candidates == IF tool = "survey" THEN <<TCP_PORT>> ELSE <<TCP_PORT, VX_PRO_TCP_PORT>>
\* data; a CoexError; HTTP 404 and the like; an OSError; not JSON
Outcome == {"ok", "code", "missing", "lost", "garbled"}
\* Data or an error code, which is in the API's own format too.  A "refusal" is
\* an error code for device_info; "poll" are answers to a survey's poll that
\* brought no model and no cabinet.
Spoken == {"answer", "refusal", "poll"}
Speaks(outcome) == IF outcome \in {"ok", "code"} THEN {"answer"} ELSE {}
Ended == {"off", "returned", "raised"}

NoWalk == [present |-> {}, port |-> 0, index |-> 0, misses |-> 0,
           found |-> {}, unread |-> {}, saturated |-> {}]
NoRegister == [candidate |-> 0, poisons |-> <<>>, buffer |-> 0, trials |-> <<>>, read |-> 0]

Init ==
    /\ tool = "none" /\ hosts = 0 /\ allow = "no" /\ step = "off" /\ asked = 0
    /\ untried = <<>> /\ session = 0 /\ answered = FALSE /\ reached = 0
    /\ spoke = {} /\ walk = NoWalk /\ register = NoRegister

Begin ==
    /\ step = "off"
    /\ \/ tool' \in {"identify", "connect"} /\ allow' \in {"yes", "no"} /\ step' = "device"
       \/ tool' = "survey" /\ allow' \in {"yes", "no"} /\ step' = "discovery"
       \/ tool' = "bringup" /\ allow' \in {"yes", "no", "unless"} /\ step' = "discovery"
    /\ UNCHANGED <<hosts, asked, untried, session, answered, reached, spoke, walk, register>>

-----------------------------------------------------------------------------
(* By broadcast: a survey has its addresses from it, bring-up only a record.  *)

\* Addresses are supplied or answer, each taken once; the system may refuse the
\* socket, and then there is no survey.
Discover ==
    /\ step = "discovery" /\ tool = "survey"
    /\ \/ hosts' \in 0..Hosts /\ step' = "next"
       \/ UNCHANGED hosts /\ step' = "raised"
    /\ UNCHANGED <<tool, allow, asked, untried, session, answered, reached, spoke, walk, register>>

\* Bring-up goes on whatever was overheard, and without a socket too.
_discovery ==
    /\ step = "discovery" /\ tool = "bringup"
    /\ step' = "endpoint"
    /\ UNCHANGED <<tool, hosts, allow, asked, untried, session, answered, reached, spoke, walk, register>>

\* What is known of one address is not known of the next.
NextHost ==
    /\ step = "next" /\ hosts > 0
    /\ hosts' = hosts - 1 /\ step' = "poll"
    /\ untried' = <<>> /\ answered' = FALSE /\ reached' = 0 /\ spoke' = {}
    /\ UNCHANGED <<tool, allow, asked, session, walk, register>>

NoHostLeft ==
    /\ step = "next" /\ hosts = 0
    /\ step' = "returned"
    /\ UNCHANGED <<tool, hosts, allow, asked, untried, session, answered, reached, spoke, walk, register>>

\* One address is done with.
Done == IF tool = "survey" THEN "next" ELSE "returned"

bus == <<asked, untried, session, reached, walk, register>>

-----------------------------------------------------------------------------
(* Over HTTP.                                                                *)

\* The bus is for an address whose HTTP API did not answer.
\* Where it may not be used connect says that nothing answered.
ToBus == IF allow = "no"
         THEN step' = (IF tool = "connect" THEN "raised" ELSE Done) /\ UNCHANGED untried
         ELSE step' = "open" /\ untried' = Candidates

\* CoexMonitor.poll: reachable with a model, with cabinets, or without an error;
\* else some of what was asked may have been answered all the same.
SurveyPoll ==
    /\ step = "poll"
    /\ \E model, cabinets, errors \in BOOLEAN :
        IF model \/ cabinets \/ ~errors
        THEN step' = Done /\ spoke' = {"answer"} /\ answered' = TRUE
        ELSE /\ step' = IF allow = "no" THEN Done ELSE "device"
             /\ spoke' \in {{}, {"poll"}}
             /\ UNCHANGED answered
    /\ UNCHANGED <<tool, hosts, allow, bus>>

DeviceInfo ==
    /\ step = "device"
    /\ \E outcome \in Outcome :
        /\ spoke' = spoke \cup (IF outcome = "code" THEN {"refusal"} ELSE Speaks(outcome))
        /\ answered' = (outcome = "ok")
        /\ \/ outcome = "ok" /\ step' = "name" /\ UNCHANGED untried
           \/ outcome = "missing" /\ step' = "screens" /\ UNCHANGED untried
           \/ outcome \notin {"ok", "missing"} /\ ToBus
    /\ UNCHANGED <<tool, hosts, allow, asked, session, reached, walk, register>>

Answering_only_data == {"ok"}
\* An error in the API's own format is an answer too.
Answering == {"ok", "code"}

Screens ==
    /\ step = "screens"
    /\ \E outcome \in Outcome :
        /\ spoke' = spoke \cup Speaks(outcome)
        /\ answered' = (outcome \in Answering)
        /\ IF outcome \in Answering THEN step' = "name" /\ UNCHANGED untried ELSE ToBus
    /\ UNCHANGED <<tool, hosts, allow, asked, session, reached, walk, register>>

\* The model is in what device_info said, or else in the name that monitor/info
\* gives; with neither it is a COEX controller all the same.
Name ==
    /\ step = "name"
    /\ \/ UNCHANGED spoke
       \/ \E outcome \in Outcome : spoke' = spoke \cup Speaks(outcome)
    /\ step' = Done
    /\ UNCHANGED <<tool, hosts, allow, answered, bus>>

\* bringup: every endpoint is asked, whatever the others said.
AskEndpoint ==
    /\ step = "endpoint" /\ asked < Endpoints
    /\ \E outcome \in Outcome :
        /\ spoke' = spoke \cup Speaks(outcome)
        /\ answered' = (answered \/ outcome \in Answering)
    /\ asked' = asked + 1
    /\ UNCHANGED <<tool, hosts, allow, step, untried, session, reached, walk, register>>

BringUpDecides ==
    /\ step = "endpoint" /\ asked = Endpoints
    /\ IF allow = "yes" \/ (allow = "unless" /\ ~answered)
       THEN step' = "open" /\ untried' = Candidates
       ELSE step' = "returned" /\ UNCHANGED untried
    /\ UNCHANGED <<tool, hosts, allow, asked, session, answered, reached, spoke, walk, register>>

-----------------------------------------------------------------------------
(* On the register bus.                                                      *)

Open ==
    /\ step = "open" /\ untried # <<>>
    /\ \/ session' = Head(untried) /\ step' = "probe"
       \/ UNCHANGED <<session, step>>
    /\ untried' = Tail(untried)
    /\ UNCHANGED <<tool, hosts, allow, asked, answered, reached, spoke, walk, register>>

\* No port is left: connect says so, the others have found nothing.
NothingThere ==
    /\ step = "open" /\ untried = <<>>
    /\ step' = IF tool = "connect" THEN "raised" ELSE Done
    /\ UNCHANGED <<tool, hosts, allow, answered, spoke, bus>>

Close_at_end(outcome) == session' = IF outcome = "info" THEN 0 ELSE session
Close(outcome) == session' = 0      \* with, finally

\* "info" is a model that answered, "none" nobody, "broken" an OSError.
Probe ==
    /\ step = "probe"
    /\ \E outcome \in {"info", "none", "broken"} :
        \/ /\ tool # "bringup" /\ Close(outcome)
           /\ IF outcome = "info"
              THEN /\ reached' = session
                   /\ step' = IF tool = "connect" THEN "reopen" ELSE Done
              ELSE step' = "open" /\ UNCHANGED reached
           /\ UNCHANGED register
        \/ /\ tool = "bringup" /\ outcome = "info"
           /\ \E candidate, buffer \in 0..2, poisons \in [1..Poisons -> 0..2] :
                register' = [NoRegister EXCEPT !.candidate = candidate,
                                               !.poisons = poisons, !.buffer = buffer]
           /\ step' = "classify" /\ UNCHANGED <<session, reached>>
        \/ /\ tool = "bringup" /\ outcome # "info" /\ Close(outcome)
           /\ step' = IF outcome = "none" THEN "returned" ELSE "raised"
           /\ UNCHANGED <<register, reached>>
    /\ UNCHANGED <<tool, hosts, allow, asked, untried, answered, spoke, walk>>

\* Processor.connect opens what identify closed.
Reopen ==
    /\ step = "reopen"
    /\ \/ session' = reached /\ step' = "returned"
       \/ UNCHANGED session /\ step' = "raised"
    /\ UNCHANGED <<tool, hosts, allow, asked, untried, answered, reached, spoke, walk, register>>

-----------------------------------------------------------------------------
(* Is a register there, or does the device answer with what it answered      *)
(* before?  A register holds 1 or 2; 0 is one the firmware does not have.    *)

Payload(holds, buffer) == IF holds = 0 THEN buffer ELSE holds

\* A read reaches the device or not, and is answered or not.
Trial ==
    /\ step = "classify" /\ register.read < Poisons
    /\ \E poison, value \in {"answered", "unanswered", "unsent"} :
        LET holds == register.poisons[register.read + 1]
            first == IF poison = "unsent" THEN register.buffer
                     ELSE Payload(holds, register.buffer)
            second == IF value = "unsent" THEN first ELSE Payload(register.candidate, first)
        IN  register' = [register EXCEPT
                !.buffer = second, !.read = @ + 1,
                !.trials = IF poison = "answered" /\ value = "answered"
                           THEN Append(@, [poison |-> first, value |-> second]) ELSE @]
    /\ UNCHANGED <<tool, hosts, allow, step, asked, untried, session, answered, reached, spoke, walk>>

PoisonsSeen == {register.trials[i].poison : i \in DOMAIN register.trials}
ValuesSeen == {register.trials[i].value : i \in DOMAIN register.trials}
Echoed == \A i \in DOMAIN register.trials : register.trials[i].poison = register.trials[i].value

Verdict_undistinguished ==
    IF register.trials = <<>> THEN "unreadable"
    ELSE IF Cardinality(ValuesSeen) = 1 THEN "implemented"
    ELSE IF Echoed THEN "unimplemented" ELSE "inconclusive"
Verdict ==
    IF register.trials = <<>> THEN "unreadable"
    ELSE IF Cardinality(PoisonsSeen) < 2 THEN "no-distinct-poison"
    ELSE IF Cardinality(ValuesSeen) = 1 THEN "implemented"
    ELSE IF Echoed THEN "unimplemented" ELSE "inconclusive"

Classified == step = "classify" /\ register.read = Poisons

StartWalk ==
    /\ Classified
    /\ step' = "chains" /\ register' = NoRegister
    /\ UNCHANGED <<tool, hosts, allow, asked, untried, session, answered, reached, spoke, walk>>

\* Which cards are there is only now looked at.
Chains ==
    /\ step = "chains"
    /\ \E present \in SUBSET ((0..Ports-1) \X (0..Chain-1)) :
        walk' = [NoWalk EXCEPT !.present = present]
    /\ step' = "walk"
    /\ UNCHANGED <<tool, hosts, allow, asked, untried, session, answered, reached, spoke, register>>

-----------------------------------------------------------------------------
(* The cards on each port, until two positions in a row have none.           *)

Missed_in_all(misses, card) == IF card THEN misses ELSE misses + 1
Missed(misses, card) == IF card THEN 0 ELSE misses + 1
FoundOn(w, port) == {c \in w.found : c[1] = port}

\* To the next position, or to the next port with what is said of this one.
Advance(w) ==
    IF w.misses < 2 /\ w.index + 1 < Cards THEN [w EXCEPT !.index = @ + 1]
    ELSE [w EXCEPT !.port = @ + 1, !.index = 0, !.misses = 0,
                   !.saturated = IF Cardinality(FoundOn(w, w.port)) = Cards
                                 THEN @ \cup {w.port} ELSE @]

ProbeCard ==
    /\ step = "walk" /\ walk.port < Ports
    /\ LET here == <<walk.port, walk.index>> IN
       \E card \in {FALSE, (here \in walk.present)} :
        walk' = Advance([walk EXCEPT
                    !.misses = Missed(@, card),
                    !.found = IF card THEN @ \cup {here} ELSE @,
                    !.unread = IF card \/ here \notin walk.present THEN @ ELSE @ \cup {here}])
    /\ UNCHANGED <<tool, hosts, allow, step, asked, untried, session, answered, reached, spoke, register>>

\* The connection breaks: what the walk has found goes with the exception.
WalkBreaks ==
    /\ step = "walk" /\ walk.port < Ports
    /\ step' = "raised" /\ Close("broken")
    /\ UNCHANGED <<tool, hosts, allow, asked, untried, answered, reached, spoke, walk, register>>

\* The first card's monitoring block is read, answered or not.
WalkEnds ==
    /\ step = "walk" /\ walk.port = Ports
    /\ step' = "returned" /\ Close("none")
    /\ UNCHANGED <<tool, hosts, allow, asked, untried, answered, reached, spoke, walk, register>>

Next ==
    \/ Begin \/ Discover \/ _discovery \/ NextHost \/ NoHostLeft \/ SurveyPoll
    \/ DeviceInfo \/ Screens \/ Name \/ AskEndpoint \/ BringUpDecides
    \/ Open \/ NothingThere \/ Probe \/ Reopen \/ Trial \/ StartWalk
    \/ Chains \/ ProbeCard \/ WalkBreaks \/ WalkEnds

Spec == Init /\ [][Next]_vars

-----------------------------------------------------------------------------
TypeOK ==
    /\ allow \in {"yes", "no", "unless"} /\ asked \in 0..Endpoints
    /\ spoke \subseteq Spoken
    /\ session \in {0, TCP_PORT, VX_PRO_TCP_PORT}
    /\ walk.found \subseteq walk.present /\ walk.misses \in 0..1
    /\ register.read \in 0..Poisons /\ Len(register.trials) <= register.read

\* A register-bus session is opened only where it was allowed, and unless it
\* was asked for in so many words never after an answer of the HTTP API that the
\* tool heeds: any in bring-up, data from device_info, either kind from the
\* screens, a poll that describes the device (devices.py:554, bringup.py:297,
\* survey.py:183).  What the tools do not heed, BusIsForSilentBoxes is about.
HeededAnswersKeepTheBusShut ==
    [][session = 0 /\ session' # 0 =>
         /\ allow # "no"
         /\ "answer" \notin spoke \/ (tool = "bringup" /\ allow = "yes")]_vars

\* The claim of devices.py:539: if the HTTP API answers, in whichever way, the
\* register bus is not touched (bring-up opens it when told to all the same).
BusIsForSilentBoxes ==
    [][session = 0 /\ session' # 0 =>
         spoke = {} \/ (tool = "bringup" /\ allow = "yes")]_vars

\* However a tool ends, it leaves no session behind: only a processor that
\* connect returns holds one, and that where identify found it.
SessionsEnd ==
    step \in Ended /\ session # 0 =>
        tool = "connect" /\ step = "returned" /\ session = reached

\* A register is called implemented or unimplemented only when it is, whatever
\* reads failed and whichever poisons are not there themselves (bringup.py:228).
VerdictIsRight ==
    Classified => (Verdict = "implemented" => register.candidate # 0)
               /\ (Verdict = "unimplemented" => register.candidate = 0)

\* The only cards that are there and not reported are those that did not
\* answer, that lie behind two positions in a row that did not, or that lie
\* behind the scan limit; and if every position up to the limit answered, the
\* chain is said to be cut (bringup.py:361, 397).
CardsAreAccounted ==
    step = "walk" => \A c \in walk.present : c[1] < walk.port /\ c \notin walk.found =>
        \/ c \in walk.unread
        \/ \E i \in 0..c[2]-2 : <<c[1], i>> \notin walk.found /\ <<c[1], i+1>> \notin walk.found
        \/ c[2] >= Cards /\ (c[1] \in walk.saturated \/ Cardinality(FoundOn(walk, c[1])) < Cards)
=============================================================================
