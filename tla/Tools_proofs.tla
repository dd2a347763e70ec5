---------------------------- MODULE Tools_proofs ----------------------------
(* Proofs about the two parts of MCParts that may run against a live wall:   *)
(* first contact with whatever is at an address (Contact), for every number  *)
(* of endpoints, poisons, ports and cards, and the reversible checks of a    *)
(* controller (Verify), for every set of cabinets and levels.                *)
EXTENDS MCParts, TLAPS, FiniteSetTheorems, SequenceTheorems

-----------------------------------------------------------------------------
(* First contact: the inductive invariant                                    *)

\* Before the bus has been chosen there was no answer that is heeded; what chooses
\* it was allowed to, and had none unless it was told to use the bus all the same.
BusWasChosen ==
    /\ step \in {"off", "discovery", "poll", "device", "screens"} => "answer" \notin spoke
    /\ step = "endpoint" => tool = "bringup" /\ ("answer" \in spoke => answered)
    /\ step \in {"open", "probe", "reopen"} =>
        /\ allow # "no"
        /\ "answer" \notin spoke \/ (tool = "bringup" /\ allow = "yes")

\* Where a session may be open.
SessionIsHeld ==
    /\ step = "reopen" => tool = "connect"
    /\ session # 0 =>
        \/ step \in {"probe", "classify", "chains", "walk"}
        \/ tool = "connect" /\ step = "returned" /\ session = reached

Trials == Seq([poison : 0..2, value : 0..2])

RegisterTyped ==
    /\ register \in [candidate : 0..2, poisons : {<<>>} \cup [1..Poisons -> 0..2],
                    buffer : 0..2, trials : Trials, read : Nat]
    /\ step = "classify" => register.poisons \in [1..Poisons -> 0..2]

\* What was answered to each read is what the register holds, or else what the
\* device had in its buffer.
AnswersAreTrue ==
    \A i \in DOMAIN register.trials :
        register.trials[i].value =
            Con!Payload(register.candidate, register.trials[i].poison)

Position == (0..Ports-1) \X Nat

WalkTyped ==
    /\ walk \in [present : SUBSET Position, port : 0..Ports, index : 0..Cards-1,
                misses : 0..1, found : SUBSET Position, unread : SUBSET Position,
                saturated : SUBSET Nat]
    /\ walk.found \subseteq walk.present

\* The walk has been on the ports before this one and at the positions before
\* this one, not further than a port is scanned.
FoundBehind ==
    \A c \in walk.found :
        /\ c[2] < Cards
        /\ c[1] <= walk.port /\ (c[1] = walk.port => c[2] < walk.index)

\* On the port at hand nothing that is there was passed over that did answer.
Passed ==
    \A c \in walk.present :
        c[1] = walk.port /\ c[2] < walk.index => c \in walk.found \cup walk.unread

MissedLast ==
    walk.misses = 1 => walk.index > 0 /\ <<walk.port, walk.index - 1>> \notin walk.found

\* The ports that are done with, whether or not the walk still goes on.
Accounted ==
    \A c \in walk.present : c[1] < walk.port /\ c \notin walk.found =>
        \/ c \in walk.unread
        \/ \E i \in 0..c[2]-2 : <<c[1], i>> \notin walk.found /\ <<c[1], i+1>> \notin walk.found
        \/ c[2] >= Cards
           /\ (c[1] \in walk.saturated \/ Cardinality(Con!FoundOn(walk, c[1])) < Cards)

WalkInv == WalkTyped /\ FoundBehind /\ Passed /\ MissedLast /\ Accounted

ConInv ==
    BusWasChosen /\ SessionIsHeld /\ RegisterTyped /\ AnswersAreTrue /\ WalkInv

LEMMA ConAssumed ==
    Poisons \in Nat \ {0} /\ Ports \in Nat \ {0} /\ Cards \in Nat \ {0} /\ Chain \in Nat
BY PartsAssumption DEF Con!ContactAssumption

-----------------------------------------------------------------------------
(* First contact: which steps a session may be opened by                     *)

LEMMA ConInitHolds == Con!Init => ConInv
<1> SUFFICES ASSUME Con!Init PROVE ConInv
  OBVIOUS
<1>1. BusWasChosen /\ SessionIsHeld
  BY DEF Con!Init, BusWasChosen, SessionIsHeld
<1>2. RegisterTyped /\ AnswersAreTrue
  <2>1. <<>> \in Trials /\ DOMAIN <<>> = {}
    BY EmptySeq DEF Trials
  <2> QED
    BY <2>1 DEF Con!Init, Con!NoRegister, RegisterTyped, AnswersAreTrue
<1>3. WalkInv
  BY ConAssumed DEF Con!Init, Con!NoWalk, WalkInv, WalkTyped, FoundBehind, Passed,
     MissedLast, Accounted, Position
<1> QED
  BY <1>1, <1>2, <1>3 DEF ConInv

LEMMA BusStep == BusWasChosen /\ Con!Next => BusWasChosen'
<1> SUFFICES ASSUME BusWasChosen, Con!Next PROVE BusWasChosen'
  OBVIOUS
<1> USE DEF BusWasChosen, Con!Done, Con!ToBus, Con!bus
<1>1. CASE Con!Begin
  BY <1>1 DEF Con!Begin
<1>2. CASE Con!Discover \/ Con!_discovery \/ Con!NextHost \/ Con!NoHostLeft
  BY <1>2 DEF Con!Discover, Con!_discovery, Con!NextHost, Con!NoHostLeft
<1>3. CASE Con!SurveyPoll
  BY <1>3 DEF Con!SurveyPoll
<1>4. CASE Con!DeviceInfo
  BY <1>4 DEF Con!DeviceInfo, Con!Speaks
<1>5. CASE Con!Screens
  BY <1>5 DEF Con!Screens, Con!Answering, Con!Speaks
<1>6. CASE Con!Name
  BY <1>6 DEF Con!Name
<1>7. CASE Con!AskEndpoint \/ Con!BringUpDecides
  <2>1. CASE Con!AskEndpoint
    <3>1. /\ step = "endpoint" /\ UNCHANGED <<tool, allow, step>>
          /\ \E outcome \in Con!Outcome :
                /\ spoke' = spoke \cup (IF outcome \in {"ok", "code"} THEN {"answer"} ELSE {})
                /\ answered' = (answered \/ outcome \in {"ok", "code"})
      BY <2>1 DEF Con!AskEndpoint, Con!Answering, Con!Speaks
    <3>2. tool = "bringup" /\ ("answer" \in spoke => answered)
      BY <3>1
    <3>3. PICK outcome \in Con!Outcome :
            /\ spoke' = spoke \cup (IF outcome \in {"ok", "code"} THEN {"answer"} ELSE {})
            /\ answered' = (answered \/ outcome \in {"ok", "code"})
      BY <3>1
    <3>4. "answer" \in spoke' => "answer" \in spoke \/ outcome \in {"ok", "code"}
      BY <3>3
    <3>5. "answer" \in spoke' => answered'
      BY <3>2, <3>3, <3>4, Zenon
    <3> QED
      BY <3>1, <3>2, <3>5
  <2>2. CASE Con!BringUpDecides
    BY <2>2 DEF Con!BringUpDecides
  <2> QED
    BY <1>7, <2>1, <2>2
<1>8. CASE Con!Open \/ Con!NothingThere \/ Con!Reopen
  <2>1. CASE Con!Open
    BY <2>1 DEF Con!Open
  <2>2. CASE Con!NothingThere
    BY <2>2 DEF Con!NothingThere
  <2>3. CASE Con!Reopen
    BY <2>3 DEF Con!Reopen
  <2> QED
    BY <1>8, <2>1, <2>2, <2>3
<1>9. CASE Con!Probe
  BY <1>9 DEF Con!Probe
<1>10. CASE Con!Trial \/ Con!StartWalk \/ Con!Chains \/ Con!ProbeCard \/ Con!WalkBreaks \/ Con!WalkEnds
  BY <1>10 DEF Con!Trial, Con!StartWalk, Con!Chains, Con!ProbeCard, Con!WalkBreaks,
     Con!WalkEnds, Con!Classified
<1> QED
  BY <1>1, <1>2, <1>3, <1>4, <1>5, <1>6, <1>7, <1>8, <1>9, <1>10 DEF Con!Next

LEMMA SessionStep == SessionIsHeld /\ Con!Next => SessionIsHeld'
<1> SUFFICES ASSUME SessionIsHeld, Con!Next PROVE SessionIsHeld'
  OBVIOUS
<1> USE DEF SessionIsHeld, Con!Done, Con!ToBus, Con!bus
<1>1. CASE Con!Begin
  BY <1>1 DEF Con!Begin
<1>2. CASE Con!Discover \/ Con!_discovery \/ Con!NextHost \/ Con!NoHostLeft
  BY <1>2 DEF Con!Discover, Con!_discovery, Con!NextHost, Con!NoHostLeft
<1>3. CASE Con!SurveyPoll
  BY <1>3 DEF Con!SurveyPoll
<1>4. CASE Con!DeviceInfo
  BY <1>4 DEF Con!DeviceInfo
<1>5. CASE Con!Screens
  BY <1>5 DEF Con!Screens
<1>6. CASE Con!Name
  BY <1>6 DEF Con!Name
<1>7. CASE Con!AskEndpoint \/ Con!BringUpDecides
  BY <1>7 DEF Con!AskEndpoint, Con!BringUpDecides
<1>8. CASE Con!Open \/ Con!NothingThere \/ Con!Reopen
  BY <1>8 DEF Con!Open, Con!NothingThere, Con!Reopen
<1>9. CASE Con!Probe
  BY <1>9 DEF Con!Probe, Con!Close
<1>10. CASE Con!Trial \/ Con!StartWalk \/ Con!Chains \/ Con!ProbeCard
  BY <1>10 DEF Con!Trial, Con!StartWalk, Con!Chains, Con!ProbeCard, Con!Classified
<1>11. CASE Con!WalkBreaks \/ Con!WalkEnds
  BY <1>11 DEF Con!WalkBreaks, Con!WalkEnds, Con!Close
<1> QED
  BY <1>1, <1>2, <1>3, <1>4, <1>5, <1>6, <1>7, <1>8, <1>9, <1>10, <1>11 DEF Con!Next

-----------------------------------------------------------------------------
(* First contact: what a register answers                                    *)

LEMMA RegisterUnchanged ==
    ASSUME RegisterTyped, AnswersAreTrue, UNCHANGED register,
           step' = "classify" => step = "classify"
    PROVE  RegisterTyped' /\ AnswersAreTrue'
BY DEF RegisterTyped, AnswersAreTrue

LEMMA NoRegisterHolds ==
    ASSUME register' = Con!NoRegister, step' # "classify"
    PROVE  RegisterTyped' /\ AnswersAreTrue'
<1>1. <<>> \in Trials /\ DOMAIN <<>> = {}
  BY EmptySeq DEF Trials
<1> QED
  BY <1>1 DEF Con!NoRegister, RegisterTyped, AnswersAreTrue

\* A register under test: three numbers, the poisons and no trial yet.
LEMMA ProbeRegisters == RegisterTyped /\ AnswersAreTrue /\ Con!Probe => RegisterTyped' /\ AnswersAreTrue'
<1> SUFFICES ASSUME RegisterTyped, AnswersAreTrue, Con!Probe
             PROVE  RegisterTyped' /\ AnswersAreTrue'
  OBVIOUS
<1>1. CASE UNCHANGED register /\ step' # "classify"
  BY <1>1, RegisterUnchanged
<1>2. ASSUME NEW candidate \in 0..2, NEW buffered \in 0..2, NEW poisons \in [1..Poisons -> 0..2],
             register' = [Con!NoRegister EXCEPT !.candidate = candidate,
                                                !.poisons = poisons, !.buffer = buffered]
      PROVE  RegisterTyped' /\ AnswersAreTrue'
  <2>1. register' = [candidate |-> candidate, poisons |-> poisons, buffer |-> buffered,
                     trials |-> <<>>, read |-> 0]
    BY <1>2 DEF Con!NoRegister
  <2>2. <<>> \in Trials /\ DOMAIN <<>> = {}
    BY EmptySeq DEF Trials
  <2> QED
    BY <2>1, <2>2 DEF RegisterTyped, AnswersAreTrue
<1>3. \/ UNCHANGED register /\ step' # "classify"
      \/ \E candidate, buffered \in 0..2, poisons \in [1..Poisons -> 0..2] :
            register' = [Con!NoRegister EXCEPT !.candidate = candidate,
                                               !.poisons = poisons, !.buffer = buffered]
  BY DEF Con!Probe, Con!Done
<1> QED
  BY <1>1, <1>2, <1>3

\* A trial counts only when both its reads were answered, and the second then
\* answered with the candidate or with what the first had left in the buffer.
LEMMA TrialStep == RegisterTyped /\ AnswersAreTrue /\ Con!Trial => RegisterTyped' /\ AnswersAreTrue'
<1> SUFFICES ASSUME RegisterTyped, AnswersAreTrue, Con!Trial
             PROVE  RegisterTyped' /\ AnswersAreTrue'
  OBVIOUS
<1>1. PICK poison, value \in {"answered", "unanswered", "unsent"} :
        LET holds == register.poisons[register.read + 1]
            first == IF poison = "unsent" THEN register.buffer
                     ELSE Con!Payload(holds, register.buffer)
            second == IF value = "unsent" THEN first
                      ELSE Con!Payload(register.candidate, first)
        IN  register' = [register EXCEPT
                !.buffer = second, !.read = @ + 1,
                !.trials = IF poison = "answered" /\ value = "answered"
                           THEN Append(@, [poison |-> first, value |-> second]) ELSE @]
  BY DEF Con!Trial
<1> DEFINE holds == register.poisons[register.read + 1]
           first == IF poison = "unsent" THEN register.buffer
                    ELSE Con!Payload(holds, register.buffer)
           second == IF value = "unsent" THEN first
                     ELSE Con!Payload(register.candidate, first)
           both == poison = "answered" /\ value = "answered"
           old == register.trials
           trial == [poison |-> first, value |-> second]
           new == IF both THEN Append(old, trial) ELSE old
<1>2. /\ step = "classify" /\ step' = step /\ register.read < Poisons
      /\ register.read \in Nat /\ Poisons \in Nat
      /\ register.poisons \in [1..Poisons -> 0..2]
      /\ register.candidate \in 0..2 /\ register.buffer \in 0..2
      /\ old \in Seq([poison : 0..2, value : 0..2])
  BY ConAssumed DEF Con!Trial, RegisterTyped, Trials
<1>3. register' = [candidate |-> register.candidate, poisons |-> register.poisons,
                   buffer |-> second, trials |-> new, read |-> register.read + 1]
  <2>1. register = [candidate |-> register.candidate, poisons |-> register.poisons,
                    buffer |-> register.buffer, trials |-> old, read |-> register.read]
    BY DEF RegisterTyped
  <2>2. register' = [register EXCEPT !.buffer = second, !.read = @ + 1, !.trials = new]
    BY <1>1
  <2> HIDE DEF second, new
  <2> QED
    BY <2>1, <2>2
<1>4. holds \in 0..2
  BY <1>2
<1>5. first \in 0..2
  BY <1>2, <1>4 DEF Con!Payload
<1>6. second \in 0..2
  BY <1>2, <1>5 DEF Con!Payload
<1>7. both => second = Con!Payload(register.candidate, first)
  OBVIOUS
<1> HIDE DEF holds, first, second
<1>8. trial \in [poison : 0..2, value : 0..2]
  BY <1>5, <1>6
<1>9. /\ trial.poison = first /\ trial.value = second
      /\ \A i \in DOMAIN old : old[i].value = Con!Payload(register.candidate, old[i].poison)
  BY DEF AnswersAreTrue
<1> HIDE DEF trial, old, both
<1>10. /\ new \in Seq([poison : 0..2, value : 0..2])
       /\ \A i \in DOMAIN new : \/ i \in DOMAIN old /\ new[i] = old[i]
                                \/ both /\ new[i] = trial
  <2>1. CASE ~both
    BY <1>2, <2>1
  <2>2. CASE both
    <3>1. /\ Append(old, trial) \in Seq([poison : 0..2, value : 0..2])
          /\ Len(Append(old, trial)) = Len(old) + 1
          /\ \A i \in 1..Len(old) : Append(old, trial)[i] = old[i]
          /\ Append(old, trial)[Len(old) + 1] = trial
      BY <1>2, <1>8, AppendProperties
    <3>2. /\ DOMAIN old = 1..Len(old) /\ Len(old) \in Nat
          /\ DOMAIN Append(old, trial) = 1..Len(old) + 1
      BY <1>2, <3>1, LenProperties
    <3> HIDE DEF new
    <3>3. new = Append(old, trial)
      BY <2>2 DEF new
    <3> QED
      BY <2>2, <3>1, <3>2, <3>3
  <2> QED
    BY <2>1, <2>2
<1> HIDE DEF new
<1>11. RegisterTyped'
  BY <1>2, <1>3, <1>6, <1>10 DEF RegisterTyped, Trials
<1>12. \A i \in DOMAIN new : new[i].value = Con!Payload(register.candidate, new[i].poison)
  BY <1>7, <1>9, <1>10
<1>13. AnswersAreTrue'
  BY <1>3, <1>12 DEF AnswersAreTrue
<1> QED
  BY <1>11, <1>13

LEMMA RegisterStep ==
    RegisterTyped /\ AnswersAreTrue /\ Con!Next => RegisterTyped' /\ AnswersAreTrue'
<1> SUFFICES ASSUME RegisterTyped, AnswersAreTrue, Con!Next
             PROVE  RegisterTyped' /\ AnswersAreTrue'
  OBVIOUS
<1>1. CASE Con!Probe \/ Con!Trial
  BY <1>1, ProbeRegisters, TrialStep
<1>2. CASE Con!StartWalk
  BY <1>2, NoRegisterHolds DEF Con!StartWalk
<1>3. CASE Con!ProbeCard \/ Con!Chains \/ Con!WalkBreaks \/ Con!WalkEnds
  <2>1. UNCHANGED register /\ (step' = "classify" => step = "classify")
    BY <1>3 DEF Con!ProbeCard, Con!Chains, Con!WalkBreaks, Con!WalkEnds
  <2> QED
    BY <2>1, RegisterUnchanged
<1>4. CASE \/ Con!Begin \/ Con!Discover \/ Con!_discovery \/ Con!NextHost \/ Con!NoHostLeft
           \/ Con!SurveyPoll \/ Con!DeviceInfo \/ Con!Screens \/ Con!Name
           \/ Con!AskEndpoint \/ Con!BringUpDecides
  <2>1. UNCHANGED register /\ (step' = "classify" => step = "classify")
    BY <1>4 DEF Con!Begin, Con!Discover, Con!_discovery, Con!NextHost, Con!NoHostLeft,
       Con!SurveyPoll, Con!DeviceInfo, Con!Screens, Con!Name, Con!AskEndpoint,
       Con!BringUpDecides, Con!ToBus, Con!Done, Con!bus
  <2> QED
    BY <2>1, RegisterUnchanged
<1>5. CASE Con!Open \/ Con!NothingThere \/ Con!Reopen
  <2>1. UNCHANGED register /\ (step' = "classify" => step = "classify")
    BY <1>5 DEF Con!Open, Con!NothingThere, Con!Reopen, Con!Done, Con!bus
  <2> QED
    BY <2>1, RegisterUnchanged
<1> QED
  BY <1>1, <1>2, <1>3, <1>4, <1>5 DEF Con!Next

-----------------------------------------------------------------------------
(* First contact: the walk along the chains                                  *)

LEMMA SameCardinality == \A S : Con!Cardinality(S) = Cardinality(S)
BY DEF Con!Cardinality, Cardinality

\* A port has at most as many cards found as positions are scanned.
LEMMA ScanIsLimited ==
    ASSUME NEW F \in SUBSET Position, \A c \in F : c[2] < Cards, NEW p
    PROVE  LET here == {c \in F : c[1] = p}
           IN  Cardinality(here) \in Nat /\ Cardinality(here) <= Cards
<1> DEFINE here == {c \in F : c[1] = p}
           scanned == 0..Cards-1
           at == [i \in scanned |-> <<p, i>>]
           image == {at[i] : i \in scanned}
<1>1. Cards \in Nat \ {0}
  BY ConAssumed
<1>2. IsFiniteSet(scanned) /\ Cardinality(scanned) = Cards
  <2>1. 0 \in Int /\ Cards - 1 \in Int /\ ~(0 > Cards - 1) /\ (Cards - 1) - 0 + 1 = Cards
    BY <1>1
  <2> QED
    BY <2>1, FS_Interval
<1>3. IsFiniteSet(image) /\ Cardinality(image) <= Cards
  <2>1. at \in Surjection(scanned, image)
    BY DEF Surjection
  <2> QED
    BY <1>2, <2>1, FS_Surjection
<1>4. here \subseteq image
  <2>1. ASSUME NEW c \in here PROVE c \in image
    <3>1. c \in F /\ c[1] = p
      BY <2>1
    <3>2. c \in (0..Ports-1) \X Nat
      BY <3>1 DEF Position
    <3>3. c[2] \in scanned
      BY <1>1, <3>1, <3>2
    <3>4. c = <<c[1], c[2]>>
      BY <3>2
    <3> QED
      BY <3>1, <3>3, <3>4
  <2> QED
    BY <2>1
<1>5. IsFiniteSet(here) /\ Cardinality(here) <= Cardinality(image)
  BY <1>3, <1>4, FS_Subset
<1>6. Cardinality(here) \in Nat /\ Cardinality(image) \in Nat
  BY <1>3, <1>5, FS_CardinalityType
<1> QED
  BY <1>1, <1>3, <1>5, <1>6

LEMMA WalkUnchanged == WalkInv /\ UNCHANGED walk => WalkInv'
BY DEF WalkInv, WalkTyped, FoundBehind, Passed, MissedLast, Accounted, Con!FoundOn

LEMMA ChainsStep == Con!Chains => WalkInv'
<1> SUFFICES ASSUME Con!Chains PROVE WalkInv'
  OBVIOUS
<1>1. PICK there \in SUBSET ((0..Ports-1) \X (0..Chain-1)) :
        walk' = [Con!NoWalk EXCEPT !.present = there]
  BY DEF Con!Chains
<1>2. walk' = [present |-> there, port |-> 0, index |-> 0, misses |-> 0,
               found |-> {}, unread |-> {}, saturated |-> {}]
  BY <1>1 DEF Con!NoWalk
<1>3. there \in SUBSET Position
  <2>1. 0..Chain-1 \subseteq Nat
    BY ConAssumed
  <2> QED
    BY <2>1 DEF Position
<1>4. \A c \in there : c[1] >= 0 /\ c[2] >= 0 /\ c[1] \in Int /\ c[2] \in Int
  BY ConAssumed
<1>5. WalkTyped'
  BY <1>2, <1>3, ConAssumed DEF WalkTyped
<1>6. FoundBehind' /\ Passed' /\ MissedLast' /\ Accounted'
  BY <1>2, <1>4 DEF FoundBehind, Passed, MissedLast, Accounted
<1> QED
  BY <1>5, <1>6 DEF WalkInv

\* The position at hand is looked at: what the walk knows of the port before it
\* goes on, with misses counted, one card more or one that does not answer.
Examined(card, m, f, u) ==
    /\ card => <<walk.port, walk.index>> \in walk.present
    /\ m = IF card THEN 0 ELSE walk.misses + 1
    /\ f = IF card THEN walk.found \cup {<<walk.port, walk.index>>} ELSE walk.found
    /\ u = IF card \/ <<walk.port, walk.index>> \notin walk.present THEN walk.unread
           ELSE walk.unread \cup {<<walk.port, walk.index>>}

LEMMA ExaminedKnows ==
    ASSUME WalkInv, walk.port < Ports, NEW card \in BOOLEAN, NEW m, NEW f, NEW u,
           Examined(card, m, f, u)
    PROVE  /\ m \in 0..2 /\ f \in SUBSET Position /\ u \in SUBSET Position
           /\ f \subseteq walk.present
           /\ \A c \in f : /\ c[2] < Cards
                           /\ c[1] <= walk.port /\ (c[1] = walk.port => c[2] <= walk.index)
           /\ \A c \in walk.present :
                 c[1] = walk.port /\ c[2] <= walk.index => c \in f \cup u
           /\ m >= 1 => <<walk.port, walk.index>> \notin f
           /\ m = 2 => walk.index > 0 /\ <<walk.port, walk.index - 1>> \notin f
           /\ \A c \in walk.present : c[1] < walk.port /\ c \notin f =>
                 \/ c \in u
                 \/ \E i \in 0..c[2]-2 : <<c[1], i>> \notin f /\ <<c[1], i+1>> \notin f
                 \/ c[2] >= Cards
                    /\ (c[1] \in walk.saturated \/ Cardinality({b \in f : b[1] = c[1]}) < Cards)
<1> DEFINE p == walk.port
           n == walk.index
           here == <<p, n>>
<1>1. /\ p \in 0..Ports-1 /\ n \in 0..Cards-1 /\ walk.misses \in 0..1
      /\ Ports \in Nat /\ Cards \in Nat
      /\ walk.present \in SUBSET Position /\ walk.found \in SUBSET Position
      /\ walk.unread \in SUBSET Position /\ walk.found \subseteq walk.present
  BY ConAssumed DEF WalkInv, WalkTyped
<1>2. /\ card => here \in walk.present
      /\ m = IF card THEN 0 ELSE walk.misses + 1
      /\ f = IF card THEN walk.found \cup {here} ELSE walk.found
      /\ u = IF card \/ here \notin walk.present THEN walk.unread ELSE walk.unread \cup {here}
  BY DEF Examined
<1>3. here \in Position /\ here[1] = p /\ here[2] = n
  BY <1>1 DEF Position
<1>4. \A c \in Position : c = <<c[1], c[2]>> /\ c[1] \in Int /\ c[2] \in Nat
  BY DEF Position
<1>5. \A c \in walk.found : c[2] < Cards /\ c[1] <= p /\ (c[1] = p => c[2] < n)
  BY DEF WalkInv, FoundBehind
<1>6. here \notin walk.found
  BY <1>1, <1>3, <1>5
<1>7. /\ \A c \in walk.present : c[1] = p /\ c[2] < n => c \in walk.found \cup walk.unread
      /\ walk.misses = 1 => n > 0 /\ <<p, n - 1>> \notin walk.found
  BY DEF WalkInv, Passed, MissedLast
<1>8. ASSUME NEW c \in walk.present, c[1] < p, c \notin f
      PROVE  \/ c \in u
             \/ \E i \in 0..c[2]-2 : <<c[1], i>> \notin f /\ <<c[1], i+1>> \notin f
             \/ c[2] >= Cards
                /\ (c[1] \in walk.saturated \/ Cardinality({b \in f : b[1] = c[1]}) < Cards)
  <2>1. c \notin walk.found
    BY <1>2, <1>8
  <2>2. \/ c \in walk.unread
        \/ \E i \in 0..c[2]-2 :
              <<c[1], i>> \notin walk.found /\ <<c[1], i+1>> \notin walk.found
        \/ c[2] >= Cards
           /\ (c[1] \in walk.saturated \/ Cardinality(Con!FoundOn(walk, c[1])) < Cards)
    BY <1>8, <2>1 DEF WalkInv, Accounted
  <2>3. c[1] # p /\ c[1] \in Int
    BY <1>1, <1>4, <1>8
  <2>4. \A i : <<c[1], i>> # here
    BY <2>3
  <2>5. \A i : <<c[1], i>> \notin walk.found => <<c[1], i>> \notin f
    BY <1>2, <2>4
  <2>6. {b \in f : b[1] = c[1]} = Con!FoundOn(walk, c[1])
    BY <1>2, <1>3, <2>3 DEF Con!FoundOn
  <2>7. c \in walk.unread => c \in u
    BY <1>2
  <2> QED
    BY <2>2, <2>5, <2>6, <2>7
<1> HIDE DEF p, n, here
<1>9. m \in 0..2 /\ f \in SUBSET Position /\ u \in SUBSET Position /\ f \subseteq walk.present
  BY <1>1, <1>2, <1>3
<1>10. \A c \in f : c[2] < Cards /\ c[1] <= p /\ (c[1] = p => c[2] <= n)
  BY <1>1, <1>2, <1>3, <1>4, <1>5
<1>11. \A c \in walk.present : c[1] = p /\ c[2] <= n => c \in f \cup u
  <2>1. ASSUME NEW c \in walk.present, c[1] = p, c[2] <= n PROVE c \in f \cup u
    <3>1. CASE c[2] < n
      BY <1>2, <1>7, <2>1, <3>1
    <3>2. CASE c[2] = n
      <4>1. c = here
        BY <1>1, <1>4, <2>1, <3>2 DEF here
      <4> QED
        BY <1>2, <2>1, <4>1
    <3> QED
      BY <1>1, <1>4, <2>1, <3>1, <3>2
  <2> QED
    BY <2>1
<1>12. m >= 1 => here \notin f
  BY <1>1, <1>2, <1>6
<1>13. m = 2 => n > 0 /\ <<p, n - 1>> \notin f
  BY <1>1, <1>2, <1>7
<1> QED
  BY <1>8, <1>9, <1>10, <1>11, <1>12, <1>13 DEF p, n, here

LEMMA WalkExcept ==
    ASSUME WalkTyped, NEW m, NEW f, NEW u
    PROVE  [walk EXCEPT !.misses = m, !.found = f, !.unread = u] =
             [present |-> walk.present, port |-> walk.port, index |-> walk.index, misses |-> m,
              found |-> f, unread |-> u, saturated |-> walk.saturated]
<1> DEFINE counted == [walk EXCEPT !.misses = m]
           seen == [counted EXCEPT !.found = f]
           all == [seen EXCEPT !.unread = u]
<1>1. counted = [present |-> walk.present, port |-> walk.port, index |-> walk.index,
                 misses |-> m, found |-> walk.found, unread |-> walk.unread,
                 saturated |-> walk.saturated]
  BY DEF WalkTyped
<1> HIDE DEF counted
<1>2. seen = [present |-> walk.present, port |-> walk.port, index |-> walk.index,
              misses |-> m, found |-> f, unread |-> walk.unread,
              saturated |-> walk.saturated]
  BY <1>1
<1> HIDE DEF seen
<1>3. all = [present |-> walk.present, port |-> walk.port, index |-> walk.index,
             misses |-> m, found |-> f, unread |-> u, saturated |-> walk.saturated]
  BY <1>2
<1> QED
  BY <1>3 DEF counted, seen, all

\* On to the next position, or to the next port with what is said of this one.
LEMMA ProbeCardStep == WalkInv /\ Con!ProbeCard => WalkInv'
<1> SUFFICES ASSUME WalkInv, Con!ProbeCard PROVE WalkInv'
  OBVIOUS
<1> DEFINE p == walk.port
           n == walk.index
           here == <<p, n>>
<1>1. PICK card \in {FALSE, (here \in walk.present)} :
        walk' = Con!Advance([walk EXCEPT
                    !.misses = Con!Missed(@, card),
                    !.found = IF card THEN @ \cup {here} ELSE @,
                    !.unread = IF card \/ here \notin walk.present THEN @ ELSE @ \cup {here}])
  BY DEF Con!ProbeCard
<1>2. card \in BOOLEAN /\ (card => here \in walk.present)
  <2>1. card = FALSE \/ card = (here \in walk.present)
    OBVIOUS
  <2>2. (here \in walk.present) \in BOOLEAN
    OBVIOUS
  <2>3. card \in BOOLEAN
    BY <2>1, <2>2
  <2>4. card => here \in walk.present
    BY <2>1, Zenon
  <2> QED
    BY <2>3, <2>4
<1> DEFINE m == IF card THEN 0 ELSE walk.misses + 1
           f == IF card THEN walk.found \cup {here} ELSE walk.found
           u == IF card \/ here \notin walk.present THEN walk.unread ELSE walk.unread \cup {here}
           seen == [present |-> walk.present, port |-> p, index |-> n, misses |-> m,
                    found |-> f, unread |-> u, saturated |-> walk.saturated]
           full == Cardinality({c \in f : c[1] = p}) = Cards
           said == IF full THEN walk.saturated \cup {p} ELSE walk.saturated
<1>3. /\ p \in 0..Ports-1 /\ n \in 0..Cards-1 /\ Ports \in Nat /\ Cards \in Nat
      /\ walk.present \in SUBSET Position /\ walk.saturated \in SUBSET Nat
      /\ p < Ports
  BY ConAssumed DEF WalkInv, WalkTyped, Con!ProbeCard
<1>4. walk' = Con!Advance(seen)
  <2>1. [walk EXCEPT !.misses = m, !.found = f, !.unread = u] = seen
    <3> HIDE DEF m, f, u
    <3> QED
      BY WalkExcept DEF WalkInv
  <2>2. walk' = Con!Advance([walk EXCEPT !.misses = m, !.found = f, !.unread = u])
    BY <1>1 DEF Con!Missed
  <2> QED
    BY <2>1, <2>2
<1>5. Examined(card, m, f, u)
  BY <1>2 DEF Examined
<1> HIDE DEF m, f, u
<1>6. /\ m \in 0..2 /\ f \in SUBSET Position /\ u \in SUBSET Position
      /\ f \subseteq walk.present
      /\ \A c \in f : c[2] < Cards /\ c[1] <= p /\ (c[1] = p => c[2] <= n)
      /\ \A c \in walk.present : c[1] = p /\ c[2] <= n => c \in f \cup u
      /\ m >= 1 => here \notin f
      /\ m = 2 => n > 0 /\ <<p, n - 1>> \notin f
      /\ \A c \in walk.present : c[1] < p /\ c \notin f =>
            \/ c \in u
            \/ \E i \in 0..c[2]-2 : <<c[1], i>> \notin f /\ <<c[1], i+1>> \notin f
            \/ c[2] >= Cards
               /\ (c[1] \in walk.saturated \/ Cardinality({b \in f : b[1] = c[1]}) < Cards)
  BY <1>2, <1>3, <1>5, ExaminedKnows
<1>7. walk' = IF m < 2 /\ n + 1 < Cards
              THEN [present |-> walk.present, port |-> p, index |-> n + 1, misses |-> m,
                    found |-> f, unread |-> u, saturated |-> walk.saturated]
              ELSE [present |-> walk.present, port |-> p + 1, index |-> 0, misses |-> 0,
                    found |-> f, unread |-> u, saturated |-> said]
  <2> HIDE DEF p, n
  <2>1. Con!FoundOn(seen, p) = {c \in f : c[1] = p}
    BY DEF Con!FoundOn
  <2>2. CASE m < 2 /\ n + 1 < Cards
    <3>1. Con!Advance(seen) = [seen EXCEPT !.index = n + 1]
      BY <2>2 DEF Con!Advance
    <3> QED
      BY <1>4, <2>2, <3>1
  <2>3. CASE ~(m < 2 /\ n + 1 < Cards)
    <3>1. Con!Advance(seen) = [seen EXCEPT !.port = p + 1, !.index = 0, !.misses = 0,
                                           !.saturated = said]
      BY <2>1, <2>3, SameCardinality DEF Con!Advance
    <3> HIDE DEF said
    <3> QED
      BY <1>4, <2>3, <3>1
  <2> QED
    BY <2>2, <2>3
<1>8. \A c \in Position : c = <<c[1], c[2]>> /\ c[1] \in Int /\ c[2] \in Nat
  BY DEF Position
<1> HIDE DEF p, n, said
<1>9. CASE m < 2 /\ n + 1 < Cards
  <2>1. walk' = [present |-> walk.present, port |-> p, index |-> n + 1, misses |-> m,
                 found |-> f, unread |-> u, saturated |-> walk.saturated]
    BY <1>7, <1>9
  <2>2. WalkTyped'
    <3>1. n + 1 \in 0..Cards-1 /\ m \in 0..1 /\ p \in 0..Ports
      BY <1>3, <1>6, <1>9
    <3> QED
      BY <1>3, <1>6, <2>1, <3>1 DEF WalkTyped
  <2>3. FoundBehind'
    <3>1. \A c \in f : c[2] < Cards /\ c[1] <= p /\ (c[1] = p => c[2] < n + 1)
      BY <1>3, <1>6, <1>8
    <3> QED
      BY <2>1, <3>1 DEF FoundBehind
  <2>4. Passed'
    <3>1. \A c \in walk.present : c[1] = p /\ c[2] < n + 1 => c \in f \cup u
      BY <1>3, <1>6, <1>8
    <3> QED
      BY <2>1, <3>1 DEF Passed
  <2>5. MissedLast'
    <3>1. m = 1 => n + 1 > 0 /\ <<p, (n + 1) - 1>> \notin f
      BY <1>3, <1>6 DEF p, n
    <3> QED
      BY <2>1, <3>1 DEF MissedLast
  <2>6. Accounted'
    BY <1>6, <2>1 DEF Accounted, Con!FoundOn
  <2> QED
    BY <2>2, <2>3, <2>4, <2>5, <2>6 DEF WalkInv
<1>10. CASE ~(m < 2 /\ n + 1 < Cards)
  <2>1. walk' = [present |-> walk.present, port |-> p + 1, index |-> 0, misses |-> 0,
                 found |-> f, unread |-> u, saturated |-> said]
    BY <1>7, <1>10
  <2>2. WalkTyped'
    <3>1. p + 1 \in 0..Ports /\ 0 \in 0..Cards-1 /\ said \in SUBSET Nat
      BY <1>3 DEF said
    <3> QED
      BY <1>3, <1>6, <2>1, <3>1 DEF WalkTyped
  <2>3. FoundBehind'
    <3>1. \A c \in f : c[2] < Cards /\ c[1] <= p + 1 /\ c[1] # p + 1
      BY <1>3, <1>6, <1>8
    <3> QED
      BY <2>1, <3>1 DEF FoundBehind
  <2>4. Passed'
    <3>1. \A c \in walk.present : ~(c[2] < 0)
      BY <1>3, <1>8
    <3> QED
      BY <2>1, <3>1 DEF Passed
  <2>5. MissedLast'
    BY <2>1 DEF MissedLast
  <2>6. ASSUME NEW c \in walk.present, c[1] < p + 1, c \notin f
        PROVE  \/ c \in u
               \/ \E i \in 0..c[2]-2 : <<c[1], i>> \notin f /\ <<c[1], i+1>> \notin f
               \/ c[2] >= Cards
                  /\ (c[1] \in said \/ Cardinality({b \in f : b[1] = c[1]}) < Cards)
    <3>1. c[1] \in Int /\ c[2] \in Nat
      BY <1>3, <1>8
    <3>2. CASE c[1] < p
      BY <1>6, <2>6, <3>2 DEF said
    <3>3. CASE c[1] = p /\ c[2] <= n
      BY <1>6, <2>6, <3>3
    <3>4. CASE c[1] = p /\ c[2] > n /\ m = 2
      <4>1. n - 1 \in 0..c[2]-2 /\ (n - 1) + 1 = n
        BY <1>3, <1>6, <3>1, <3>4
      <4>2. <<c[1], n - 1>> \notin f /\ <<c[1], (n - 1) + 1>> \notin f
        BY <1>6, <3>4, <4>1
      <4> QED
        BY <4>1, <4>2
    <3>5. CASE c[1] = p /\ c[2] > n /\ n + 1 >= Cards
      <4>1. c[2] >= Cards
        BY <1>3, <3>1, <3>5
      <4>2. Cardinality({b \in f : b[1] = p}) \in Nat /\ Cardinality({b \in f : b[1] = p}) <= Cards
        BY <1>6, ScanIsLimited
      <4>3. p \in said \/ Cardinality({b \in f : b[1] = p}) < Cards
        BY <1>3, <4>2 DEF said
      <4> QED
        BY <3>5, <4>1, <4>3
    <3>6. m \in 0..2
      BY <1>6
    <3>7. c[1] < p \/ (c[1] = p /\ (c[2] <= n \/ (c[2] > n /\ (m = 2 \/ n + 1 >= Cards))))
      BY <1>3, <1>10, <2>6, <3>1, <3>6
    <3> QED
      BY <3>2, <3>3, <3>4, <3>5, <3>7
  <2>7. Accounted'
    BY <2>1, <2>6 DEF Accounted, Con!FoundOn
  <2> QED
    BY <2>2, <2>3, <2>4, <2>5, <2>7 DEF WalkInv
<1> QED
  BY <1>9, <1>10

LEMMA WalkStep == WalkInv /\ Con!Next => WalkInv'
<1> SUFFICES ASSUME WalkInv, Con!Next PROVE WalkInv'
  OBVIOUS
<1>1. CASE Con!ProbeCard \/ Con!Chains
  BY <1>1, ProbeCardStep, ChainsStep
<1>2. CASE \/ Con!Begin \/ Con!Discover \/ Con!_discovery \/ Con!NextHost \/ Con!NoHostLeft
           \/ Con!SurveyPoll \/ Con!DeviceInfo \/ Con!Screens \/ Con!Name
           \/ Con!AskEndpoint \/ Con!BringUpDecides
  <2>1. UNCHANGED walk
    BY <1>2 DEF Con!Begin, Con!Discover, Con!_discovery, Con!NextHost, Con!NoHostLeft,
       Con!SurveyPoll, Con!DeviceInfo, Con!Screens, Con!Name, Con!AskEndpoint,
       Con!BringUpDecides, Con!bus
  <2> QED
    BY <2>1, WalkUnchanged
<1>3. CASE \/ Con!Open \/ Con!NothingThere \/ Con!Probe \/ Con!Reopen \/ Con!Trial
           \/ Con!StartWalk \/ Con!WalkBreaks \/ Con!WalkEnds
  <2>1. UNCHANGED walk
    BY <1>3 DEF Con!Open, Con!NothingThere, Con!Probe, Con!Reopen, Con!Trial,
       Con!StartWalk, Con!WalkBreaks, Con!WalkEnds, Con!bus
  <2> QED
    BY <2>1, WalkUnchanged
<1> QED
  BY <1>1, <1>2, <1>3 DEF Con!Next

-----------------------------------------------------------------------------
(* First contact: the theorems                                               *)

LEMMA ContactAlone ==
    [PartsNext]_<<part, vars, scrVars, verVars, conVars, monVars, recVars, reaVars>>
        => Con!Next \/ UNCHANGED conVars
BY DEF PartsNext, Server, DrivingScreens, Verifying, Contacting, Monitoring, Proxying,
   Interpreting

LEMMA ConNextHolds == ConInv /\ (Con!Next \/ UNCHANGED conVars) => ConInv'
<1> SUFFICES ASSUME ConInv, Con!Next \/ UNCHANGED conVars PROVE ConInv'
  OBVIOUS
<1>1. CASE Con!Next
  BY <1>1, BusStep, SessionStep, RegisterStep, WalkStep DEF ConInv
<1>2. CASE UNCHANGED conVars
  <2>1. BusWasChosen' /\ SessionIsHeld'
    BY <1>2 DEF ConInv, BusWasChosen, SessionIsHeld, conVars
  <2>2. RegisterTyped' /\ AnswersAreTrue'
    BY <1>2, RegisterUnchanged DEF ConInv, conVars
  <2>3. WalkInv'
    BY <1>2, WalkUnchanged DEF ConInv, conVars
  <2> QED
    BY <2>1, <2>2, <2>3 DEF ConInv
<1> QED
  BY <1>1, <1>2

\* The invariant of first contact, whatever answers and whatever breaks.
THEOREM ContactInvariant == PartsSpec => []ConInv
<1>1. PartsInit => ConInv
  BY ConInitHolds DEF PartsInit
<1> QED
  BY <1>1, ContactAlone, ConNextHolds, PTL DEF PartsSpec

\* However a tool ends, it leaves no session behind but the one that connect
\* returns, where identify found the device (devices.py:597, bringup.py:432).
THEOREM SessionsAreClosed == PartsSpec => []SessionsEnd
<1>1. ConInv => SessionsEnd
  BY DEF ConInv, SessionIsHeld, SessionsEnd, Con!SessionsEnd, Con!Ended
<1> QED
  BY <1>1, ContactInvariant, PTL

\* No register-bus session is opened where none was allowed, nor, unless it was
\* asked for in so many words, after an answer of the HTTP API that the tool
\* heeds (devices.py:554, bringup.py:297, survey.py:183); that there are answers
\* it does not heed is what refutes BusIsForSilentBoxes.
THEOREM HeededAnswersKeepItShut == PartsSpec => HeededAnswersKeepTheBusShut
<1> DEFINE Rightly == session = 0 /\ session' # 0 =>
                         /\ allow # "no"
                         /\ "answer" \notin spoke \/ (tool = "bringup" /\ allow = "yes")
<1>1. ASSUME ConInv, Con!Next \/ UNCHANGED conVars PROVE Rightly
  <2>1. CASE Con!Open \/ Con!Reopen
    BY <1>1, <2>1 DEF ConInv, BusWasChosen, Con!Open, Con!Reopen
  <2>2. CASE Con!Probe
    <3>1. session' = 0 \/ session' = session
      BY <2>2 DEF Con!Probe, Con!Close
    <3> QED
      BY <3>1
  <2>3. CASE Con!NothingThere \/ Con!WalkBreaks \/ Con!WalkEnds
    BY <2>3 DEF Con!NothingThere, Con!WalkBreaks, Con!WalkEnds, Con!Close, Con!bus
  <2>4. CASE \/ Con!Begin \/ Con!Discover \/ Con!_discovery \/ Con!NextHost \/ Con!NoHostLeft
             \/ Con!SurveyPoll \/ Con!DeviceInfo \/ Con!Screens \/ Con!Name
             \/ Con!AskEndpoint \/ Con!BringUpDecides
    BY <2>4 DEF Con!Begin, Con!Discover, Con!_discovery, Con!NextHost, Con!NoHostLeft,
       Con!SurveyPoll, Con!DeviceInfo, Con!Screens, Con!Name, Con!AskEndpoint,
       Con!BringUpDecides, Con!bus
  <2>5. CASE Con!Trial \/ Con!StartWalk \/ Con!Chains \/ Con!ProbeCard
    BY <2>5 DEF Con!Trial, Con!StartWalk, Con!Chains, Con!ProbeCard
  <2>6. CASE UNCHANGED conVars
    BY <2>6 DEF conVars
  <2> QED
    BY <1>1, <2>1, <2>2, <2>3, <2>4, <2>5, <2>6 DEF Con!Next
<1>2. ASSUME ConInv, [PartsNext]_<<part, vars, scrVars, verVars, conVars, monVars, recVars, reaVars>>
      PROVE  [Rightly]_(Con!vars)
  BY <1>1, <1>2, ContactAlone
<1> QED
  BY <1>2, ContactInvariant, PTL DEF PartsSpec, HeededAnswersKeepTheBusShut,
     Con!HeededAnswersKeepTheBusShut

\* A register is called implemented or unimplemented only when it is, whatever
\* reads failed and whichever poisons are not there themselves (bringup.py:224).
THEOREM RegistersAreJudgedRightly == PartsSpec => []VerdictIsRight
<1>1. ASSUME ConInv PROVE Con!VerdictIsRight
  <2> DEFINE trials == register.trials
             candidate == register.candidate
  <2>1. /\ trials \in Trials
        /\ \A i \in DOMAIN trials :
              trials[i].value = IF candidate = 0 THEN trials[i].poison ELSE candidate
    BY <1>1 DEF ConInv, RegisterTyped, AnswersAreTrue, Con!Payload
  <2>2. /\ Con!PoisonsSeen = {trials[i].poison : i \in DOMAIN trials}
        /\ Con!ValuesSeen = {trials[i].value : i \in DOMAIN trials}
    BY DEF Con!PoisonsSeen, Con!ValuesSeen
  <2>3. trials # <<>> => \E i : i \in DOMAIN trials
    BY <2>1, EmptySeq DEF Trials
  <2> HIDE DEF trials, candidate
  <2>4. CASE candidate = 0
    <3>1. Con!PoisonsSeen = Con!ValuesSeen
      BY <2>1, <2>2, <2>4
    <3>2. Con!Verdict # "implemented"
      BY <3>1 DEF Con!Verdict
    <3> QED
      BY <2>4, <3>2 DEF Con!VerdictIsRight, candidate
  <2>5. CASE candidate # 0 /\ trials # <<>>
    <3>1. Con!ValuesSeen = {candidate}
      BY <2>1, <2>2, <2>3, <2>5
    <3>2. Con!Cardinality(Con!ValuesSeen) = 1
      BY <3>1, FS_Singleton, SameCardinality
    <3>3. Con!Verdict # "unimplemented"
      BY <2>5, <3>2 DEF Con!Verdict
    <3> QED
      BY <2>5, <3>3 DEF Con!VerdictIsRight, candidate
  <2>6. CASE candidate # 0 /\ trials = <<>>
    <3>1. Con!Verdict = "unreadable"
      BY <2>6 DEF Con!Verdict, trials
    <3> QED
      BY <3>1 DEF Con!VerdictIsRight
  <2> QED
    BY <2>4, <2>5, <2>6
<1>2. ConInv => VerdictIsRight
  BY <1>1 DEF VerdictIsRight
<1> QED
  BY <1>2, ContactInvariant, PTL

\* The only cards that are there and not reported did not answer, lie behind two
\* silent positions in a row or behind the scan limit; one silent position hides
\* nothing else, and a chain that answers at every position up to the limit is
\* said to be cut (bringup.py:361, 397).
THEOREM CardsAreReported == PartsSpec => []CardsAreAccounted
<1>1. ConInv => CardsAreAccounted
  BY SameCardinality DEF ConInv, WalkInv, Accounted, CardsAreAccounted, Con!CardsAreAccounted
<1> QED
  BY <1>1, ContactInvariant, PTL

-----------------------------------------------------------------------------
(* First contact: well formed                                                *)

RegisterPorts == {5200, 15200}

\* What a tool was told and has still to ask and to try, and that no more was
\* answered of a register than was read of it.
ConShaped ==
    /\ allow \in {"yes", "no", "unless"} /\ asked \in 0..Endpoints
    /\ spoke \subseteq Con!Spoken
    /\ untried \in {<<>>, <<5200>>, <<15200>>, <<5200, 15200>>}
    /\ session \in {0} \cup RegisterPorts /\ reached \in {0} \cup RegisterPorts
    /\ register.read \in 0..Poisons /\ Len(register.trials) <= register.read

LEMMA CandidatesAre == Con!Candidates \in {<<5200>>, <<5200, 15200>>}
BY DEF Con!Candidates, Con!TCP_PORT, Con!VX_PRO_TCP_PORT

\* The next port to try is one of the two, and the rest is still to be tried.
LEMMA NextPort ==
    ASSUME NEW u
    PROVE  u = <<5200>> \/ u = <<15200>> \/ u = <<5200, 15200>>
             => Head(u) \in RegisterPorts /\ Tail(u) \in {<<>>, <<15200>>}
<1>1. CASE u = <<5200>>
  BY <1>1 DEF RegisterPorts
<1>2. CASE u = <<15200>>
  BY <1>2 DEF RegisterPorts
<1>3. CASE u = <<5200, 15200>>
  <2>1. Head(u) = 5200 /\ Tail(u) = <<15200>>
    BY <1>3
  <2> QED
    BY <2>1 DEF RegisterPorts
<1> QED
  BY <1>1, <1>2, <1>3

LEMMA NoTrials == Con!NoRegister.read = 0 /\ Con!NoRegister.trials = <<>> /\ Len(<<>>) = 0
BY DEF Con!NoRegister

LEMMA TrialsRead ==
    ASSUME ConInv, ConShaped, Con!Next
    PROVE  register'.read \in 0..Poisons /\ Len(register'.trials) <= register'.read
<1>1. CASE UNCHANGED register
  BY <1>1 DEF ConShaped
<1>2. CASE Con!Probe \/ Con!StartWalk
  <2>1. \/ UNCHANGED register
        \/ register'.read = 0 /\ register'.trials = <<>>
    <3>1. CASE Con!StartWalk
      BY <3>1, NoTrials DEF Con!StartWalk
    <3>2. CASE Con!Probe
      <4>1. ASSUME NEW candidate, NEW left, NEW poisons,
                   register' = [Con!NoRegister EXCEPT !.candidate = candidate,
                                    !.poisons = poisons, !.buffer = left]
            PROVE  register'.read = 0 /\ register'.trials = <<>>
        BY <4>1 DEF Con!NoRegister
      <4> QED
        BY <3>2, <4>1 DEF Con!Probe
    <3> QED
      BY <1>2, <3>1, <3>2
  <2> QED
    BY <1>1, <2>1, NoTrials, ConAssumed
<1>3. CASE Con!Trial
  <2>1. /\ register \in [candidate : 0..2, poisons : {<<>>} \cup [1..Poisons -> 0..2],
                         buffer : 0..2, trials : Trials, read : Nat]
        /\ register.read < Poisons
    BY <1>3 DEF ConInv, RegisterTyped, Con!Trial
  <2>2. /\ register'.read = register.read + 1
        /\ \/ register'.trials = register.trials
           \/ \E t : register'.trials = Append(register.trials, t)
    BY <1>3, <2>1 DEF Con!Trial
  <2>3. /\ Len(register.trials) \in Nat
        /\ \A t : Len(Append(register.trials, t)) = Len(register.trials) + 1
    <3>1. register.trials \in Trials
      BY <2>1
    <3> QED
      BY <3>1 DEF Trials
  <2>4. Len(register.trials) <= register.read /\ register.read \in Nat
    BY <2>1 DEF ConShaped
  <2>5. Len(register'.trials) <= Len(register.trials) + 1
    BY <2>2, <2>3
  <2>6. Len(register'.trials) \in Nat
    BY <2>2, <2>3
  <2> QED
    BY <2>1, <2>2, <2>3, <2>4, <2>5, <2>6, ConAssumed
<1>4. CASE \/ Con!Begin \/ Con!Discover \/ Con!_discovery \/ Con!NextHost \/ Con!NoHostLeft
           \/ Con!DeviceInfo \/ Con!Screens \/ Con!AskEndpoint \/ Con!BringUpDecides
  <2>1. UNCHANGED register
    BY <1>4 DEF Con!Begin, Con!Discover, Con!_discovery, Con!NextHost, Con!NoHostLeft,
       Con!DeviceInfo, Con!Screens, Con!AskEndpoint, Con!BringUpDecides
  <2> QED
    BY <1>1, <2>1
<1>5. CASE \/ Con!SurveyPoll \/ Con!Name \/ Con!Open \/ Con!NothingThere \/ Con!Reopen
           \/ Con!Chains \/ Con!ProbeCard \/ Con!WalkBreaks \/ Con!WalkEnds
  <2>1. UNCHANGED register
    BY <1>5 DEF Con!SurveyPoll, Con!Name, Con!Open, Con!NothingThere, Con!Reopen,
       Con!Chains, Con!ProbeCard, Con!WalkBreaks, Con!WalkEnds, Con!bus
  <2> QED
    BY <1>1, <2>1
<1> QED
  BY <1>2, <1>3, <1>4, <1>5 DEF Con!Next

LEMMA ConShapedStep == ASSUME ConInv, ConShaped, Con!Next PROVE ConShaped'
<1>1. /\ allow \in {"yes", "no", "unless"} /\ asked \in 0..Endpoints /\ Endpoints \in Nat
      /\ untried \in {<<>>, <<5200>>, <<15200>>, <<5200, 15200>>}
      /\ session \in {0} \cup RegisterPorts /\ reached \in {0} \cup RegisterPorts
  BY PartsAssumption DEF ConShaped, Con!ContactAssumption
<1>2. allow' \in {"yes", "no", "unless"}
  <2>1. CASE Con!Begin
    BY <2>1 DEF Con!Begin
  <2>2. CASE \/ Con!Discover \/ Con!_discovery \/ Con!NextHost \/ Con!NoHostLeft
             \/ Con!DeviceInfo \/ Con!Screens \/ Con!AskEndpoint \/ Con!BringUpDecides
             \/ Con!SurveyPoll \/ Con!Name
    <3>1. allow' = allow
      BY <2>2 DEF Con!Discover, Con!_discovery, Con!NextHost, Con!NoHostLeft, Con!DeviceInfo,
         Con!Screens, Con!AskEndpoint, Con!BringUpDecides, Con!SurveyPoll, Con!Name
    <3> QED
      BY <1>1, <3>1
  <2>3. CASE \/ Con!Open \/ Con!NothingThere \/ Con!Probe \/ Con!Reopen \/ Con!Trial
             \/ Con!StartWalk \/ Con!Chains \/ Con!ProbeCard \/ Con!WalkBreaks \/ Con!WalkEnds
    <3>1. allow' = allow
      BY <2>3 DEF Con!Open, Con!NothingThere, Con!Probe, Con!Reopen, Con!Trial,
         Con!StartWalk, Con!Chains, Con!ProbeCard, Con!WalkBreaks, Con!WalkEnds
    <3> QED
      BY <1>1, <3>1
  <2> QED
    BY <2>1, <2>2, <2>3 DEF Con!Next
<1>6. spoke' \subseteq Con!Spoken
  <2>1. ASSUME NEW outcome PROVE Con!Speaks(outcome) \subseteq Con!Spoken
    BY DEF Con!Speaks, Con!Spoken
  <2>2. {"answer", "refusal", "poll"} = Con!Spoken /\ spoke \subseteq Con!Spoken
    BY DEF Con!Spoken, ConShaped
  <2>3. CASE Con!NextHost \/ Con!SurveyPoll
    <3>1. spoke' \in {{}, {"poll"}, {"answer"}}
      BY <2>3 DEF Con!NextHost, Con!SurveyPoll
    <3> QED
      BY <2>2, <3>1
  <2>4. CASE Con!DeviceInfo \/ Con!Screens \/ Con!Name \/ Con!AskEndpoint
    <3>1. \/ spoke' = spoke \/ spoke' = spoke \cup {"refusal"}
          \/ \E outcome : spoke' = spoke \cup Con!Speaks(outcome)
      <4>1. CASE Con!DeviceInfo
        BY <4>1 DEF Con!DeviceInfo
      <4>2. CASE Con!Screens \/ Con!Name \/ Con!AskEndpoint
        BY <4>2 DEF Con!Screens, Con!Name, Con!AskEndpoint
      <4> QED
        BY <2>4, <4>1, <4>2
    <3> QED
      BY <2>1, <2>2, <3>1
  <2>5. CASE \/ Con!Begin \/ Con!Discover \/ Con!_discovery \/ Con!NoHostLeft
             \/ Con!BringUpDecides \/ Con!Open \/ Con!NothingThere \/ Con!Probe \/ Con!Reopen
             \/ Con!Trial \/ Con!StartWalk \/ Con!Chains \/ Con!ProbeCard
             \/ Con!WalkBreaks \/ Con!WalkEnds
    <3>1. spoke' = spoke
      BY <2>5 DEF Con!Begin, Con!Discover, Con!_discovery, Con!NoHostLeft,
         Con!BringUpDecides, Con!Open, Con!NothingThere, Con!Probe, Con!Reopen, Con!Trial,
         Con!StartWalk, Con!Chains, Con!ProbeCard, Con!WalkBreaks, Con!WalkEnds
    <3> QED
      BY <2>2, <3>1
  <2> QED
    BY <2>3, <2>4, <2>5 DEF Con!Next
<1>3. asked' = asked \/ (asked < Endpoints /\ asked' = asked + 1)
  BY DEF Con!Next, Con!Begin, Con!Discover, Con!_discovery, Con!NextHost,
     Con!NoHostLeft, Con!SurveyPoll, Con!DeviceInfo, Con!Screens, Con!Name, Con!AskEndpoint,
     Con!BringUpDecides, Con!Open, Con!NothingThere, Con!Probe, Con!Reopen, Con!Trial,
     Con!StartWalk, Con!Chains, Con!ProbeCard, Con!WalkBreaks, Con!WalkEnds, Con!bus
<1>4. CASE Con!Open
  <2>1. untried = <<5200>> \/ untried = <<15200>> \/ untried = <<5200, 15200>>
    BY <1>1, <1>4 DEF Con!Open
  <2>2. /\ untried' = Tail(untried) /\ session' \in {session, Head(untried)}
        /\ reached' = reached
    BY <1>4 DEF Con!Open
  <2>3. untried' \in {<<>>, <<15200>>} /\ session' \in {0} \cup RegisterPorts
    <3>1. Head(untried) \in RegisterPorts /\ Tail(untried) \in {<<>>, <<15200>>}
      BY <2>1, NextPort
    <3> QED
      BY <1>1, <2>2, <3>1
  <2> QED
    BY <1>1, <1>2, <1>3, <1>6, <2>2, <2>3, TrialsRead DEF ConShaped
<1>5. CASE ~Con!Open
  <2>1. untried' \in {untried, <<>>, Con!Candidates}
    BY <1>5 DEF Con!Next, Con!Begin, Con!Discover, Con!_discovery, Con!NextHost,
       Con!NoHostLeft, Con!SurveyPoll, Con!DeviceInfo, Con!Screens, Con!Name, Con!AskEndpoint,
       Con!BringUpDecides, Con!NothingThere, Con!Probe, Con!Reopen, Con!Trial,
       Con!StartWalk, Con!Chains, Con!ProbeCard, Con!WalkBreaks, Con!WalkEnds, Con!bus, Con!ToBus
  <2>2. session' \in {session, 0, reached} /\ reached' \in {reached, 0, session}
    BY <1>5 DEF Con!Next, Con!Begin, Con!Discover, Con!_discovery, Con!NextHost,
       Con!NoHostLeft, Con!SurveyPoll, Con!DeviceInfo, Con!Screens, Con!Name, Con!AskEndpoint,
       Con!BringUpDecides, Con!NothingThere, Con!Probe, Con!Reopen, Con!Trial,
       Con!StartWalk, Con!Chains, Con!ProbeCard, Con!WalkBreaks, Con!WalkEnds, Con!bus, Con!Close
  <2>3. untried' \in {<<>>, <<5200>>, <<15200>>, <<5200, 15200>>}
    BY <1>1, <2>1, CandidatesAre
  <2>4. session' \in {0} \cup RegisterPorts /\ reached' \in {0} \cup RegisterPorts
    BY <1>1, <2>2
  <2> QED
    BY <1>1, <1>2, <1>3, <1>6, <2>3, <2>4, TrialsRead DEF ConShaped
<1> QED
  BY <1>4, <1>5

\* Every state of first contact is well formed: a session is to one of the two
\* ports, and no more is concluded from a register than was read of it.
THEOREM ContactIsWellFormed == PartsSpec => []Con!TypeOK
<1>1. PartsInit => ConShaped
  <2> SUFFICES ASSUME Con!Init PROVE ConShaped
    BY DEF PartsInit
  <2>1. /\ allow = "no" /\ asked = 0 /\ untried = <<>> /\ session = 0 /\ reached = 0
        /\ register = Con!NoRegister /\ Endpoints \in Nat /\ spoke = {}
    BY PartsAssumption DEF Con!Init, Con!ContactAssumption
  <2> QED
    BY <2>1, NoTrials, ConAssumed DEF ConShaped
<1>2. ASSUME ConInv, ConShaped, Con!Next \/ UNCHANGED conVars PROVE ConShaped'
  <2>1. CASE UNCHANGED conVars
    BY <1>2, <2>1 DEF ConShaped, conVars
  <2> QED
    BY <1>2, <2>1, ConShapedStep
<1>3. ConInv /\ ConShaped => Con!TypeOK
  BY DEF ConInv, ConShaped, WalkInv, WalkTyped, RegisterPorts, Con!TypeOK, Con!TCP_PORT,
     Con!VX_PRO_TCP_PORT
<1>4. PartsSpec => []ConShaped
  BY <1>1, <1>2, ContactAlone, ContactInvariant, PTL DEF PartsSpec
<1> QED
  BY <1>3, <1>4, ContactInvariant, PTL

-----------------------------------------------------------------------------
(* Verify: the inductive invariant                                           *)

Unsent == {"confirm", "identity", "status", "normal?"}
Sending == {"claim", "restore", "cabinets", "dim", "undim"}
Observation == [of : Unsent \cup Sending, restored : BOOLEAN]

VerTyped ==
    /\ pc \in Unsent \cup Sending \cup {"off", "done", "raised"}
    /\ aborted \in BOOLEAN /\ unrestored \in BOOLEAN
    /\ observations \in Seq(Observation)

ModeWrites == {w \in late : w.field = "mode"}
LevelWrites == {w \in late : w.field # "mode"}

\* Whatever was sent, or may still arrive, was confirmed, and there is a mode to
\* go back to.
SentConfirmed ==
    /\ pc \in Sending \/ late # {} => confirmed /\ baseline = before.mode
    /\ pc \in {"identity", "status", "normal?"} => confirmed

\* Nothing has been sent.
NothingSentYet ==
    /\ pc = "off" => late = {} /\ ~aborted
    /\ pc \in Unsent => /\ late = {} /\ ~aborted
                        /\ mode = before.mode /\ levels = before.levels

\* What an endpoint that is not there could have changed.
AbsentIsUntouched ==
    pc # "off" =>
        /\ "displaymode" \in absent => mode = before.mode /\ ModeWrites = {}
        /\ "brightness" \in absent => levels = before.levels /\ LevelWrites = {}

\* The brightness is the last thing that is sent, and what was read of it is
\* what it was.
LevelsUntouched ==
    /\ pc \in {"claim", "restore", "cabinets", "dim"} =>
            levels = before.levels /\ LevelWrites = {}
    /\ pc \in {"dim", "undim"} => original = before.levels

\* Between two claims the display is back, or it was known that it may not be.
ModeIsBack ==
    /\ pc \in Sending \ {"restore"} =>
            /\ ~aborted
            /\ unrestored \/ (mode = before.mode /\ ModeWrites = {})
    /\ pc = "restore" => aborted \/ ModeWrites = {} \/ unrestored

VerInv ==
    /\ VerTyped /\ SentConfirmed /\ NothingSentYet /\ AbsentIsUntouched
    /\ LevelsUntouched /\ ModeIsBack

-----------------------------------------------------------------------------
(* Verify: what a call may do                                                *)

\* A write of the display mode leaves the brightness alone; an endpoint that is
\* not there leaves everything alone; only a lost write may still arrive.
LEMMA ModeCall ==
    ASSUME NEW v, NEW outcome, Ver!Call("displaymode", Ver!set_display_mode(v), outcome)
    PROVE  /\ levels' = levels /\ absent' = absent /\ LevelWrites' = LevelWrites
           /\ ("displaymode" \in absent) <=> (outcome = "absent")
           /\ outcome = "absent" => mode' = mode
           /\ outcome = "ok" => mode' = v
           /\ outcome # "lost" => late' = late
<1>1. Ver!set_display_mode(v).field = "mode" /\ Ver!set_display_mode(v).value = v
  BY DEF Ver!set_display_mode, Ver!Write
<1> DEFINE w == Ver!set_display_mode(v)
<1> HIDE DEF w
<1>2. w.field = "mode" /\ w.value = v
  BY <1>1 DEF w
<1>3. /\ ("displaymode" \in absent) = (outcome = "absent")
      /\ \/ outcome # "absent" /\ Ver!Effect(w) /\ UNCHANGED late
         \/ outcome # "ok" /\ UNCHANGED <<mode, levels, late>>
         \/ outcome = "lost" /\ UNCHANGED <<mode, levels>> /\ late' = late \cup {w}
      /\ UNCHANGED absent
  BY DEF Ver!Call, w
<1>4. CASE outcome # "absent" /\ Ver!Effect(w) /\ UNCHANGED late
  BY <1>2, <1>3, <1>4 DEF Ver!Effect, LevelWrites
<1>5. CASE outcome # "ok" /\ UNCHANGED <<mode, levels, late>>
  BY <1>3, <1>5 DEF LevelWrites
<1>6. CASE outcome = "lost" /\ UNCHANGED <<mode, levels>> /\ late' = late \cup {w}
  BY <1>2, <1>3, <1>6 DEF LevelWrites
<1> QED
  BY <1>3, <1>4, <1>5, <1>6

LEMMA BrightnessCall ==
    ASSUME NEW S, NEW v, NEW outcome, Ver!Call("brightness", Ver!set_brightness(S, v), outcome)
    PROVE  /\ mode' = mode /\ absent' = absent /\ ModeWrites' = ModeWrites
           /\ ("brightness" \in absent) <=> (outcome = "absent")
           /\ outcome = "absent" => levels' = levels
           /\ outcome # "lost" => late' = late
<1> DEFINE w == Ver!set_brightness(S, v)
<1>1. w.field = "levels"
  BY DEF Ver!set_brightness, Ver!Write
<1> HIDE DEF w
<1>2. /\ ("brightness" \in absent) = (outcome = "absent")
      /\ \/ outcome # "absent" /\ Ver!Effect(w) /\ UNCHANGED late
         \/ outcome # "ok" /\ UNCHANGED <<mode, levels, late>>
         \/ outcome = "lost" /\ UNCHANGED <<mode, levels>> /\ late' = late \cup {w}
      /\ UNCHANGED absent
  BY DEF Ver!Call, w
<1>3. CASE outcome # "absent" /\ Ver!Effect(w) /\ UNCHANGED late
  BY <1>1, <1>2, <1>3 DEF Ver!Effect, ModeWrites
<1>4. CASE outcome # "ok" /\ UNCHANGED <<mode, levels, late>>
  BY <1>2, <1>4 DEF ModeWrites
<1>5. CASE outcome = "lost" /\ UNCHANGED <<mode, levels>> /\ late' = late \cup {w}
  BY <1>1, <1>2, <1>5 DEF ModeWrites
<1> QED
  BY <1>2, <1>3, <1>4, <1>5

\* A write that arrives late changes what it is a write of, and nothing else.
LEMMA LateStep ==
    ASSUME Ver!LateEffect
    PROVE  /\ late # {} /\ pc # "off"
           /\ ModeWrites' \subseteq ModeWrites /\ LevelWrites' \subseteq LevelWrites
           /\ ModeWrites = {} => mode' = mode
           /\ LevelWrites = {} => levels' = levels
           /\ UNCHANGED <<absent, pc, baseline, original, observations, confirmed,
                          aborted, before, unrestored>>
<1>1. PICK w \in late : Ver!Effect(w) /\ late' = late \ {w}
  BY DEF Ver!LateEffect
<1>2. /\ late # {} /\ pc # "off"
      /\ UNCHANGED <<absent, pc, baseline, original, observations, confirmed, aborted,
                     before, unrestored>>
  BY DEF Ver!LateEffect, Ver!result
<1>3. ModeWrites' \subseteq ModeWrites /\ LevelWrites' \subseteq LevelWrites
  BY <1>1 DEF ModeWrites, LevelWrites
<1>4. CASE w.field = "mode"
  BY <1>1, <1>2, <1>3, <1>4 DEF Ver!Effect, ModeWrites
<1>5. CASE w.field # "mode"
  BY <1>1, <1>2, <1>3, <1>5 DEF Ver!Effect, LevelWrites
<1> QED
  BY <1>4, <1>5, <1>2, <1>3

-----------------------------------------------------------------------------
(* Verify: its steps                                                         *)

LEMMA VerInitHolds == Ver!Init => VerInv
<1> SUFFICES ASSUME Ver!Init PROVE VerInv
  OBVIOUS
<1>1. <<>> \in Seq(Observation)
  BY EmptySeq
<1>2. pc = "off" /\ late = {} /\ observations = <<>> /\ aborted = FALSE /\ unrestored = FALSE
  BY DEF Ver!Init
<1> QED
  BY <1>1, <1>2 DEF VerInv, VerTyped, SentConfirmed, NothingSentYet, AbsentIsUntouched,
     LevelsUntouched, ModeIsBack, Unsent, Sending

LEMMA VerUnchanged == VerInv /\ UNCHANGED verVars => VerInv'
BY DEF VerInv, VerTyped, SentConfirmed, NothingSentYet, AbsentIsUntouched, LevelsUntouched,
   ModeIsBack, verVars, ModeWrites, LevelWrites

\* Before anything is sent.
LEMMA QuietSteps ==
    ASSUME VerInv,
           Ver!Start \/ Ver!Confirm \/ Ver!ReadIdentity \/ Ver!ReadStatus \/ Ver!AskNormal
    PROVE  VerInv'
<1> USE DEF VerInv, Unsent, Sending, ModeWrites, LevelWrites
<1>1. UNCHANGED <<unrestored, observations, late>>
  BY DEF Ver!Start, Ver!Confirm, Ver!ReadIdentity, Ver!ReadStatus, Ver!AskNormal,
     Ver!Read, Ver!controller, Ver!result
<1>2. late = {} /\ ModeWrites = {} /\ LevelWrites = {}
  BY DEF NothingSentYet, Ver!Start, Ver!Confirm, Ver!ReadIdentity, Ver!ReadStatus,
     Ver!AskNormal
<1>3. CASE Ver!Start
  <2>1. /\ pc = "off" /\ pc' = "confirm" /\ UNCHANGED <<confirmed, baseline, aborted>>
        /\ before' = [mode |-> mode', levels |-> levels']
    BY <1>3 DEF Ver!Start
  <2>2. ~aborted
    BY <2>1 DEF NothingSentYet
  <2> QED
    BY <1>1, <1>2, <2>1, <2>2 DEF VerTyped, SentConfirmed, NothingSentYet,
       AbsentIsUntouched, LevelsUntouched, ModeIsBack
<1>4. CASE Ver!Confirm \/ Ver!ReadIdentity \/ Ver!ReadStatus \/ Ver!AskNormal
  <2>1. /\ pc \in Unsent /\ UNCHANGED <<mode, levels, absent, before>>
        /\ \/ pc' = "done" /\ aborted' = TRUE
           \/ /\ aborted' = aborted
              /\ \/ pc = "confirm" /\ pc' = "identity" /\ confirmed' = TRUE
                 \/ pc = "identity" /\ pc' = "status" /\ UNCHANGED confirmed
                 \/ pc = "status" /\ pc' = "normal?" /\ UNCHANGED confirmed
                 \/ pc = "status" /\ pc' = "claim" /\ baseline' = mode /\ UNCHANGED confirmed
                 \/ /\ pc = "normal?" /\ pc' = "claim" /\ baseline' = 0 /\ mode = 0
                    /\ UNCHANGED confirmed
    <3>1. CASE Ver!Confirm
      BY <3>1 DEF Ver!Confirm, Ver!Abort, Ver!controller
    <3>2. CASE Ver!ReadIdentity
      BY <3>2 DEF Ver!ReadIdentity, Ver!Abort, Ver!controller, Ver!Read
    <3>3. CASE Ver!ReadStatus
      BY <3>3 DEF Ver!ReadStatus, Ver!controller, Ver!Read, Ver!result
    <3>4. CASE Ver!AskNormal
      BY <3>4 DEF Ver!AskNormal, Ver!Abort, Ver!Asked, Ver!controller
    <3> QED
      BY <1>4, <3>1, <3>2, <3>3, <3>4
  <2>2. ~aborted /\ mode = before.mode /\ levels = before.levels
    BY <2>1 DEF NothingSentYet
  <2>3. pc # "confirm" => confirmed
    BY <2>1 DEF SentConfirmed
  <2> HIDE DEF VerInv, ModeWrites, LevelWrites
  <2>4. ModeWrites' = {} /\ LevelWrites' = {}
    BY <1>1, <1>2 DEF ModeWrites, LevelWrites
  <2>5. VerTyped'
    BY <1>1, <2>1 DEF VerInv, VerTyped
  <2>6. SentConfirmed'
    BY <1>1, <1>2, <2>1, <2>2, <2>3 DEF SentConfirmed
  <2>7. NothingSentYet' /\ AbsentIsUntouched'
    BY <1>1, <1>2, <2>1, <2>2, <2>4 DEF NothingSentYet, AbsentIsUntouched
  <2>8. LevelsUntouched' /\ ModeIsBack'
    BY <1>1, <1>2, <2>1, <2>2, <2>4 DEF LevelsUntouched, ModeIsBack
  <2> QED
    BY <2>5, <2>6, <2>7, <2>8 DEF VerInv
<1> QED
  BY <1>3, <1>4

\* What a restore of the display comes to: it went back, or the session says
\* that it may not have.
RestoreComesTo(restored) ==
    /\ pc = "restore" /\ levels' = levels /\ absent' = absent /\ LevelWrites' = LevelWrites
    /\ UNCHANGED <<baseline, confirmed, before, aborted>>
    /\ restored => mode' = before.mode /\ late' = late
    /\ "displaymode" \in absent => mode' = mode /\ late' = late
    /\ \/ aborted /\ pc' = "done" /\ UNCHANGED observations
       \/ /\ ~aborted /\ pc' \in {"claim", "cabinets"}
          /\ observations' = Append(observations, [of |-> pc, restored |-> restored])
       \/ pc' = "raised" /\ UNCHANGED observations
    /\ unrestored' \in BOOLEAN /\ (unrestored => unrestored')
    /\ pc' # "raised" => restored \/ unrestored'

LEMMA RestoreDoes ==
    ASSUME VerTyped, Ver!RestoreDisplay
    PROVE  \E restored \in BOOLEAN : RestoreComesTo(restored)
<1>1. PICK outcome \in {"ok", "absent", "refused", "lost", "garbled"} :
        /\ Ver!Call("displaymode", Ver!set_display_mode(baseline), outcome)
        /\ \/ outcome = "ok" /\ Ver!AfterRestore(Ver!LooksRestored(mode'))
           \/ outcome \in {"absent", "refused", "lost"} /\ Ver!AfterRestore(FALSE)
           \/ outcome = "garbled" /\ pc' = "raised" /\ UNCHANGED <<observations, unrestored>>
  BY DEF Ver!RestoreDisplay
<1>2. /\ levels' = levels /\ absent' = absent /\ LevelWrites' = LevelWrites
      /\ ("displaymode" \in absent) <=> (outcome = "absent")
      /\ outcome = "absent" => mode' = mode
      /\ outcome # "lost" => late' = late
  BY <1>1, ModeCall
<1>3. pc = "restore" /\ UNCHANGED <<baseline, confirmed, before, aborted>>
  BY DEF Ver!RestoreDisplay
<1>4. aborted \in BOOLEAN /\ unrestored \in BOOLEAN
  BY DEF VerTyped
<1>5. ASSUME NEW restored \in BOOLEAN, Ver!AfterRestore(restored)
      PROVE  /\ \/ aborted /\ pc' = "done" /\ UNCHANGED observations
                \/ /\ ~aborted /\ pc' \in {"claim", "cabinets"}
                   /\ observations' = Append(observations, [of |-> pc, restored |-> restored])
             /\ unrestored' \in BOOLEAN /\ (unrestored => unrestored')
             /\ restored \/ unrestored'
  BY <1>4, <1>5 DEF Ver!AfterRestore, Ver!Observe, Ver!Following
<1>6. CASE outcome = "ok"
  <2> DEFINE restored == Ver!LooksRestored(mode')
  <2>1. restored \in BOOLEAN /\ (restored => mode' = before.mode)
    BY DEF Ver!LooksRestored
  <2>2. Ver!AfterRestore(restored)
    BY <1>1, <1>6
  <2> HIDE DEF restored
  <2>3. RestoreComesTo(restored)
    BY <1>2, <1>3, <1>5, <1>6, <2>1, <2>2 DEF RestoreComesTo
  <2> QED
    BY <2>1, <2>3
<1>7. CASE outcome \in {"absent", "refused", "lost"}
  <2>1. Ver!AfterRestore(FALSE)
    BY <1>1, <1>7
  <2>2. RestoreComesTo(FALSE)
    BY <1>2, <1>3, <1>5, <1>7, <2>1 DEF RestoreComesTo
  <2> QED
    BY <2>2
<1>8. CASE outcome = "garbled"
  <2>1. RestoreComesTo(FALSE)
    BY <1>1, <1>2, <1>3, <1>4, <1>8 DEF RestoreComesTo
  <2> QED
    BY <2>1
<1> QED
  BY <1>6, <1>7, <1>8

\* A display mode is sent: it is confirmed, there is a mode to go back to, and
\* the brightness has not been touched.
LEMMA ModeSteps == ASSUME VerInv, Ver!SendMode \/ Ver!RestoreDisplay PROVE VerInv'
<1>1. /\ pc \in {"claim", "restore"} /\ confirmed /\ baseline = before.mode
      /\ levels = before.levels /\ LevelWrites = {}
  BY DEF VerInv, SentConfirmed, LevelsUntouched, Sending, Ver!SendMode, Ver!RestoreDisplay
<1>2. /\ observations \in Seq(Observation) /\ aborted \in BOOLEAN /\ unrestored \in BOOLEAN
      /\ \A kept \in BOOLEAN :
            Append(observations, [of |-> pc, restored |-> kept]) \in Seq(Observation)
  <2>1. \A kept \in BOOLEAN : [of |-> pc, restored |-> kept] \in Observation
    BY <1>1 DEF Observation, Sending
  <2>2. observations \in Seq(Observation) /\ aborted \in BOOLEAN /\ unrestored \in BOOLEAN
    BY DEF VerInv, VerTyped
  <2> QED
    BY <2>1, <2>2, AppendProperties
<1>3. CASE Ver!SendMode
  <2>1. PICK outcome \in {"ok", "absent", "refused", "lost", "garbled"} :
        /\ Ver!Call("displaymode", Ver!set_display_mode(claim), outcome)
        /\ \/ outcome = "ok" /\ pc' = "restore" /\ UNCHANGED <<observations, aborted>>
           \/ /\ outcome = "absent" /\ Ver!Observe(TRUE) /\ pc' = Ver!Following
              /\ UNCHANGED aborted
           \/ /\ outcome \in {"refused", "lost"} /\ pc' = "restore" /\ aborted' = TRUE
              /\ UNCHANGED observations
           \/ outcome = "garbled" /\ pc' = "raised" /\ UNCHANGED <<observations, aborted>>
    BY <1>3 DEF Ver!SendMode, Ver!GiveUp
  <2>2. /\ levels' = levels /\ absent' = absent /\ LevelWrites' = LevelWrites
        /\ ("displaymode" \in absent) <=> (outcome = "absent")
        /\ outcome = "absent" => mode' = mode
        /\ outcome # "lost" => late' = late
    BY <2>1, ModeCall
  <2>3. /\ pc = "claim" /\ UNCHANGED <<baseline, confirmed, before, unrestored>>
        /\ Ver!Following \in {"claim", "cabinets"}
    BY <1>3 DEF Ver!SendMode, Ver!Following
  <2>4. /\ ~aborted
        /\ unrestored \/ (mode = before.mode /\ ModeWrites = {})
        /\ "displaymode" \in absent => mode = before.mode /\ ModeWrites = {}
    BY <2>3 DEF VerInv, ModeIsBack, AbsentIsUntouched, Sending
  <2>5. outcome # "lost" => ModeWrites' = ModeWrites
    BY <2>2 DEF ModeWrites
  <2>6. \/ outcome = "ok" /\ pc' = "restore" /\ UNCHANGED <<observations, aborted>>
        \/ outcome = "absent" /\ pc' \in {"claim", "cabinets"} /\ UNCHANGED aborted
        \/ outcome \in {"refused", "lost"} /\ pc' = "restore" /\ aborted' = TRUE
        \/ outcome = "garbled" /\ pc' = "raised" /\ UNCHANGED <<observations, aborted>>
    BY <2>1, <2>3
  <2>7. VerTyped'
    <3>1. observations' \in Seq(Observation)
      BY <1>2, <2>1 DEF Ver!Observe
    <3> QED
      BY <1>2, <2>3, <2>6, <3>1 DEF VerTyped, Sending
  <2>8. SentConfirmed' /\ NothingSentYet'
    BY <1>1, <2>3, <2>6 DEF SentConfirmed, NothingSentYet, Unsent, Sending
  <2>9. AbsentIsUntouched'
    BY <1>1, <2>2, <2>3, <2>4, <2>5 DEF AbsentIsUntouched
  <2>10. LevelsUntouched'
    BY <1>1, <2>2, <2>3, <2>6 DEF LevelsUntouched
  <2>11. ModeIsBack'
    BY <1>1, <2>2, <2>3, <2>4, <2>5, <2>6 DEF ModeIsBack, Sending
  <2> QED
    BY <2>7, <2>8, <2>9, <2>10, <2>11 DEF VerInv
<1>4. CASE Ver!RestoreDisplay
  <2>1. PICK restored \in BOOLEAN : RestoreComesTo(restored)
    BY <1>4, RestoreDoes DEF VerInv
  <2>2. /\ pc = "restore" /\ levels' = levels /\ absent' = absent /\ LevelWrites' = LevelWrites
        /\ UNCHANGED <<baseline, confirmed, before, aborted>>
        /\ restored => mode' = before.mode /\ late' = late
        /\ "displaymode" \in absent => mode' = mode /\ late' = late
        /\ \/ aborted /\ pc' = "done" /\ UNCHANGED observations
           \/ /\ ~aborted /\ pc' \in {"claim", "cabinets"}
              /\ observations' = Append(observations, [of |-> pc, restored |-> restored])
           \/ pc' = "raised" /\ UNCHANGED observations
        /\ unrestored' \in BOOLEAN /\ (unrestored => unrestored')
        /\ pc' # "raised" => restored \/ unrestored'
    BY <2>1 DEF RestoreComesTo
  <2>3. ~aborted /\ ~unrestored => ModeWrites = {}
    BY <2>2 DEF VerInv, ModeIsBack
  <2>4. "displaymode" \in absent => mode = before.mode /\ ModeWrites = {}
    BY <2>2 DEF VerInv, AbsentIsUntouched
  <2>5. late' = late => ModeWrites' = ModeWrites
    BY DEF ModeWrites
  <2>6. VerTyped'
    <3>1. observations' \in Seq(Observation)
      BY <1>2, <2>2
    <3> QED
      BY <1>2, <2>2, <3>1 DEF VerTyped, Sending
  <2>7. SentConfirmed' /\ NothingSentYet'
    BY <1>1, <2>2 DEF SentConfirmed, NothingSentYet, Unsent, Sending
  <2>8. AbsentIsUntouched'
    BY <1>1, <2>2, <2>4, <2>5 DEF AbsentIsUntouched
  <2>9. LevelsUntouched'
    BY <1>1, <2>2 DEF LevelsUntouched
  <2>10. ModeIsBack'
    BY <2>2, <2>3, <2>5 DEF ModeIsBack, Sending
  <2> QED
    BY <2>6, <2>7, <2>8, <2>9, <2>10 DEF VerInv
<1> QED
  BY <1>3, <1>4

\* The brightness is read, sent, written back and read again; the display mode
\* is left alone.
LEMMA BrightnessSteps ==
    ASSUME VerInv,
           \/ Ver!ReadCabinets \/ Ver!SendBrightness \/ Ver!RestoreBrightness \/ Ver!ReadBack
    PROVE  VerInv'
<1>1. /\ UNCHANGED <<mode, absent, baseline, confirmed, before>> /\ ModeWrites' = ModeWrites
      /\ pc \in {"cabinets", "dim", "undim"}
      /\ "brightness" \in absent => levels' = levels /\ LevelWrites' = LevelWrites
  <2>1. CASE Ver!ReadCabinets
    BY <2>1 DEF Ver!ReadCabinets, Ver!Read, Ver!controller, Ver!result, ModeWrites, LevelWrites
  <2>2. CASE Ver!SendBrightness
    <3>1. PICK outcome : Ver!Call("brightness", Ver!set_brightness(Cabinet, Ver!Target), outcome)
      BY <2>2 DEF Ver!SendBrightness
    <3>2. UNCHANGED <<baseline, confirmed, before>> /\ pc = "dim"
      BY <2>2 DEF Ver!SendBrightness
    <3> QED
      BY <3>1, <3>2, BrightnessCall DEF LevelWrites
  <2>3. CASE Ver!RestoreBrightness
    <3>1. PICK v, outcome : Ver!Call("brightness", Ver!set_brightness(Ver!Holders(v), v), outcome)
      BY <2>3 DEF Ver!RestoreBrightness
    <3>2. UNCHANGED <<baseline, confirmed, before>> /\ pc = "undim"
      BY <2>3 DEF Ver!RestoreBrightness
    <3> QED
      BY <3>1, <3>2, BrightnessCall DEF LevelWrites
  <2>4. CASE Ver!ReadBack
    BY <2>4 DEF Ver!ReadBack, Ver!Read, Ver!controller, ModeWrites, LevelWrites
  <2> QED
    BY <2>1, <2>2, <2>3, <2>4
<1>2. /\ observations' = observations \/ \E kept \in BOOLEAN : Ver!Observe(kept)
      /\ unrestored' \in BOOLEAN /\ (unrestored => unrestored')
      /\ UNCHANGED aborted
      /\ \/ pc = "cabinets" /\ pc' = "dim" /\ original' = levels /\ UNCHANGED <<levels, late>>
         \/ pc = "dim" /\ pc' = "undim" /\ UNCHANGED original
         \/ pc = "undim" /\ pc' = "undim" /\ UNCHANGED original
         \/ pc' \in {"done", "raised"}
  <2>1. unrestored \in BOOLEAN
    BY DEF VerInv, VerTyped
  <2>2. CASE Ver!ReadCabinets
    BY <2>1, <2>2 DEF Ver!ReadCabinets, Ver!Read, Ver!controller, Ver!result
  <2>3. CASE Ver!SendBrightness
    <3>1. observations' = observations \/ Ver!Observe(TRUE)
      BY <2>3 DEF Ver!SendBrightness
    <3>2. unrestored' = unrestored
      BY <2>3 DEF Ver!SendBrightness
    <3>3. /\ pc = "dim" /\ pc' \in {"undim", "done", "raised"}
          /\ UNCHANGED <<original, aborted>>
      BY <2>3 DEF Ver!SendBrightness
    <3> QED
      BY <2>1, <3>1, <3>2, <3>3
  <2>4. CASE Ver!RestoreBrightness
    <3>1. observations' = observations \/ Ver!Observe(FALSE)
      BY <2>4 DEF Ver!RestoreBrightness
    <3>2. unrestored' = unrestored \/ unrestored' = TRUE
      BY <2>4 DEF Ver!RestoreBrightness
    <3>3. /\ pc = "undim" /\ pc' \in {"undim", "done"}
          /\ UNCHANGED <<original, aborted>>
      BY <2>4 DEF Ver!RestoreBrightness
    <3> QED
      BY <2>1, <3>1, <3>2, <3>3
  <2>5. CASE Ver!ReadBack
    <3>1. PICK answered_back, agreed \in BOOLEAN :
            LET kept == answered_back /\ Ver!ReadsBack(levels) /\ agreed
            IN  Ver!Observe(kept) /\ unrestored' = (unrestored \/ ~kept)
      BY <2>5 DEF Ver!ReadBack
    <3> DEFINE kept == answered_back /\ Ver!ReadsBack(levels) /\ agreed
    <3>2. kept \in BOOLEAN /\ Ver!Observe(kept) /\ unrestored' = (unrestored \/ ~kept)
      BY <3>1 DEF Ver!ReadsBack
    <3>3. UNCHANGED aborted /\ pc' = "done"
      BY <2>5 DEF Ver!ReadBack
    <3> HIDE DEF kept
    <3> QED
      BY <2>1, <3>2, <3>3
  <2> QED
    BY <2>2, <2>3, <2>4, <2>5
<1>3. /\ confirmed /\ baseline = before.mode /\ ~aborted
      /\ unrestored \/ (mode = before.mode /\ ModeWrites = {})
      /\ pc \in {"cabinets", "dim"} => levels = before.levels /\ LevelWrites = {}
      /\ pc \in {"dim", "undim"} => original = before.levels
  BY <1>1 DEF VerInv, SentConfirmed, LevelsUntouched, ModeIsBack, Sending
<1>4. VerTyped'
  <2>1. observations' \in Seq(Observation)
    <3>1. observations \in Seq(Observation)
      BY DEF VerInv, VerTyped
    <3>2. ASSUME NEW kept \in BOOLEAN, Ver!Observe(kept) PROVE observations' \in Seq(Observation)
      <4>1. [of |-> pc, restored |-> kept] \in Observation
        BY <1>1 DEF Observation, Sending
      <4> QED
        BY <3>1, <3>2, <4>1, AppendProperties DEF Ver!Observe
    <3> QED
      BY <1>2, <3>1, <3>2
  <2> QED
    BY <1>2, <2>1 DEF VerInv, VerTyped, Sending
<1>5. SentConfirmed' /\ NothingSentYet'
  BY <1>1, <1>2, <1>3 DEF SentConfirmed, NothingSentYet, Unsent, Sending
<1>6. AbsentIsUntouched'
  <2>1. /\ "displaymode" \in absent => mode = before.mode /\ ModeWrites = {}
        /\ "brightness" \in absent => levels = before.levels /\ LevelWrites = {}
    BY <1>1 DEF VerInv, AbsentIsUntouched
  <2> QED
    BY <1>1, <2>1 DEF AbsentIsUntouched
<1>7. LevelsUntouched'
  <2>1. UNCHANGED late => LevelWrites' = LevelWrites
    BY DEF LevelWrites
  <2> QED
    BY <1>1, <1>2, <1>3, <2>1 DEF LevelsUntouched
<1>8. ModeIsBack'
  BY <1>1, <1>2, <1>3 DEF ModeIsBack, Sending
<1> QED
  BY <1>4, <1>5, <1>6, <1>7, <1>8 DEF VerInv

LEMMA LateSteps == ASSUME VerInv, Ver!LateEffect PROVE VerInv'
<1>1. /\ late # {} /\ pc # "off"
      /\ ModeWrites' \subseteq ModeWrites /\ LevelWrites' \subseteq LevelWrites
      /\ ModeWrites = {} => mode' = mode
      /\ LevelWrites = {} => levels' = levels
      /\ UNCHANGED <<absent, pc, baseline, original, observations, confirmed,
                     aborted, before, unrestored>>
  BY LateStep
<1>2. pc \notin Unsent
  BY <1>1 DEF VerInv, NothingSentYet
<1>3. VerTyped' /\ SentConfirmed' /\ NothingSentYet'
  BY <1>1, <1>2 DEF VerInv, VerTyped, SentConfirmed, NothingSentYet
<1>4. AbsentIsUntouched'
  BY <1>1 DEF VerInv, AbsentIsUntouched
<1>5. LevelsUntouched' /\ ModeIsBack'
  BY <1>1 DEF VerInv, LevelsUntouched, ModeIsBack
<1> QED
  BY <1>3, <1>4, <1>5 DEF VerInv

LEMMA VerNextHolds == VerInv /\ (Ver!Next \/ UNCHANGED verVars) => VerInv'
BY VerUnchanged, QuietSteps, ModeSteps, BrightnessSteps, LateSteps DEF Ver!Next

-----------------------------------------------------------------------------
(* Verify: the theorems                                                      *)

LEMMA VerifyAlone ==
    [PartsNext]_<<part, vars, scrVars, verVars, conVars, monVars, recVars, reaVars>>
        => Ver!Next \/ UNCHANGED verVars
BY DEF PartsNext, Server, DrivingScreens, Verifying, Contacting, Monitoring, Proxying,
   Interpreting

\* The invariant of a session, whichever calls are refused, lost or late.
THEOREM VerifyInvariant == PartsSpec => []VerInv
<1>1. PartsInit => VerInv
  BY VerInitHolds DEF PartsInit
<1> QED
  BY <1>1, VerifyAlone, VerNextHolds, PTL DEF PartsSpec

\* Nothing is sent to a wall that somebody depends on, nor to one whose state
\* could be neither read nor seen to be normal (verify.py:178, 213).
THEOREM NothingIsSentUnconfirmed == PartsSpec => NothingSentUnconfirmed
<1> DEFINE Rightly == (mode' # mode \/ levels' # levels) /\ pc # "off" =>
                         confirmed /\ baseline = before.mode
<1>1. ASSUME VerInv, Ver!Next \/ UNCHANGED verVars PROVE Rightly
  <2>1. \/ UNCHANGED <<mode, levels>> \/ pc = "off"
        \/ pc \in Sending \/ late # {}
    <3>1. CASE Ver!Start \/ Ver!LateEffect
      BY <3>1 DEF Ver!Start, Ver!LateEffect
    <3>2. CASE Ver!Confirm \/ Ver!ReadIdentity \/ Ver!ReadStatus \/ Ver!AskNormal
               \/ Ver!ReadCabinets \/ Ver!ReadBack
      BY <3>2 DEF Ver!Confirm, Ver!ReadIdentity, Ver!ReadStatus, Ver!AskNormal,
         Ver!ReadCabinets, Ver!ReadBack, Ver!Read, Ver!controller
    <3>3. CASE Ver!SendMode \/ Ver!RestoreDisplay \/ Ver!SendBrightness \/ Ver!RestoreBrightness
      BY <3>3 DEF Ver!SendMode, Ver!RestoreDisplay, Ver!SendBrightness,
         Ver!RestoreBrightness, Sending
    <3>4. CASE UNCHANGED verVars
      BY <3>4 DEF verVars
    <3> QED
      BY <1>1, <3>1, <3>2, <3>3, <3>4 DEF Ver!Next
  <2>2. pc \in Sending \/ late # {} => confirmed /\ baseline = before.mode
    BY <1>1 DEF VerInv, SentConfirmed
  <2> QED
    BY <2>1, <2>2
<1>2. ASSUME VerInv, [PartsNext]_<<part, vars, scrVars, verVars, conVars, monVars, recVars, reaVars>>
      PROVE  [Rightly]_(Ver!vars)
  BY <1>1, <1>2, VerifyAlone
<1> QED
  BY <1>2, VerifyInvariant, PTL DEF PartsSpec, NothingSentUnconfirmed, Ver!NothingSentUnconfirmed

\* A session that ends, by itself or by an exception, without a failed restore
\* leaves the display and every cabinet as they were, unless a garbled answer
\* about the mode ended it or the brightness write itself failed; lost writes
\* may still arrive (verify.py:24, 263, 310).
THEOREM TheWallIsAsItWas == PartsSpec => WallIsAsItWas
<1> DEFINE Rightly == pc \notin Ver!Ended /\ pc' \in Ver!Ended /\ ~unrestored' =>
                         /\ mode' = before.mode
                              \/ (pc \in {"claim", "restore"} /\ pc' = "raised")
                         /\ levels' = before.levels \/ (pc = "dim" /\ observations' = observations)
<1>1. ASSUME VerInv, Ver!Next \/ UNCHANGED verVars PROVE Rightly
  <2>1. CASE Ver!Start \/ Ver!LateEffect \/ UNCHANGED verVars
    BY <2>1 DEF Ver!Start, Ver!LateEffect, verVars, Ver!Ended
  <2>2. CASE Ver!Confirm \/ Ver!ReadIdentity \/ Ver!ReadStatus \/ Ver!AskNormal
    <3>1. UNCHANGED <<mode, levels>> /\ pc \in Unsent
      BY <2>2 DEF Ver!Confirm, Ver!ReadIdentity, Ver!ReadStatus, Ver!AskNormal,
         Ver!Read, Ver!controller, Unsent
    <3> QED
      BY <1>1, <3>1 DEF VerInv, NothingSentYet
  <2>3. CASE Ver!SendMode
    <3>1. PICK outcome \in {"ok", "absent", "refused", "lost", "garbled"} :
            Ver!Call("displaymode", Ver!set_display_mode(claim), outcome)
      BY <2>3 DEF Ver!SendMode
    <3>2. pc = "claim" /\ levels' = levels
      BY <2>3, <3>1, ModeCall DEF Ver!SendMode
    <3>3. pc' \in Ver!Ended => pc' = "raised"
      BY <2>3 DEF Ver!SendMode, Ver!GiveUp, Ver!Following, Ver!Ended
    <3>4. levels = before.levels
      BY <1>1, <3>2 DEF VerInv, LevelsUntouched
    <3> QED
      BY <3>2, <3>3, <3>4
  <2>4. CASE Ver!RestoreDisplay
    <3>1. PICK restored \in BOOLEAN : RestoreComesTo(restored)
      BY <1>1, <2>4, RestoreDoes DEF VerInv
    <3>2. pc = "restore" /\ levels = before.levels
      BY <1>1, <3>1 DEF RestoreComesTo, VerInv, LevelsUntouched
    <3> QED
      BY <3>1, <3>2 DEF RestoreComesTo, Ver!Ended
  <2>5. CASE Ver!ReadCabinets
    <3>1. UNCHANGED <<mode, levels, unrestored>> /\ pc = "cabinets"
      BY <2>5 DEF Ver!ReadCabinets, Ver!Read, Ver!controller, Ver!result
    <3> QED
      BY <1>1, <3>1 DEF VerInv, ModeIsBack, LevelsUntouched, Sending
  <2>6. CASE Ver!SendBrightness
    <3>1. PICK outcome \in {"ok", "absent", "refused", "lost", "garbled"} :
            /\ Ver!Call("brightness", Ver!set_brightness(Cabinet, Ver!Target), outcome)
            /\ pc' \in Ver!Ended => outcome = "absent" \/ observations' = observations
            /\ unrestored' = unrestored
      BY <2>6 DEF Ver!SendBrightness, Ver!Ended
    <3>2. mode' = mode /\ (outcome = "absent" => levels' = levels) /\ pc = "dim"
      BY <2>6, <3>1, BrightnessCall DEF Ver!SendBrightness
    <3>3. levels = before.levels /\ (unrestored \/ mode = before.mode)
      BY <1>1, <3>2 DEF VerInv, ModeIsBack, LevelsUntouched, Sending
    <3> QED
      BY <3>1, <3>2, <3>3
  <2>7. CASE Ver!RestoreBrightness
    BY <2>7 DEF Ver!RestoreBrightness, Ver!Ended
  <2>8. CASE Ver!ReadBack
    <3>1. PICK answered_back, agreed \in BOOLEAN :
            unrestored' = (unrestored \/ ~(answered_back /\ levels = original /\ agreed))
      BY <2>8 DEF Ver!ReadBack, Ver!ReadsBack
    <3>2. UNCHANGED <<mode, levels>> /\ pc = "undim"
      BY <2>8 DEF Ver!ReadBack, Ver!Read, Ver!controller
    <3>3. /\ original = before.levels /\ (unrestored \/ mode = before.mode)
          /\ unrestored \in BOOLEAN
      BY <1>1, <3>2 DEF VerInv, VerTyped, ModeIsBack, LevelsUntouched, Sending
    <3> QED
      BY <3>1, <3>2, <3>3
  <2> QED
    BY <1>1, <2>1, <2>2, <2>3, <2>4, <2>5, <2>6, <2>7, <2>8 DEF Ver!Next
<1>2. ASSUME VerInv, [PartsNext]_<<part, vars, scrVars, verVars, conVars, monVars, recVars, reaVars>>
      PROVE  [Rightly]_(Ver!vars)
  BY <1>1, <1>2, VerifyAlone
<1> QED
  BY <1>2, VerifyInvariant, PTL DEF PartsSpec, WallIsAsItWas, Ver!WallIsAsItWas

LEMMA LastOfAppend ==
    ASSUME NEW s \in Seq(Observation), NEW x \in Observation
    PROVE  Ver!Last(Append(s, x)) = x
<1>1. Len(Append(s, x)) = Len(s) + 1 /\ Append(s, x)[Len(s) + 1] = x
  BY AppendProperties
<1> QED
  BY <1>1 DEF Ver!Last

\* A claim recorded as restored was: the display is in the mode it was in, each
\* cabinet is at the level it had (verify.py:257, 311).
THEOREM WhatIsRestoredWas == PartsSpec => RestoredIsTrue
<1> DEFINE AsItWas(of) == IF of \in {"claim", "restore"} THEN mode' = before.mode
                          ELSE levels' = before.levels
           Rightly == observations' # observations /\ Ver!Last(observations').restored =>
                         AsItWas(Ver!Last(observations').of)
<1>1. ASSUME VerInv, pc \in Sending, NEW kept \in BOOLEAN,
             observations' = Append(observations, [of |-> pc, restored |-> kept]),
             kept => AsItWas(pc)
      PROVE  Rightly
  <2>1. observations \in Seq(Observation) /\ [of |-> pc, restored |-> kept] \in Observation
    BY <1>1 DEF VerInv, VerTyped, Observation
  <2>2. Ver!Last(observations') = [of |-> pc, restored |-> kept]
    BY <1>1, <2>1, LastOfAppend
  <2> HIDE DEF AsItWas
  <2> QED
    BY <1>1, <2>2
<1>2. ASSUME VerInv, Ver!Next \/ UNCHANGED verVars PROVE Rightly
  <2>1. CASE UNCHANGED observations
    BY <2>1
  <2>2. CASE Ver!SendMode /\ Ver!Observe(TRUE)
    <3>1. PICK outcome \in {"ok", "absent", "refused", "lost", "garbled"} :
            /\ Ver!Call("displaymode", Ver!set_display_mode(claim), outcome)
            /\ outcome = "absent" \/ UNCHANGED observations
      BY <2>2 DEF Ver!SendMode
    <3>2. CASE outcome = "absent"
      <4>1. pc = "claim" /\ mode' = mode /\ "displaymode" \in absent
        BY <2>2, <3>1, <3>2, ModeCall DEF Ver!SendMode
      <4>2. mode' = before.mode
        BY <1>2, <4>1 DEF VerInv, AbsentIsUntouched
      <4> QED
        BY <1>1, <1>2, <2>2, <4>1, <4>2 DEF Ver!Observe, Sending
    <3> QED
      BY <2>1, <3>1, <3>2
  <2>3. CASE Ver!RestoreDisplay
    <3>1. PICK restored \in BOOLEAN : RestoreComesTo(restored)
      BY <1>2, <2>3, RestoreDoes DEF VerInv
    <3>2. \/ UNCHANGED observations
          \/ observations' = Append(observations, [of |-> pc, restored |-> restored])
      BY <3>1 DEF RestoreComesTo
    <3>3. pc = "restore" /\ (restored => mode' = before.mode)
      BY <3>1 DEF RestoreComesTo
    <3> QED
      BY <1>1, <1>2, <2>1, <3>2, <3>3 DEF Sending
  <2>4. CASE Ver!SendBrightness /\ Ver!Observe(TRUE)
    <3>1. PICK outcome \in {"ok", "absent", "refused", "lost", "garbled"} :
            /\ Ver!Call("brightness", Ver!set_brightness(Cabinet, Ver!Target), outcome)
            /\ outcome = "absent" \/ UNCHANGED observations
      BY <2>4 DEF Ver!SendBrightness
    <3>2. CASE outcome = "absent"
      <4>1. pc = "dim" /\ levels' = levels
        BY <2>4, <3>1, <3>2, BrightnessCall DEF Ver!SendBrightness
      <4>2. levels' = before.levels
        BY <1>2, <4>1 DEF VerInv, LevelsUntouched
      <4> QED
        BY <1>1, <1>2, <2>4, <4>1, <4>2 DEF Ver!Observe, Sending
    <3> QED
      BY <2>1, <3>1, <3>2
  <2>5. CASE Ver!RestoreBrightness /\ Ver!Observe(FALSE)
    <3>1. pc = "undim"
      BY <2>5 DEF Ver!RestoreBrightness
    <3> QED
      BY <1>1, <1>2, <2>5, <3>1 DEF Ver!Observe, Sending
  <2>6. CASE Ver!ReadBack
    <3>1. PICK answered_back, agreed \in BOOLEAN :
            Ver!Observe(answered_back /\ levels = original /\ agreed)
      BY <2>6 DEF Ver!ReadBack, Ver!ReadsBack
    <3> DEFINE kept == answered_back /\ levels = original /\ agreed
    <3>2. kept \in BOOLEAN /\ (kept => levels = original)
          /\ observations' = Append(observations, [of |-> pc, restored |-> kept])
      BY <3>1 DEF Ver!Observe
    <3>3. pc = "undim" /\ levels' = levels
      BY <2>6 DEF Ver!ReadBack, Ver!Read, Ver!controller
    <3>4. original = before.levels
      BY <1>2, <3>3 DEF VerInv, LevelsUntouched
    <3> HIDE DEF kept
    <3> QED
      BY <1>1, <1>2, <3>2, <3>3, <3>4 DEF Sending
  <2>7. CASE \/ Ver!Start \/ Ver!LateEffect \/ Ver!Confirm \/ Ver!ReadIdentity \/ Ver!ReadStatus
             \/ Ver!AskNormal \/ Ver!ReadCabinets
    <3>1. UNCHANGED observations
      BY <2>7 DEF Ver!Start, Ver!LateEffect, Ver!Confirm, Ver!ReadIdentity,
         Ver!ReadStatus, Ver!AskNormal, Ver!ReadCabinets, Ver!result
    <3> QED
      BY <2>1, <3>1
  <2>8. /\ Ver!SendMode => UNCHANGED observations \/ Ver!Observe(TRUE)
        /\ Ver!SendBrightness => UNCHANGED observations \/ Ver!Observe(TRUE)
        /\ Ver!RestoreBrightness => UNCHANGED observations \/ Ver!Observe(FALSE)
        /\ UNCHANGED verVars => UNCHANGED observations
    BY DEF Ver!SendMode, Ver!SendBrightness, Ver!RestoreBrightness, verVars
  <2> HIDE DEF Rightly
  <2> QED
    BY <1>2, <2>1, <2>2, <2>3, <2>4, <2>5, <2>6, <2>7, <2>8 DEF Ver!Next
<1>3. ASSUME VerInv, [PartsNext]_<<part, vars, scrVars, verVars, conVars, monVars, recVars, reaVars>>
      PROVE  [Rightly]_(Ver!vars)
  BY <1>2, <1>3, VerifyAlone
<1> QED
  BY <1>3, VerifyInvariant, PTL DEF PartsSpec, RestoredIsTrue, Ver!RestoredIsTrue

-----------------------------------------------------------------------------
(* Verify: well formed                                                       *)

\* What is sent and what is restored are modes and levels there are.
OfTheWall ==
    /\ mode \in 0..2 /\ levels \in [Cabinet -> 0..4] /\ original \in [Cabinet -> 0..4]
    /\ before.mode \in 0..2 /\ claim \in 1..2 /\ baseline \in 0..Ver!Unknown
    /\ \A w \in late : IF w.field = "mode" THEN w.value \in 0..2 ELSE w.value \in 0..4

\* The levels to restore are those that were read, and read but once.
ToRestoreWasRead ==
    /\ toRestore \subseteq Ver!Values
    /\ pc \in Unsent \cup {"off", "claim", "restore", "cabinets"} => toRestore = {}

\* Each claim is observed once, those before it at most once each.
ObservedOnce ==
    /\ pc \in Unsent \cup {"off"} => observations = <<>>
    /\ pc \in {"claim", "restore"} => Len(observations) < claim
    /\ pc \in {"cabinets", "dim", "undim"} => Len(observations) <= 2
    /\ Len(observations) <= 3

VerShaped == OfTheWall /\ ToRestoreWasRead /\ ObservedOnce

LEMMA VerAssumed == Cabinet # {} /\ Level \subseteq 0..4
BY PartsAssumption DEF Ver!VerifyAssumption

\* The brightness that is tried is one there is: half of the greatest, or twice.
LEMMA TargetIsALevel == ASSUME OfTheWall PROVE Ver!Target \in 0..4
<1>1. Ver!Values \subseteq 0..4 /\ Ver!Values # {}
  BY VerAssumed DEF OfTheWall, Ver!Values
<1>2. \E v \in Ver!Values : \A w \in Ver!Values : w <= v
  <2>1. PICK least \in Ver!Values : TRUE
    BY <1>1
  <2>2. \A w \in Ver!Values : w \in {0, 1, 2, 3, 4}
    BY <1>1
  <2>3. \/ 4 \in Ver!Values
        \/ 4 \notin Ver!Values /\ 3 \in Ver!Values
        \/ 4 \notin Ver!Values /\ 3 \notin Ver!Values /\ 2 \in Ver!Values
        \/ Ver!Values \subseteq {0, 1} /\ 1 \in Ver!Values
        \/ Ver!Values \subseteq {0} /\ 0 \in Ver!Values
    BY <2>1, <2>2
  <2> QED
    BY <2>2, <2>3
<1>3. Ver!typical \in 0..4
  BY <1>1, <1>2 DEF Ver!typical
<1> QED
  BY <1>3 DEF Ver!Target

\* A call leaves modes and levels, whatever it comes to.
LEMMA CallOfTheWall ==
    ASSUME OfTheWall, NEW endpoint, NEW outcome, NEW w,
           Ver!Call(endpoint, w, outcome),
           IF w.field = "mode" THEN w.value \in 0..2 ELSE w.value \in 0..4
    PROVE  /\ mode' \in 0..2 /\ levels' \in [Cabinet -> 0..4]
           /\ \A x \in late' : IF x.field = "mode" THEN x.value \in 0..2 ELSE x.value \in 0..4
<1>1. CASE outcome # "absent" /\ Ver!Effect(w) /\ UNCHANGED late
  BY <1>1 DEF OfTheWall, Ver!Effect
<1>2. CASE outcome # "ok" /\ UNCHANGED <<mode, levels, late>>
  BY <1>2 DEF OfTheWall
<1>3. CASE outcome = "lost" /\ UNCHANGED <<mode, levels>> /\ late' = late \cup {w}
  BY <1>3 DEF OfTheWall
<1> QED
  BY <1>1, <1>2, <1>3 DEF Ver!Call

LEMMA OfTheWallStep == ASSUME VerInv, VerShaped, Ver!Next PROVE OfTheWall'
<1>0. OfTheWall
  BY DEF VerShaped
<1>1. CASE Ver!Start
  BY <1>0, <1>1, VerAssumed DEF OfTheWall, Ver!Start
<1>2. CASE Ver!LateEffect
  <2>1. PICK w \in late : Ver!Effect(w) /\ late' = late \ {w}
    BY <1>2 DEF Ver!LateEffect
  <2>2. UNCHANGED <<original, before, claim, baseline>>
    BY <1>2 DEF Ver!LateEffect, Ver!result
  <2> QED
    BY <1>0, <2>1, <2>2 DEF OfTheWall, Ver!Effect
<1>3. CASE Ver!Confirm \/ Ver!ReadIdentity \/ Ver!ReadStatus \/ Ver!AskNormal
           \/ Ver!ReadCabinets \/ Ver!ReadBack
  <2>1. UNCHANGED <<mode, levels, late, before, claim>>
    BY <1>3 DEF Ver!Confirm, Ver!ReadIdentity, Ver!ReadStatus, Ver!AskNormal, Ver!ReadCabinets,
       Ver!ReadBack, Ver!Read, Ver!controller, Ver!result
  <2>2. baseline' \in {baseline, mode, 0, Ver!Unknown} /\ original' \in {original, levels}
    BY <1>3 DEF Ver!Confirm, Ver!ReadIdentity, Ver!ReadStatus, Ver!AskNormal, Ver!ReadCabinets,
       Ver!ReadBack, Ver!Read, Ver!controller, Ver!result
  <2> QED
    BY <1>0, <2>1, <2>2 DEF OfTheWall, Ver!Unknown
<1>4. CASE Ver!SendMode
  <2>1. PICK outcome \in {"ok", "absent", "refused", "lost", "garbled"} :
            Ver!Call("displaymode", Ver!set_display_mode(claim), outcome)
    BY <1>4 DEF Ver!SendMode
  <2>2. Ver!set_display_mode(claim).field = "mode" /\ Ver!set_display_mode(claim).value = claim
    BY DEF Ver!set_display_mode, Ver!Write
  <2>3. claim \in 0..2
    BY <1>0 DEF OfTheWall
  <2>4. /\ mode' \in 0..2 /\ levels' \in [Cabinet -> 0..4]
        /\ \A x \in late' : IF x.field = "mode" THEN x.value \in 0..2 ELSE x.value \in 0..4
    BY <1>0, <2>1, <2>2, <2>3, CallOfTheWall
  <2>5. UNCHANGED <<original, before, baseline>> /\ claim' \in {claim, 2}
    BY <1>4 DEF Ver!SendMode
  <2> QED
    BY <1>0, <2>4, <2>5 DEF OfTheWall
<1>5. CASE Ver!RestoreDisplay
  <2>1. PICK outcome \in {"ok", "absent", "refused", "lost", "garbled"} :
            Ver!Call("displaymode", Ver!set_display_mode(baseline), outcome)
    BY <1>5 DEF Ver!RestoreDisplay
  <2>2. Ver!set_display_mode(baseline).field = "mode"
        /\ Ver!set_display_mode(baseline).value = baseline
    BY DEF Ver!set_display_mode, Ver!Write
  <2>3. baseline \in 0..2
    BY <1>0, <1>5 DEF OfTheWall, Ver!RestoreDisplay, VerInv, SentConfirmed, Sending
  <2>4. /\ mode' \in 0..2 /\ levels' \in [Cabinet -> 0..4]
        /\ \A x \in late' : IF x.field = "mode" THEN x.value \in 0..2 ELSE x.value \in 0..4
    BY <1>0, <2>1, <2>2, <2>3, CallOfTheWall
  <2>5. UNCHANGED <<original, before, baseline>> /\ claim' \in {claim, 2}
    BY <1>5 DEF Ver!RestoreDisplay, Ver!AfterRestore
  <2> QED
    BY <1>0, <2>4, <2>5 DEF OfTheWall
<1>6. CASE Ver!SendBrightness \/ Ver!RestoreBrightness
  <2>1. PICK outcome \in {"ok", "absent", "refused", "lost", "garbled"}, S \in {Cabinet} \cup SUBSET Cabinet,
             v \in {Ver!Target} \cup toRestore :
            Ver!Call("brightness", Ver!set_brightness(S, v), outcome)
    BY <1>6 DEF Ver!SendBrightness, Ver!RestoreBrightness, Ver!Holders
  <2>2. Ver!set_brightness(S, v).field = "levels" /\ Ver!set_brightness(S, v).value = v
    BY DEF Ver!set_brightness, Ver!Write
  <2>3. v \in 0..4
    <3>1. toRestore \subseteq 0..4
      BY <1>0 DEF VerShaped, ToRestoreWasRead, OfTheWall, Ver!Values
    <3> QED
      BY <1>0, <3>1, TargetIsALevel
  <2>4. /\ mode' \in 0..2 /\ levels' \in [Cabinet -> 0..4]
        /\ \A x \in late' : IF x.field = "mode" THEN x.value \in 0..2 ELSE x.value \in 0..4
    BY <1>0, <2>1, <2>2, <2>3, CallOfTheWall
  <2>5. UNCHANGED <<original, before, baseline, claim>>
    BY <1>6 DEF Ver!SendBrightness, Ver!RestoreBrightness
  <2> QED
    BY <1>0, <2>4, <2>5 DEF OfTheWall
<1> QED
  BY <1>1, <1>2, <1>3, <1>4, <1>5, <1>6 DEF Ver!Next

LEMMA ToRestoreStep == ASSUME VerShaped, Ver!Next PROVE ToRestoreWasRead'
<1>0. ToRestoreWasRead
  BY DEF VerShaped
<1>1. CASE Ver!ReadCabinets
  <2>1. toRestore = {} /\ toRestore' = toRestore
    BY <1>0, <1>1 DEF ToRestoreWasRead, Ver!ReadCabinets
  <2> QED
    BY <2>1 DEF ToRestoreWasRead
<1>2. CASE Ver!SendBrightness
  <2>1. original' = original /\ toRestore' \in {toRestore, Ver!Values}
        /\ pc' \in {"undim", "done", "raised"}
    BY <1>2 DEF Ver!SendBrightness, Ver!Undim
  <2> QED
    BY <1>0, <2>1 DEF ToRestoreWasRead, Ver!Values, Unsent
<1>3. CASE Ver!RestoreBrightness
  <2>1. /\ original' = original /\ toRestore' \subseteq toRestore
        /\ pc' \in {"undim", "done"}
    BY <1>3 DEF Ver!RestoreBrightness
  <2> QED
    BY <1>0, <2>1 DEF ToRestoreWasRead, Ver!Values, Unsent
<1>4. CASE Ver!Start \/ Ver!Confirm \/ Ver!ReadIdentity \/ Ver!ReadStatus \/ Ver!AskNormal
           \/ Ver!SendMode \/ Ver!RestoreDisplay \/ Ver!ReadBack \/ Ver!LateEffect
  <2>1. /\ UNCHANGED <<original, toRestore>>
        /\ toRestore = {} \/ pc' \in {pc, "done"}
    BY <1>0, <1>4
       DEF ToRestoreWasRead, Ver!Start, Ver!Confirm, Ver!ReadIdentity, Ver!ReadStatus,
       Ver!AskNormal, Ver!SendMode, Ver!RestoreDisplay, Ver!ReadBack, Ver!LateEffect, Unsent
  <2> QED
    BY <1>0, <2>1 DEF ToRestoreWasRead, Ver!Values, Unsent
<1> QED
  BY <1>1, <1>2, <1>3, <1>4 DEF Ver!Next

LEMMA ObservedOnceStep == ASSUME VerInv, VerShaped, Ver!Next PROVE ObservedOnce'
<1>0. /\ ObservedOnce /\ claim \in 1..2 /\ observations \in Seq(Observation)
      /\ Len(observations) \in Nat
  BY LenProperties DEF VerShaped, OfTheWall, VerInv, VerTyped
<1>1. \A o : Len(Append(observations, o)) = Len(observations) + 1
  BY <1>0
<1>2. CASE UNCHANGED <<pc, claim, observations>>
  BY <1>0, <1>2 DEF ObservedOnce
<1>3. CASE Ver!Start \/ Ver!Confirm \/ Ver!ReadIdentity \/ Ver!ReadStatus \/ Ver!AskNormal
  <2>1. /\ UNCHANGED <<claim, observations>> /\ observations = <<>>
        /\ pc' \in Unsent \cup {"claim", "done"}
    BY <1>0, <1>3 DEF ObservedOnce, Ver!Start, Ver!Confirm, Ver!ReadIdentity, Ver!ReadStatus,
       Ver!AskNormal, Unsent, Ver!Abort, Ver!result
  <2>2. Len(<<>>) = 0
    OBVIOUS
  <2> QED
    BY <1>0, <2>1, <2>2 DEF ObservedOnce, Unsent
<1>4. CASE Ver!SendMode \/ Ver!RestoreDisplay
  <2>1. Len(observations) < claim
    BY <1>0, <1>4 DEF ObservedOnce, Ver!SendMode, Ver!RestoreDisplay
  <2>2. \/ /\ UNCHANGED <<claim, observations>> /\ pc' \in {"restore", "done", "raised"}
        \/ /\ \E o : observations' = Append(observations, o)
           /\ pc' = Ver!Following /\ claim' = 2
    BY <1>4 DEF Ver!SendMode, Ver!RestoreDisplay, Ver!GiveUp, Ver!AfterRestore, Ver!Observe
  <2>3. CASE UNCHANGED <<claim, observations>> /\ pc' \in {"restore", "done", "raised"}
    BY <1>0, <2>1, <2>3 DEF ObservedOnce, Unsent
  <2>4. CASE (\E o : observations' = Append(observations, o)) /\ pc' = Ver!Following /\ claim' = 2
    <3>1. Len(observations') = Len(observations) + 1
      BY <1>1, <2>4
    <3>2. pc' = IF claim = 2 THEN "cabinets" ELSE "claim"
      BY <2>4 DEF Ver!Following
    <3> QED
      BY <1>0, <2>1, <2>4, <3>1, <3>2 DEF ObservedOnce, Unsent
  <2> QED
    BY <2>2, <2>3, <2>4
<1>5. CASE Ver!ReadCabinets \/ Ver!SendBrightness \/ Ver!RestoreBrightness \/ Ver!ReadBack
  <2>1. Len(observations) <= 2
    BY <1>0, <1>5 DEF ObservedOnce, Ver!ReadCabinets, Ver!SendBrightness, Ver!RestoreBrightness,
       Ver!ReadBack
  <2>2. \/ observations' = observations /\ pc' \in {"dim", "undim", "done", "raised"}
        \/ (\E o : observations' = Append(observations, o)) /\ pc' = "done"
    BY <1>5 DEF Ver!ReadCabinets, Ver!SendBrightness, Ver!RestoreBrightness, Ver!ReadBack,
       Ver!Observe, Ver!result
  <2> QED
    BY <1>0, <1>1, <2>1, <2>2 DEF ObservedOnce, Unsent
<1>6. CASE Ver!LateEffect
  BY <1>2, <1>6 DEF Ver!LateEffect, Ver!result
<1> QED
  BY <1>3, <1>4, <1>5, <1>6 DEF Ver!Next

\* Every state of a session is well formed: a claim is observed once at most, and
\* what is to be restored are levels that were read.
THEOREM VerifyIsWellFormed == PartsSpec => []Ver!TypeOK
<1>1. PartsInit => VerShaped
  <2> SUFFICES ASSUME Ver!Init PROVE VerShaped
    BY DEF PartsInit
  <2>1. /\ mode = 0 /\ levels = [c \in Cabinet |-> 4] /\ late = {} /\ pc = "off" /\ claim = 1
        /\ baseline = 3 /\ original = levels /\ toRestore = {} /\ observations = <<>>
        /\ before.mode = mode
    BY DEF Ver!Init, Ver!Unknown
  <2>2. Len(<<>>) = 0
    OBVIOUS
  <2> QED
    BY <2>1, <2>2 DEF VerShaped, OfTheWall, ToRestoreWasRead, ObservedOnce, Unsent, Ver!Unknown
<1>2. ASSUME VerInv, VerShaped, Ver!Next \/ UNCHANGED verVars PROVE VerShaped'
  <2>1. CASE Ver!Next
    BY <1>2, <2>1, OfTheWallStep, ToRestoreStep, ObservedOnceStep DEF VerShaped
  <2>2. CASE UNCHANGED verVars
    BY <1>2, <2>2 DEF VerShaped, OfTheWall, ToRestoreWasRead, ObservedOnce, verVars, Ver!Values
  <2> QED
    BY <1>2, <2>1, <2>2
<1>3. VerInv /\ VerShaped => Ver!TypeOK
  BY DEF VerInv, VerTyped, VerShaped, OfTheWall, ToRestoreWasRead, ObservedOnce, Unsent, Sending,
     Ver!TypeOK, Ver!Ended
<1>4. PartsSpec => []VerShaped
  BY <1>1, <1>2, VerifyAlone, VerifyInvariant, PTL DEF PartsSpec
<1> QED
  BY <1>3, <1>4, VerifyInvariant, PTL
=============================================================================
