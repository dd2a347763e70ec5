------------------------------- MODULE Verify -------------------------------
(* verify.run: each claim about a live COEX controller is tried by a write,  *)
(* looked at by an operator, and reversed.  A call may find its endpoint     *)
(* absent, be refused, be lost or come back garbled, with or without having  *)
(* taken effect, and a lost one may take effect later.                       *)
EXTENDS Integers, FiniteSets, Sequences, SequencesExt

CONSTANTS
    Cabinet,    \* cabinets that report a brightness, all of one screen
    Level,      \* brightness fractions, in quarters
    Endpoint    \* endpoints a firmware may lack

VerifyAssumption ==
    /\ IsFiniteSet(Cabinet) /\ Cabinet # {}
    /\ Level \subseteq 0..4
    /\ Endpoint \subseteq {"status", "displaymode", "brightness"}

VARIABLES
    mode, levels,   \* the controller: display mode, brightness of each cabinet
    late,           \* lost writes that may still take effect
    absent,         \* endpoints this firmware lacks
    pc,             \* what the session does next
    claim,          \* display mode under test
    baseline,       \* display mode to restore; 3: not read
    original,       \* brightness of each cabinet when it was read
    toRestore,      \* values of it still to be written back
    observations,   \* whether each claim's write was recorded as restored
    confirmed,      \* the operator confirmed that nothing depends on the wall
    aborted,
    before,         \* history: mode and levels when the session began
    unrestored      \* history: a restore failed, as the operator was told or saw
vars == <<mode, levels, late, absent, pc, claim, baseline, original, toRestore,
          observations, confirmed, aborted, before, unrestored>>
controller == <<mode, levels, late, absent>>
result == <<observations, confirmed, aborted, before, unrestored>>

Ended == {"off", "done", "raised"}
Unknown == 3

Init ==
    /\ mode = 0 /\ levels = [c \in Cabinet |-> 4] /\ late = {} /\ absent = {}
    /\ pc = "off" /\ claim = 1 /\ baseline = Unknown
    /\ original = levels /\ toRestore = {} /\ observations = <<>>
    /\ confirmed = FALSE /\ aborted = FALSE
    /\ before = [mode |-> mode, levels |-> levels] /\ unrestored = FALSE

Start ==
    /\ pc = "off"
    /\ mode' \in 0..2 /\ levels' \in [Cabinet -> Level] /\ absent' \in SUBSET Endpoint
    /\ before' = [mode |-> mode', levels |-> levels']
    /\ pc' = "confirm"
    /\ UNCHANGED <<late, claim, baseline, original, toRestore, observations,
                   confirmed, aborted, unrestored>>

-----------------------------------------------------------------------------
(* The controller: what a write does there, and what a call comes to.        *)

Write(field, cabinets, value) == [field |-> field, cabinets |-> cabinets, value |-> value]
set_display_mode(value) == Write("mode", {}, value)
set_brightness(cabinets, value) == Write("levels", cabinets, value)

Effect(w) ==
    IF w.field = "mode" THEN mode' = w.value /\ UNCHANGED levels
    ELSE /\ levels' = [c \in Cabinet |-> IF c \in w.cabinets THEN w.value ELSE levels[c]]
         /\ UNCHANGED mode

\* "refused" is a CoexError, "lost" an OSError, "garbled" a ValueError.
Call(endpoint, w, outcome) ==
    /\ (endpoint \in absent) = (outcome = "absent")
    /\ \/ outcome # "absent" /\ Effect(w) /\ UNCHANGED late
       \/ outcome # "ok" /\ UNCHANGED <<mode, levels, late>>
       \/ outcome = "lost" /\ UNCHANGED <<mode, levels>> /\ late' = late \cup {w}
    /\ UNCHANGED absent

LateEffect ==
    /\ pc # "off" /\ late # {}
    /\ \E w \in late : Effect(w) /\ late' = late \ {w}
    /\ UNCHANGED <<absent, pc, claim, baseline, original, toRestore, result>>

\* A read that fails in any way, or one that succeeds.
Read == UNCHANGED controller

-----------------------------------------------------------------------------
(* Before anything is sent.                                                  *)

Abort == pc' = "done" /\ aborted' = TRUE

Confirm ==
    /\ pc = "confirm"
    /\ \/ pc' = "identity" /\ confirmed' = TRUE /\ UNCHANGED aborted
       \/ Abort /\ UNCHANGED confirmed
    /\ UNCHANGED <<controller, claim, baseline, original, toRestore, observations,
                   before, unrestored>>

ReadIdentity ==
    /\ pc = "identity" /\ Read
    /\ \/ pc' = "status" /\ UNCHANGED aborted
       \/ Abort
    /\ UNCHANGED <<claim, baseline, original, toRestore, observations, confirmed,
                   before, unrestored>>

ReadStatus ==
    /\ pc = "status" /\ Read
    /\ \/ "status" \notin absent /\ baseline' = mode /\ pc' = "claim"
       \/ baseline' = Unknown /\ pc' = "normal?"
    /\ UNCHANGED <<claim, original, toRestore, result>>

\* The operator sees whether the wall is normal, which is what is restored.
Asked_nothing == TRUE
Asked == mode = 0

AskNormal ==
    /\ pc = "normal?"
    /\ \/ Asked /\ baseline' = 0 /\ pc' = "claim" /\ UNCHANGED aborted
       \/ ~Asked /\ Abort /\ UNCHANGED baseline
    /\ UNCHANGED <<controller, claim, original, toRestore, observations, confirmed,
                   before, unrestored>>

-----------------------------------------------------------------------------
(* Claims 1 and 2: a display mode is sent, looked at and restored.           *)

Observe(restored) ==
    observations' = Append(observations, [of |-> pc, restored |-> restored])
Following == IF claim = 2 THEN "cabinets" ELSE "claim"

GiveUp_at_once == "done"
GiveUp == "restore"

SendMode ==
    /\ pc = "claim"
    /\ \E outcome \in {"ok", "absent", "refused", "lost", "garbled"} :
        /\ Call("displaymode", set_display_mode(claim), outcome)
        /\ \/ /\ outcome = "ok"
              /\ pc' = "restore"
              /\ UNCHANGED <<claim, observations, aborted>>
           \/ /\ outcome = "absent"
              /\ Observe(TRUE) /\ pc' = Following /\ claim' = 2
              /\ UNCHANGED aborted
           \/ /\ outcome \in {"refused", "lost"}
              /\ pc' = GiveUp /\ aborted' = TRUE
              /\ UNCHANGED <<claim, observations>>
           \/ /\ outcome = "garbled"    \* caught nowhere: nothing is restored
              /\ pc' = "raised"
              /\ UNCHANGED <<claim, observations, aborted>>
    /\ UNCHANGED <<baseline, original, toRestore, confirmed, before, unrestored>>

AfterRestore_hopeful(restored) ==
    /\ IF aborted THEN pc' = "done" /\ UNCHANGED <<claim, observations>>
       ELSE pc' = Following /\ claim' = 2 /\ Observe(TRUE)
    /\ unrestored' = (unrestored \/ ~restored)
\* A session that aborts ends with its restore, whatever came of it.
AfterRestore(restored) ==
    /\ IF aborted THEN pc' = "done" /\ UNCHANGED <<claim, observations>>
       ELSE pc' = Following /\ claim' = 2 /\ Observe(restored)
    /\ unrestored' = (unrestored \/ ~restored)

LooksRestored(m) == m = before.mode

\* _restore_display: the operator is asked whether the wall is back.
RestoreDisplay ==
    /\ pc = "restore"
    /\ \E outcome \in {"ok", "absent", "refused", "lost", "garbled"} :
        /\ Call("displaymode", set_display_mode(baseline), outcome)
        /\ \/ outcome = "ok" /\ AfterRestore(LooksRestored(mode'))
           \/ outcome \in {"absent", "refused", "lost"} /\ AfterRestore(FALSE)
           \/ /\ outcome = "garbled" /\ pc' = "raised"
              /\ UNCHANGED <<claim, observations, unrestored>>
    /\ UNCHANGED <<baseline, original, toRestore, confirmed, aborted, before>>

-----------------------------------------------------------------------------
(* Claim 3: the brightness ratio.                                            *)

Values == {original[c] : c \in Cabinet}
typical == CHOOSE v \in Values : \A w \in Values : w <= v
Target == IF typical > 2 THEN typical \div 2 ELSE 2 * typical

ReadCabinets ==
    /\ pc = "cabinets" /\ Read
    /\ \/ original' = levels /\ pc' = "dim"
       \/ pc' = "done" /\ UNCHANGED original
    /\ UNCHANGED <<claim, baseline, toRestore, result>>

\* _restore_brightness: one write for a uniform wall, else one for each value.
Undim == Values

SendBrightness ==
    /\ pc = "dim"
    /\ \E outcome \in {"ok", "absent", "refused", "lost", "garbled"} :
        /\ Call("brightness", set_brightness(Cabinet, Target), outcome)
        /\ \/ /\ outcome = "ok"
              /\ pc' = "undim" /\ toRestore' = Undim
              /\ UNCHANGED observations
           \/ /\ outcome = "absent"
              /\ Observe(TRUE) /\ pc' = "done"
              /\ UNCHANGED toRestore
           \/ /\ outcome \in {"refused", "lost"}    \* left as it is, effect or not
              /\ pc' = "done"
              /\ UNCHANGED <<toRestore, observations>>
           \/ /\ outcome = "garbled" /\ pc' = "raised"
              /\ UNCHANGED <<toRestore, observations>>
    /\ UNCHANGED <<claim, baseline, original, confirmed, aborted, before, unrestored>>

Holders(value) ==
    IF Cardinality(Undim) = 1 THEN Cabinet ELSE {c \in Cabinet : original[c] = value}

RestoreBrightness ==
    /\ pc = "undim" /\ toRestore # {}
    /\ \E value \in toRestore, outcome \in {"ok", "absent", "refused", "lost", "garbled"} :
        /\ Call("brightness", set_brightness(Holders(value), value), outcome)
        /\ \/ /\ outcome = "ok" /\ toRestore' = toRestore \ {value}
              /\ UNCHANGED <<pc, observations, unrestored>>
           \/ /\ outcome # "ok"
              /\ Observe(FALSE) /\ pc' = "done" /\ unrestored' = TRUE
              /\ UNCHANGED toRestore
    /\ UNCHANGED <<claim, baseline, original, confirmed, aborted, before>>

\* The cabinets are read back, and the operator has to agree.
ReadsBack(now) == now = original

ReadBack ==
    /\ pc = "undim" /\ toRestore = {} /\ Read
    /\ \E answered, agreed \in BOOLEAN :
        LET restored == answered /\ ReadsBack(levels) /\ agreed IN
        Observe(restored) /\ unrestored' = (unrestored \/ ~restored)
    /\ pc' = "done"
    /\ UNCHANGED <<claim, baseline, original, toRestore, confirmed, aborted, before>>

Next ==
    \/ Start \/ LateEffect \/ Confirm \/ ReadIdentity \/ ReadStatus \/ AskNormal
    \/ SendMode \/ RestoreDisplay \/ ReadCabinets \/ SendBrightness
    \/ RestoreBrightness \/ ReadBack

Spec == Init /\ [][Next]_vars

-----------------------------------------------------------------------------
TypeOK ==
    /\ mode \in 0..2 /\ levels \in [Cabinet -> 0..4]
    /\ pc \in Ended \cup {"confirm", "identity", "status", "normal?", "claim",
                          "restore", "cabinets", "dim", "undim"}
    /\ claim \in 1..2 /\ baseline \in 0..Unknown
    /\ toRestore \subseteq Values /\ Len(observations) <= 3

\* Nothing is sent to a wall that somebody depends on, nor to one whose state
\* could be neither read nor seen to be normal (verify.py:178, 213).
NothingSentUnconfirmed ==
    [][(mode' # mode \/ levels' # levels) /\ pc # "off" =>
         confirmed /\ baseline = before.mode]_vars

\* A claim recorded as restored was: the display is in the mode it was in, each
\* cabinet is at the level it had (verify.py:257, 311).
RestoredIsTrue ==
    [][observations' # observations /\ Last(observations').restored =>
         IF Last(observations').of \in {"claim", "restore"} THEN mode' = before.mode
         ELSE levels' = before.levels]_vars

\* However a session ends, by itself or by an exception, and though lost writes
\* may still arrive: unless a restore failed, which the operator was told, the
\* display and every cabinet are as they were.  There are two exceptions.  A
\* garbled answer to a write of the mode or to its restore ends the session with
\* the wall as it is, against verify.py:24; a brightness write that failed itself
\* may have had its effect and is not reversed, against verify.py:325.
WallIsAsItWas ==
    [][pc \notin Ended /\ pc' \in Ended /\ ~unrestored' =>
         /\ mode' = before.mode \/ (pc \in {"claim", "restore"} /\ pc' = "raised")
         /\ levels' = before.levels \/ (pc = "dim" /\ observations' = observations)]_vars
=============================================================================
