------------------------ MODULE Configuration_proofs ------------------------
(* Proofs about Configuration, for every set of threads of the server, every *)
(* set of screen identifiers, and any number of requests, crashes and edits. *)
EXTENDS Configuration, TLAPS, FiniteSetTheorems

-----------------------------------------------------------------------------
(* The inductive invariant                                                   *)

Place == {"idle", "edit", "validate", "collect", "serialise", "open", "write",
          "replace"}
Reason == {"overlap", "abandoned", "failed", "unmoved"}
ThreadState ==
    [pc : Place, screen : Identifier \cup {None}, candidate : Threshold,
     snapshot : Layout, fd : Inode \cup {0}, solo : BOOLEAN]

Typed ==
    /\ running \in BOOLEAN /\ config_error \in BOOLEAN
    /\ memory \in Layout /\ started_with \in Threshold
    /\ threads \in [Thread -> ThreadState]
    /\ inodes \in [Inode -> File]
    /\ dest \in Inode \cup {0} /\ temp \in Inode \cup {0}
    /\ aside \subseteq File
    /\ edited \in ByHand \cup {Text("missing")}
    /\ doubt \subseteq Reason

\* A file is open while it is written, and a name names a file of its own.
Descriptors ==
    /\ dest = temp => dest = 0
    /\ \A t \in Thread : threads[t].fd # 0 <=> threads[t].pc = "write"

\* A program that is down has no threads.
Stopped == ~running => \A t \in Thread : threads[t] = Idle

\* One thread at a time changes a screen in place, and nobody removes it.
EditingAlone ==
    /\ \A t \in Thread : threads[t].pc = "edit" =>
        threads[t].screen \in Identifier /\ memory.screens[threads[t].screen] \in Screen
    /\ \A t, u \in Thread : threads[t].pc = "edit" /\ threads[u].pc = "edit" => t = u

\* Nobody saves beside a save that takes itself to be alone.
SoloIsAlone ==
    \A t \in Thread : Saving(t) =>
        IF threads[t].solo THEN \A u \in Thread : Saving(u) => u = t
        ELSE "overlap" \in doubt

\* And so its temporary file is its own: empty until it is written, and then
\* what was collected.
SoloFiles ==
    \A t \in Thread : threads[t].solo =>
        /\ threads[t].pc = "write" => temp = threads[t].fd /\ inodes[temp] = Text("empty")
        /\ threads[t].pc = "replace" => temp # 0 /\ inodes[temp] = json(threads[t].snapshot)

\* Nobody has changed the memory and not yet gone on to collect it.
Collected == \A t \in Thread : threads[t].pc \notin {"edit", "collect"}

\* What such a save collected is the memory, but for a change that is still to
\* be collected or was given up.
SoloSnapshots ==
    Collected /\ "abandoned" \notin doubt =>
        \A t \in Thread : Saving(t) /\ threads[t].solo => threads[t].snapshot = memory

\* The file is behind the memory only while somebody is about to save it.
Fresh == Disk \in {json(memory)} \cup (IF memory = Default THEN {Text("missing")} ELSE {})
BehindOnlyWhileSaving ==
    running /\ doubt = {} /\ Collected => Fresh \/ \E t \in Thread : Saving(t)

\* A save that failed, or a file that was not moved aside, is shown.
FailuresAreShown == doubt \cap {"failed", "unmoved"} # {} => config_error

\* What the operator wrote is untouched while the program is down.
EditsAreKept ==
    \/ edited \notin ByHand \/ edited.kind = "json" \/ edited \in aside
    \/ ~running /\ Disk = edited

Inv ==
    /\ Typed /\ Descriptors /\ Stopped /\ EditingAlone
    /\ SoloIsAlone /\ SoloFiles /\ SoloSnapshots
    /\ SoloSavesAreWhole /\ BehindOnlyWhileSaving /\ FailuresAreShown
    /\ ThresholdsStayValid /\ EditsAreKept

-----------------------------------------------------------------------------
(* Files and inodes                                                          *)

\* What can be the contents of a file, and which of it is whole.
LEMMA Contents ==
    /\ Default \in Layout /\ Default.thresholds \in Threshold
    /\ \A l \in Layout : json(l) \in File \ HalfWritten /\ json(l).kind = "json"
                         /\ json(l).layout = l
    /\ HalfWritten \subseteq File /\ ByHand \subseteq File \ HalfWritten
    /\ Text("missing") \notin HalfWritten \cup ByHand
    /\ Text("missing").kind = "missing" /\ Text("empty") # Text("partial")
    /\ {Text("empty"), Text("partial")} = HalfWritten
    /\ \A f \in File : f.kind = "json" => f.layout \in Layout /\ f = json(f.layout)
    /\ \A f \in HalfWritten : f.kind \in {"empty", "partial"}
    /\ \A f \in File : f.kind # "missing"
<1>1. Default \in Layout /\ Default.thresholds \in Threshold
  BY DEF Default, Layout, Threshold
<1>2. [Default EXCEPT !.thresholds = [clear |-> 2, warning |-> 2]] \in Layout
  BY <1>1 DEF Layout, Threshold
<1>3. ASSUME NEW f \in File PROVE
        /\ f.kind # "missing"
        /\ f.kind = "json" => f.layout \in Layout /\ f = json(f.layout)
  BY <1>1, <1>2, <1>3 DEF File, HalfWritten, ByHand, Text, json
<1>4. ASSUME NEW l \in Layout
      PROVE json(l) \in File \ HalfWritten /\ json(l).kind = "json" /\ json(l).layout = l
  BY <1>4 DEF File, HalfWritten, Text, json
<1>5. HalfWritten \subseteq File /\ ByHand \subseteq File \ HalfWritten
  BY DEF File, HalfWritten, ByHand, Text, json
<1>6. /\ Text("missing") \notin HalfWritten \cup ByHand
      /\ Text("missing").kind = "missing" /\ Text("empty") # Text("partial")
      /\ {Text("empty"), Text("partial")} = HalfWritten
      /\ \A f \in HalfWritten : f.kind \in {"empty", "partial"}
  BY DEF HalfWritten, ByHand, Text, json
<1> QED
  BY <1>1, <1>3, <1>4, <1>5, <1>6

\* A thread that does nothing holds nothing.
LEMMA IdleState ==
    /\ Idle \in ThreadState /\ Idle.pc = "idle" /\ Idle.fd = 0 /\ Idle.solo = TRUE
BY Contents DEF Idle, ThreadState, Place

\* There is an inode to spare: a thread has one file open, and two have names.
LEMMA FreeInodeIsFree ==
    ASSUME Typed
    PROVE  FreeInode \in Inode /\ FreeInode \notin Open \cup {dest, temp}
<1> DEFINE held == [t \in Thread |-> threads[t].fd]
           H == {held[t] : t \in Thread}
           U == (H \cup {dest}) \cup {temp}
<1>1. IsFiniteSet(Thread) /\ Cardinality(Thread) \in Nat
  BY ConfigurationAssumption, FS_CardinalityType
<1>2. held \in Surjection(Thread, H)
  BY DEF Surjection
<1>3. IsFiniteSet(H) /\ Cardinality(H) <= Cardinality(Thread)
  BY <1>1, <1>2, FS_Surjection
<1>4. /\ IsFiniteSet(H \cup {dest})
      /\ Cardinality(H \cup {dest}) = IF dest \in H THEN Cardinality(H) ELSE Cardinality(H) + 1
  BY <1>3, FS_AddElement
<1>5. /\ IsFiniteSet(U)
      /\ Cardinality(U) = IF temp \in H \cup {dest} THEN Cardinality(H \cup {dest})
                                                  ELSE Cardinality(H \cup {dest}) + 1
  BY <1>4, FS_AddElement
<1>6. Cardinality(H) \in Nat
  BY <1>3, FS_CardinalityType
<1>7. Cardinality(U) <= Cardinality(Thread) + 2 /\ Cardinality(U) \in Nat
  BY <1>1, <1>3, <1>4, <1>5, <1>6
<1>8. IsFiniteSet(Inode) /\ Cardinality(Inode) = Cardinality(Thread) + 3
  BY <1>1, FS_Interval DEF Inode
<1>9. \E i \in Inode : i \notin U
  <2> SUFFICES ASSUME Inode \subseteq U PROVE FALSE
    OBVIOUS
  <2>1. Cardinality(Inode) <= Cardinality(U)
    BY <1>5, FS_Subset
  <2> QED
    BY <2>1, <1>1, <1>7, <1>8
<1>10. Open \cup {dest, temp} \subseteq U
  BY DEF Open
<1> QED
  BY <1>9, <1>10 DEF FreeInode

\* The thread that moves is the only one to change.
LEMMA OneMoves ==
    ASSUME Typed, NEW t \in Thread, NEW p \in ThreadState,
           threads' = [threads EXCEPT ![t] = p]
    PROVE  /\ threads' \in [Thread -> ThreadState] /\ threads'[t] = p
           /\ \A u \in Thread \ {t} : threads'[u] = threads[u]
BY DEF Typed

-----------------------------------------------------------------------------
(* Requests                                                                  *)

\* A request moves one thread outside a save and leaves the files alone: what
\* it changes of the memory it goes on to collect, or it gives the change up.
LEMMA RequestSteps ==
    ASSUME Inv, running, NEW t \in Thread, NEW p \in ThreadState,
           threads' = [threads EXCEPT ![t] = p],
           threads[t].pc \in {"idle", "edit", "validate"},
           p.pc \in {"idle", "edit", "validate", "collect"}, p.fd = 0,
           memory' \in Layout, UNCHANGED <<files, process, config_error>>,
           doubt' \in {doubt, doubt \cup {"abandoned"}},
           \/ p.pc \in {"edit", "collect"} \/ "abandoned" \in doubt'
           \/ memory' = memory /\ doubt' = doubt /\ threads[t].pc # "edit"
    PROVE  /\ Typed' /\ Descriptors' /\ Stopped' /\ SoloIsAlone' /\ SoloFiles'
           /\ SoloSnapshots' /\ SoloSavesAreWhole' /\ BehindOnlyWhileSaving'
           /\ FailuresAreShown' /\ EditsAreKept'
<1>1. /\ threads' \in [Thread -> ThreadState] /\ threads'[t] = p
      /\ \A u \in Thread \ {t} : threads'[u] = threads[u]
  BY OneMoves DEF Inv
<1>2. UNCHANGED <<running, started_with, inodes, dest, temp, aside, config_error, edited>>
  BY DEF files, process
<1>3. Disk' = Disk
  BY <1>2 DEF Disk
<1>4. Typed'
  BY <1>1, <1>2 DEF Inv, Typed, Reason
<1>5. /\ ~Saving(t) /\ ~Saving(t)'
      /\ \A u \in Thread \ {t} : Saving(u)' <=> Saving(u)
  BY <1>1 DEF Saving
<1>6. Descriptors'
  BY <1>1, <1>2 DEF Inv, Descriptors
<1>7. Stopped'
  BY <1>2 DEF Stopped
<1>8. SoloIsAlone'
  BY <1>1, <1>5 DEF Inv, SoloIsAlone
<1>9. SoloFiles'
  BY <1>1, <1>2 DEF Inv, SoloFiles
<1>10. SoloSavesAreWhole'
  BY <1>3 DEF Inv, SoloSavesAreWhole
<1>11. FailuresAreShown'
  BY <1>2 DEF Inv, FailuresAreShown
<1>12. EditsAreKept'
  BY <1>2, <1>3 DEF Inv, EditsAreKept
<1>13. CASE p.pc \in {"edit", "collect"}
  <2>1. ~Collected'
    BY <1>1, <1>13 DEF Collected
  <2> QED
    BY <1>4, <1>6, <1>7, <1>8, <1>9, <1>10, <1>11, <1>12, <2>1
       DEF SoloSnapshots, BehindOnlyWhileSaving
<1>14. CASE "abandoned" \in doubt'
  BY <1>4, <1>6, <1>7, <1>8, <1>9, <1>10, <1>11, <1>12, <1>14
     DEF SoloSnapshots, BehindOnlyWhileSaving
<1>15. CASE /\ p.pc \notin {"edit", "collect"}
            /\ memory' = memory /\ doubt' = doubt /\ threads[t].pc # "edit"
  <2>1. Collected' => Collected
    BY <1>1, <1>15 DEF Collected
  <2>2. SoloSnapshots'
    BY <1>1, <1>5, <1>15, <2>1 DEF Inv, SoloSnapshots
  <2>3. Fresh' <=> Fresh
    BY <1>3, <1>15 DEF Fresh
  <2>4. BehindOnlyWhileSaving'
    BY <1>2, <1>5, <1>15, <2>1, <2>3 DEF Inv, BehindOnlyWhileSaving
  <2> QED
    BY <1>4, <1>6, <1>7, <1>8, <1>9, <1>10, <1>11, <1>12, <2>2, <2>4
<1> QED
  BY <1>13, <1>14, <1>15

\* A step that changes one thread, which is not at a screen, and no screen that
\* another is at.
LEMMA EditingStays ==
    ASSUME Inv, NEW t \in Thread, NEW p \in ThreadState, p.pc # "edit",
           threads' = [threads EXCEPT ![t] = p],
           \A u \in Thread \ {t} : threads[u].pc = "edit" =>
               memory'.screens[threads[u].screen] \in Screen
    PROVE  EditingAlone'
<1>1. /\ threads'[t] = p /\ \A u \in Thread \ {t} : threads'[u] = threads[u]
  BY OneMoves DEF Inv
<1> QED
  BY <1>1 DEF Inv, EditingAlone

\* What a change of one screen leaves of the memory.
LEMMA ScreenChanged ==
    ASSUME memory \in Layout, NEW i \in Identifier, NEW s \in Screen \cup {None}
    PROVE  LET m == [memory EXCEPT !.screens[i] = s] IN
           /\ m \in Layout /\ m.thresholds = memory.thresholds /\ m.screens[i] = s
           /\ \A j \in Identifier \ {i} : m.screens[j] = memory.screens[j]
BY DEF Layout

\* And a change of one field of a screen that is there.
LEMMA FieldChanged ==
    ASSUME memory \in Layout, NEW i \in Identifier, memory.screens[i] \in Screen,
           NEW m, \/ m = [memory EXCEPT !.screens[i].name = "new"]
                  \/ m = [memory EXCEPT !.screens[i].members = "new"]
    PROVE  m \in Layout /\ m.thresholds = memory.thresholds /\ m.screens[i] \in Screen
BY DEF Layout, Screen

\* A thread that goes on to another place keeps what it holds.
LEMMA GoesOn ==
    ASSUME Typed, NEW t \in Thread, NEW pc \in Place,
           NEW p, p = [threads[t] EXCEPT !.pc = pc]
    PROVE  /\ p \in ThreadState /\ p.pc = pc /\ p.fd = threads[t].fd
           /\ p.solo = threads[t].solo /\ p.snapshot = threads[t].snapshot
<1>1. threads[t] \in ThreadState
  BY DEF Typed
<1> QED
  BY <1>1 DEF ThreadState

LEMMA AddScreenStep == ASSUME Inv, NEW t \in Thread, add_screen(t) PROVE Inv'
<1> DEFINE i == CHOOSE i \in Unused : \A j \in Unused : i <= j
           p == [threads[t] EXCEPT !.pc = "collect"]
           s == [name |-> "old", members |-> "old"]
<1>1. /\ running /\ threads[t].pc = "idle" /\ Unlocked
      /\ UNCHANGED <<files, process, config_error>>
      /\ memory' = [memory EXCEPT !.screens[i] = s]
      /\ threads' = [threads EXCEPT ![t] = p] /\ doubt' = doubt
  BY DEF add_screen, Request, At, Goto, Become
<1> HIDE DEF i
<1>2. memory' \in Layout /\ memory'.thresholds = memory.thresholds
  BY <1>1 DEF Inv, Typed, Layout, Screen
<1>3. p \in ThreadState /\ p.pc = "collect" /\ p.fd = 0
  BY <1>1, GoesOn DEF Inv, Descriptors, Place
<1> HIDE DEF p
<1>4. EditingAlone'
  BY <1>1, <1>3, EditingStays DEF Unlocked
<1>5. ThresholdsStayValid'
  BY <1>1, <1>2 DEF Inv, ThresholdsStayValid, process
<1> QED
  BY <1>1, <1>2, <1>3, <1>4, <1>5, RequestSteps DEF Inv

LEMMA RemoveScreenStep == ASSUME Inv, NEW t \in Thread, remove_screen(t) PROVE Inv'
<1> DEFINE p == [threads[t] EXCEPT !.pc = "collect"]
<1>1. /\ running /\ threads[t].pc = "idle" /\ Unlocked
      /\ UNCHANGED <<files, process, config_error>>
      /\ \E i \in Identifier : memory' = [memory EXCEPT !.screens[i] = None]
      /\ threads' = [threads EXCEPT ![t] = p] /\ doubt' = doubt
  BY DEF remove_screen, Request, At, Goto, Become
<1>2. memory' \in Layout /\ memory'.thresholds = memory.thresholds
  BY <1>1, ScreenChanged DEF Inv, Typed
<1>3. p \in ThreadState /\ p.pc = "collect" /\ p.fd = 0
  BY <1>1, GoesOn DEF Inv, Descriptors, Place
<1> HIDE DEF p
<1>4. EditingAlone'
  BY <1>1, <1>3, EditingStays DEF Unlocked
<1>5. ThresholdsStayValid'
  BY <1>1, <1>2 DEF Inv, ThresholdsStayValid, process
<1> QED
  BY <1>1, <1>2, <1>3, <1>4, <1>5, RequestSteps DEF Inv

LEMMA UpdateScreenStep == ASSUME Inv, NEW t \in Thread, update_screen(t) PROVE Inv'
<1>1. PICK i \in Identifier \ Unused :
        /\ memory' = [memory EXCEPT !.screens[i].name = "new"]
        /\ threads' = [threads EXCEPT ![t] = [Idle EXCEPT !.pc = "edit", !.screen = i]]
  BY DEF update_screen, Become
<1> DEFINE p == [Idle EXCEPT !.pc = "edit", !.screen = i]
<1>2. /\ running /\ threads[t].pc = "idle" /\ Unlocked
      /\ UNCHANGED <<files, process, config_error>> /\ doubt' = doubt
  BY DEF update_screen, Request, At
<1>3. memory \in Layout /\ memory.screens[i] \in Screen
  BY DEF Inv, Typed, Layout, Unused
<1>4. /\ memory' \in Layout /\ memory'.thresholds = memory.thresholds
      /\ memory'.screens[i] \in Screen
  BY <1>1, <1>3, FieldChanged
<1>5. p \in ThreadState /\ p.pc = "edit" /\ p.screen = i /\ p.fd = 0
  BY IdleState DEF ThreadState, Place
<1>6. threads' = [threads EXCEPT ![t] = p]
  BY <1>1
<1> HIDE DEF p
<1>7. /\ threads'[t] = p /\ \A u \in Thread \ {t} : threads'[u] = threads[u]
  BY <1>5, <1>6, OneMoves DEF Inv
<1>8. EditingAlone'
  BY <1>2, <1>4, <1>5, <1>7 DEF EditingAlone, Unlocked
<1>9. ThresholdsStayValid'
  BY <1>2, <1>4 DEF Inv, ThresholdsStayValid, process
<1> QED
  BY <1>2, <1>4, <1>5, <1>6, <1>8, <1>9, RequestSteps DEF Inv

LEMMA UpdateMembersStep == ASSUME Inv, NEW t \in Thread, UpdateMembers(t) PROVE Inv'
<1> DEFINE p == [threads[t] EXCEPT !.pc = "collect"]
           i == threads[t].screen
<1>1. /\ running /\ threads[t].pc = "edit"
      /\ UNCHANGED <<files, process, config_error>>
      /\ memory' = [memory EXCEPT !.screens[i].members = "new"]
      /\ threads' = [threads EXCEPT ![t] = p] /\ doubt' = doubt
  BY DEF UpdateMembers, At, Goto, Become
<1>2. i \in Identifier /\ memory \in Layout /\ memory.screens[i] \in Screen
  BY <1>1 DEF Inv, Typed, EditingAlone
<1>3. memory' \in Layout /\ memory'.thresholds = memory.thresholds
  BY <1>1, <1>2, FieldChanged
<1>4. p \in ThreadState /\ p.pc = "collect" /\ p.fd = 0
  BY <1>1, GoesOn DEF Inv, Descriptors, Place
<1> HIDE DEF p
<1>5. \A u \in Thread \ {t} : threads[u].pc # "edit"
  BY <1>1 DEF Inv, EditingAlone
<1>6. EditingAlone'
  BY <1>1, <1>4, <1>5, EditingStays
<1>7. ThresholdsStayValid'
  BY <1>1, <1>3 DEF Inv, ThresholdsStayValid, process
<1> QED
  BY <1>1, <1>3, <1>4, <1>6, <1>7, RequestSteps DEF Inv

LEMMA UpdateEscapesStep == ASSUME Inv, NEW t \in Thread, UpdateEscapes(t) PROVE Inv'
<1>1. /\ running /\ threads[t].pc = "edit" /\ memory' = memory
      /\ UNCHANGED <<files, process, config_error>>
      /\ threads' = [threads EXCEPT ![t] = Idle] /\ doubt' = doubt \cup {"abandoned"}
  BY DEF UpdateEscapes, At, Become
<1>2. memory' \in Layout
  BY <1>1 DEF Inv, Typed
<1>3. EditingAlone'
  BY <1>1, IdleState, EditingStays DEF Inv, EditingAlone
<1>4. ThresholdsStayValid'
  BY <1>1 DEF Inv, ThresholdsStayValid, process
<1>5. "abandoned" \in doubt'
  BY <1>1
<1> QED
  BY <1>1, <1>2, <1>3, <1>4, <1>5, IdleState, RequestSteps DEF Inv

LEMMA SetThresholdsStep == ASSUME Inv, NEW t \in Thread, set_thresholds(t) PROVE Inv'
<1>1. PICK c \in Threshold :
        threads' = [threads EXCEPT ![t] = [Idle EXCEPT !.pc = "validate", !.candidate = c]]
  BY DEF set_thresholds, Become
<1> DEFINE p == [Idle EXCEPT !.pc = "validate", !.candidate = c]
<1>2. /\ running /\ threads[t].pc = "idle" /\ memory' = memory /\ doubt' = doubt
      /\ UNCHANGED <<files, process, config_error>>
  BY DEF set_thresholds, Request, At
<1>3. memory' \in Layout
  BY <1>2 DEF Inv, Typed
<1>4. p \in ThreadState /\ p.pc = "validate" /\ p.fd = 0
  BY IdleState DEF ThreadState, Place
<1>5. threads' = [threads EXCEPT ![t] = p]
  BY <1>1
<1> HIDE DEF p
<1>6. EditingAlone'
  BY <1>2, <1>4, <1>5, EditingStays DEF Inv, EditingAlone
<1>7. ThresholdsStayValid'
  BY <1>2 DEF Inv, ThresholdsStayValid, process
<1> QED
  BY <1>2, <1>3, <1>4, <1>5, <1>6, <1>7, RequestSteps DEF Inv

LEMMA StoreThresholdsStep == ASSUME Inv, NEW t \in Thread, StoreThresholds(t) PROVE Inv'
<1> DEFINE p == [threads[t] EXCEPT !.pc = "collect"]
<1>1. /\ running /\ threads[t].pc = "validate" /\ doubt' = doubt
      /\ UNCHANGED <<files, process, config_error>>
  BY DEF StoreThresholds, At
<1>2. CASE /\ validate(threads[t].candidate)
           /\ memory' = [memory EXCEPT !.thresholds = Stored(@, threads[t].candidate)]
           /\ threads' = [threads EXCEPT ![t] = p]
  <2>1. threads[t].candidate \in Threshold
    BY DEF Inv, Typed, ThreadState
  <2>2. /\ memory' \in Layout /\ memory'.thresholds = threads[t].candidate
        /\ memory'.screens = memory.screens
    BY <1>2, <2>1 DEF Inv, Typed, Layout, Stored
  <2>3. p \in ThreadState /\ p.pc = "collect" /\ p.fd = 0
    BY <1>1, GoesOn DEF Inv, Descriptors, Place
  <2> HIDE DEF p
  <2>4. EditingAlone'
    BY <1>2, <2>2, <2>3, EditingStays DEF Inv, EditingAlone
  <2>5. ThresholdsStayValid'
    BY <1>2, <2>2 DEF ThresholdsStayValid
  <2> QED
    BY <1>1, <1>2, <2>2, <2>3, <2>4, <2>5, RequestSteps DEF Inv
<1>3. CASE threads' = [threads EXCEPT ![t] = Idle] /\ memory' = memory
  <2>1. memory' \in Layout
    BY <1>3 DEF Inv, Typed
  <2>2. EditingAlone'
    BY <1>1, <1>3, IdleState, EditingStays DEF Inv, EditingAlone
  <2>3. ThresholdsStayValid'
    BY <1>1, <1>3 DEF Inv, ThresholdsStayValid, process
  <2> QED
    BY <1>1, <1>3, <2>1, <2>2, <2>3, IdleState, RequestSteps DEF Inv
<1> QED
  BY <1>2, <1>3 DEF StoreThresholds, Goto, Become

-----------------------------------------------------------------------------
(* The save                                                                  *)

\* A save leaves the memory alone, and nobody begins to change a screen.
LEMMA SaveSteps ==
    ASSUME Inv, running, Unchanged, aside' = aside,
           threads' \in [Thread -> ThreadState],
           \A u \in Thread : threads'[u].pc = "edit" =>
               threads[u].pc = "edit" /\ threads'[u].screen = threads[u].screen
    PROVE  /\ Stopped' /\ EditingAlone' /\ ThresholdsStayValid' /\ EditsAreKept'
           /\ UNCHANGED <<running, memory, started_with, edited, aside>>
<1>1. UNCHANGED <<running, memory, started_with, edited, aside>>
  BY DEF Unchanged, process
<1>2. Stopped'
  BY <1>1 DEF Stopped
<1>3. EditingAlone'
  BY <1>1 DEF Inv, EditingAlone
<1>4. ThresholdsStayValid'
  BY <1>1 DEF Inv, ThresholdsStayValid
<1>5. EditsAreKept'
  BY <1>1 DEF Inv, EditsAreKept
<1> QED
  BY <1>1, <1>2, <1>3, <1>4, <1>5

\* The one that saves is neither of those who change a screen.
LEMMA SaverMoves ==
    ASSUME Inv, running, NEW t \in Thread, NEW p \in ThreadState, p.pc # "edit",
           threads' = [threads EXCEPT ![t] = p], Unchanged, aside' = aside
    PROVE  /\ Stopped' /\ EditingAlone' /\ ThresholdsStayValid' /\ EditsAreKept'
           /\ UNCHANGED <<running, memory, started_with, edited, aside>>
           /\ threads' \in [Thread -> ThreadState] /\ threads'[t] = p
           /\ \A u \in Thread \ {t} : threads'[u] = threads[u]
<1>1. /\ threads' \in [Thread -> ThreadState] /\ threads'[t] = p
      /\ \A u \in Thread \ {t} : threads'[u] = threads[u]
  BY OneMoves DEF Inv
<1> QED
  BY <1>1, SaveSteps

\* Beside a save nobody else takes itself to be alone.
LEMMA OthersAreNotSolo ==
    ASSUME Inv, NEW t \in Thread, Saving(t)
    PROVE  /\ \A u \in Thread \ {t} : Saving(u) => ~threads[u].solo
           /\ ~threads[t].solo => "overlap" \in doubt
BY DEF Inv, SoloIsAlone

\* A save that goes on with what it collected.
LEMMA SaveGoesOn ==
    ASSUME Inv, running, NEW t \in Thread, NEW p \in ThreadState, Saving(t),
           threads' = [threads EXCEPT ![t] = p], Unchanged,
           UNCHANGED <<dest, aside, config_error, doubt>>,
           p.pc \in {"open", "write", "replace"}, p.solo = threads[t].solo,
           threads[t].snapshot = memory => p.snapshot = memory,
           temp' \in Inode \cup {0}, inodes' \in [Inode -> File],
           dest = temp' => dest = 0, p.fd # 0 <=> p.pc = "write",
           p.solo /\ p.pc = "write" => temp' = p.fd /\ inodes'[temp'] = Text("empty"),
           p.solo /\ p.pc = "replace" =>
               temp' # 0 /\ inodes'[temp'] = json(p.snapshot),
           "overlap" \notin doubt /\ dest # 0 => inodes'[dest] = inodes[dest]
    PROVE  Inv'
<1>1. /\ Stopped' /\ EditingAlone' /\ ThresholdsStayValid' /\ EditsAreKept'
      /\ UNCHANGED <<running, memory, started_with, edited, aside>>
      /\ threads' \in [Thread -> ThreadState] /\ threads'[t] = p
      /\ \A u \in Thread \ {t} : threads'[u] = threads[u]
  BY SaverMoves
<1>2. Saving(t)' /\ \A u \in Thread : Saving(u)' <=> Saving(u)
  BY <1>1 DEF Saving
<1>3. Typed'
  BY <1>1 DEF Inv, Typed
<1>4. Descriptors'
  BY <1>1 DEF Inv, Descriptors
<1>5. SoloIsAlone'
  BY <1>1, <1>2 DEF Inv, SoloIsAlone
<1>6. SoloFiles'
  <2>1. \A u \in Thread \ {t} : Saving(u) => ~threads[u].solo
    BY OthersAreNotSolo
  <2> QED
    BY <1>1, <2>1 DEF SoloFiles, Saving
<1>7. Collected' <=> Collected
  BY <1>1 DEF Collected, Saving
<1>8. SoloSnapshots'
  <2>1. \A u \in Thread : Saving(u) /\ threads[u].solo /\ threads[u].snapshot = memory
                            => threads'[u].snapshot = memory
    BY <1>1
  <2>2. \A u \in Thread : threads'[u].solo <=> threads[u].solo
    BY <1>1
  <2> QED
    BY <1>1, <1>2, <1>7, <2>1, <2>2 DEF Inv, SoloSnapshots
<1>9. SoloSavesAreWhole'
  <2>1. "overlap" \notin doubt => Disk' = Disk
    BY DEF Disk
  <2> QED
    BY <2>1 DEF Inv, SoloSavesAreWhole
<1>10. BehindOnlyWhileSaving'
  BY <1>2 DEF BehindOnlyWhileSaving
<1>11. FailuresAreShown'
  BY DEF Inv, FailuresAreShown
<1> QED
  BY <1>1, <1>3, <1>4, <1>5, <1>6, <1>8, <1>9, <1>10, <1>11 DEF Inv

LEMMA SerialiseStep == ASSUME Inv, NEW t \in Thread, Serialise(t) PROVE Inv'
<1> DEFINE collected == threads[t].snapshot.screens
           seen == [i \in Identifier |->
                IF collected[i] = None \/ memory.screens[i] = None
                THEN collected[i] ELSE memory.screens[i]]
           p == [threads[t] EXCEPT !.pc = "open", !.snapshot.screens = seen]
<1>1. /\ running /\ threads[t].pc = "serialise" /\ threads' = [threads EXCEPT ![t] = p]
      /\ UNCHANGED <<files, config_error, doubt>> /\ Unchanged
  BY DEF Serialise, At, Become
<1>2. /\ threads[t] \in ThreadState /\ threads[t].snapshot \in Layout
      /\ memory \in Layout /\ threads[t].fd = 0
  BY <1>1 DEF Inv, Typed, ThreadState, Descriptors
<1>3. seen \in [Identifier -> Screen \cup {None}]
  BY <1>2 DEF Layout
<1>4. threads[t].snapshot = memory => seen = memory.screens
  BY <1>2 DEF Layout
<1> HIDE DEF seen
<1>5. /\ p \in ThreadState /\ p.pc = "open" /\ p.fd = 0 /\ p.solo = threads[t].solo
      /\ p.snapshot = [threads[t].snapshot EXCEPT !.screens = seen]
  BY <1>2, <1>3 DEF ThreadState, Layout, Place
<1>6. threads[t].snapshot = memory => p.snapshot = memory
  BY <1>2, <1>4, <1>5 DEF Layout
<1> HIDE DEF p
<1>7. UNCHANGED <<inodes, dest, temp, aside, config_error, doubt>>
  BY <1>1 DEF files
<1>8. Saving(t)
  BY <1>1 DEF Saving
<1>9. temp' \in Inode \cup {0} /\ inodes' \in [Inode -> File] /\ (dest = temp' => dest = 0)
  BY <1>7 DEF Inv, Typed, Descriptors
<1> QED
  BY <1>1, <1>5, <1>6, <1>7, <1>8, <1>9, SaveGoesOn

LEMMA OpenTempStep == ASSUME Inv, NEW t \in Thread, OpenTemp(t) PROVE Inv'
<1> DEFINE p == [threads[t] EXCEPT !.pc = "write", !.fd = Temporary]
<1>1. /\ running /\ threads[t].pc = "open" /\ threads' = [threads EXCEPT ![t] = p]
      /\ temp' = Temporary /\ inodes' = [inodes EXCEPT ![Temporary] = Text("empty")]
      /\ UNCHANGED <<dest, aside, config_error, doubt>> /\ Unchanged
  BY DEF OpenTemp, At, Become
<1>2. threads[t] \in ThreadState /\ inodes \in [Inode -> File]
  BY DEF Inv, Typed
<1>3. Temporary \in Inode /\ Temporary # dest /\ Temporary # 0
  <2>1. FreeInode \in Inode /\ FreeInode # dest
    BY FreeInodeIsFree DEF Inv
  <2>2. temp # 0 => temp \in Inode /\ temp # dest
    BY DEF Inv, Typed, Descriptors
  <2>3. 0 \notin Inode
    BY DEF Inode
  <2> QED
    BY <2>1, <2>2, <2>3 DEF Temporary
<1>4. /\ p \in ThreadState /\ p.pc = "write" /\ p.fd = Temporary
      /\ p.solo = threads[t].solo /\ p.snapshot = threads[t].snapshot
  BY <1>2, <1>3 DEF ThreadState, Place
<1> HIDE DEF p
<1>5. /\ inodes' \in [Inode -> File] /\ inodes'[Temporary] = Text("empty")
      /\ \A i \in Inode \ {Temporary} : inodes'[i] = inodes[i]
  BY <1>1, <1>2, <1>3, Contents DEF HalfWritten
<1>6. dest # 0 => inodes'[dest] = inodes[dest]
  BY <1>3, <1>5 DEF Inv, Typed
<1>7. Saving(t)
  BY <1>1 DEF Saving
<1> QED
  BY <1>1, <1>3, <1>4, <1>5, <1>6, <1>7, SaveGoesOn

LEMMA WriteStep == ASSUME Inv, NEW t \in Thread, Write(t) PROVE Inv'
<1> DEFINE p == [threads[t] EXCEPT !.pc = "replace", !.fd = 0]
           fd == threads[t].fd
<1>1. /\ running /\ threads[t].pc = "write" /\ threads' = [threads EXCEPT ![t] = p]
      /\ UNCHANGED <<dest, temp, aside, config_error, doubt>> /\ Unchanged
  BY DEF Write, At, Become
<1>2. PICK text \in Written(t) : inodes' = [inodes EXCEPT ![fd] = text]
  BY DEF Write
<1>3. /\ threads[t] \in ThreadState /\ inodes \in [Inode -> File]
      /\ threads[t].snapshot \in Layout /\ fd \in Inode
  BY <1>1 DEF Inv, Typed, Descriptors, ThreadState
<1>4. /\ p \in ThreadState /\ p.pc = "replace" /\ p.fd = 0
      /\ p.solo = threads[t].solo /\ p.snapshot = threads[t].snapshot
  BY <1>3 DEF ThreadState, Place
<1>5. text \in File
  BY <1>3, Contents DEF Written, HalfWritten
<1>6. /\ inodes' \in [Inode -> File] /\ inodes'[fd] = text
      /\ \A i \in Inode \ {fd} : inodes'[i] = inodes[i]
  BY <1>2, <1>3, <1>5
<1>7. Saving(t)
  BY <1>1 DEF Saving
<1>8. ASSUME p.solo
      PROVE  temp # 0 /\ temp = fd /\ inodes'[temp] = json(p.snapshot)
  <2>1. temp = fd /\ inodes[fd] = Text("empty")
    BY <1>1, <1>4, <1>8 DEF Inv, SoloFiles
  <2>2. text = json(threads[t].snapshot)
    BY <1>2, <2>1 DEF Written
  <2> QED
    BY <1>1, <1>4, <1>6, <2>1, <2>2 DEF Inv, Descriptors
<1>9. ASSUME "overlap" \notin doubt, dest # 0 PROVE inodes'[dest] = inodes[dest]
  <2>1. p.solo
    BY <1>4, <1>7, <1>9, OthersAreNotSolo DEF Inv, Typed, ThreadState
  <2>2. dest # fd /\ dest \in Inode
    BY <1>8, <1>9, <2>1 DEF Inv, Typed, Descriptors
  <2> QED
    BY <1>6, <2>2
<1>10. temp' \in Inode \cup {0} /\ (dest = temp' => dest = 0) /\ temp' = temp
  BY <1>1 DEF Inv, Typed, Descriptors
<1> HIDE DEF p
<1> QED
  BY <1>1, <1>4, <1>6, <1>7, <1>8, <1>9, <1>10, SaveGoesOn

LEMMA ToConfigStep == ASSUME Inv, NEW t \in Thread, to_config(t) PROVE Inv'
<1> DEFINE others == {u \in Thread \ {t} : Saving(u)}
<1>1. /\ running /\ threads[t].pc = "collect"
      /\ UNCHANGED <<files, config_error>> /\ Unchanged
      /\ threads' = [u \in Thread |->
           IF u = t THEN [threads[t] EXCEPT !.pc = "serialise", !.snapshot = memory,
                                            !.solo = others = {}]
           ELSE [threads[u] EXCEPT !.solo = @ /\ u \notin others]]
      /\ doubt' = IF others = {} THEN doubt ELSE doubt \cup {"overlap"}
  BY DEF to_config, At
<1> HIDE DEF others
<1>2. UNCHANGED <<inodes, dest, temp, aside, config_error>> /\ Disk' = Disk
  BY <1>1 DEF files, Disk
<1>3. /\ threads'[t] \in ThreadState /\ threads'[t].pc = "serialise"
      /\ threads'[t].snapshot = memory /\ (threads'[t].solo <=> others = {})
      /\ threads'[t].fd = threads[t].fd
  <2>1. threads[t] \in ThreadState /\ memory \in Layout
    BY DEF Inv, Typed
  <2>2. threads'[t] = [threads[t] EXCEPT !.pc = "serialise", !.snapshot = memory,
                                         !.solo = others = {}]
    BY <1>1
  <2> QED
    BY <2>1, <2>2 DEF ThreadState, Place
<1>4. ASSUME NEW u \in Thread \ {t}
      PROVE  /\ threads'[u] \in ThreadState /\ threads'[u].pc = threads[u].pc
             /\ threads'[u].fd = threads[u].fd /\ threads'[u].screen = threads[u].screen
             /\ (threads'[u].solo <=> threads[u].solo /\ u \notin others)
  <2>1. threads[u] \in ThreadState
    BY DEF Inv, Typed
  <2>2. threads'[u] = [threads[u] EXCEPT !.solo = @ /\ u \notin others]
    BY <1>1
  <2> QED
    BY <2>1, <2>2 DEF ThreadState
<1>5. threads' \in [Thread -> ThreadState]
  <2>1. \A u \in Thread : threads'[u] \in ThreadState
    BY <1>3, <1>4
  <2> QED
    BY <1>1, <2>1
<1>6. /\ Stopped' /\ EditingAlone' /\ ThresholdsStayValid' /\ EditsAreKept'
      /\ UNCHANGED <<running, memory, started_with, edited, aside>>
  BY <1>1, <1>2, <1>3, <1>4, <1>5, SaveSteps
<1>7. Typed'
  <2>1. doubt' \subseteq Reason
    <3>1. doubt \subseteq Reason
      BY DEF Inv, Typed
    <3> QED
      BY <1>1, <3>1 DEF Reason
  <2>2. Typed
    BY DEF Inv
  <2> QED
    BY <1>2, <1>5, <1>6, <2>1, <2>2 DEF Typed
<1>8. Descriptors'
  <2>1. \A u \in Thread : threads'[u].fd = threads[u].fd
    BY <1>3, <1>4
  <2>2. \A u \in Thread : threads'[u].pc = "write" <=> threads[u].pc = "write"
    BY <1>1, <1>3, <1>4
  <2> QED
    BY <1>2, <2>1, <2>2 DEF Inv, Descriptors
<1>9. Saving(t)' /\ \A u \in Thread \ {t} : Saving(u)' <=> u \in others
  BY <1>3, <1>4 DEF Saving, others
<1>10. SoloIsAlone'
  BY <1>1, <1>3, <1>4, <1>9 DEF SoloIsAlone
<1>11. SoloFiles'
  BY <1>3, <1>4, <1>9 DEF SoloFiles, Saving
<1>12. SoloSnapshots'
  BY <1>3, <1>4, <1>6, <1>9 DEF SoloSnapshots
<1>13. SoloSavesAreWhole'
  BY <1>1, <1>2 DEF Inv, SoloSavesAreWhole
<1>14. BehindOnlyWhileSaving'
  BY <1>9 DEF BehindOnlyWhileSaving
<1>15. FailuresAreShown'
  <2>1. doubt' \cap {"failed", "unmoved"} = doubt \cap {"failed", "unmoved"}
    BY <1>1
  <2> QED
    BY <1>2, <2>1 DEF Inv, FailuresAreShown
<1> QED
  BY <1>6, <1>7, <1>8, <1>10, <1>11, <1>12, <1>13, <1>14, <1>15 DEF Inv

\* The end of a save, good or bad, leaves the saves beside it as they were.
LEMMA SaveEnds ==
    ASSUME Inv, running, NEW t \in Thread, Saving(t), Unchanged, aside' = aside,
           threads' = [threads EXCEPT ![t] = Idle],
           inodes' \in [Inode -> File],
           dest' \in Inode \cup {0}, temp' \in Inode \cup {0}, dest' = temp' => dest' = 0,
           config_error' \in BOOLEAN, doubt' \subseteq Reason,
           threads[t].solo \/ doubt \subseteq doubt'
    PROVE  /\ Typed' /\ Descriptors' /\ Stopped' /\ EditingAlone' /\ SoloIsAlone'
           /\ SoloFiles' /\ SoloSnapshots' /\ ThresholdsStayValid' /\ EditsAreKept'
           /\ UNCHANGED <<running, memory>>
           /\ Collected' => \A u \in Thread : threads[u].pc \notin {"edit", "collect"}
<1>1. /\ Stopped' /\ EditingAlone' /\ ThresholdsStayValid' /\ EditsAreKept'
      /\ UNCHANGED <<running, memory, started_with, edited, aside>>
      /\ threads' \in [Thread -> ThreadState] /\ threads'[t] = Idle
      /\ \A u \in Thread \ {t} : threads'[u] = threads[u]
  BY SaverMoves, IdleState
<1>2. ~Saving(t)' /\ \A u \in Thread \ {t} : Saving(u)' <=> Saving(u)
  BY <1>1, IdleState DEF Saving
<1>3. \A u \in Thread \ {t} : Saving(u) => ~threads[u].solo
  BY OthersAreNotSolo
<1>4. Typed'
  BY <1>1 DEF Inv, Typed
<1>5. Descriptors'
  BY <1>1, IdleState DEF Inv, Descriptors
<1>6. SoloIsAlone'
  <2>1. ASSUME NEW u \in Thread, Saving(u)' PROVE ~threads'[u].solo /\ "overlap" \in doubt'
    <3>1. u # t /\ Saving(u) /\ ~threads[u].solo /\ threads'[u] = threads[u]
      BY <1>1, <1>2, <1>3, <2>1
    <3>2. "overlap" \in doubt /\ ~threads[t].solo
      BY <3>1 DEF Inv, SoloIsAlone
    <3> QED
      BY <3>1, <3>2
  <2> QED
    BY <2>1 DEF SoloIsAlone
<1>7. SoloFiles'
  BY <1>1, <1>2, <1>3, IdleState DEF SoloFiles, Saving
<1>8. SoloSnapshots'
  BY <1>1, <1>2, <1>3 DEF SoloSnapshots
<1>9. Collected' => \A u \in Thread : threads[u].pc \notin {"edit", "collect"}
  BY <1>1 DEF Collected, Saving
<1> QED
  BY <1>1, <1>4, <1>5, <1>6, <1>7, <1>8, <1>9

LEMMA SaveFailsStep == ASSUME Inv, NEW t \in Thread, SaveFails(t) PROVE Inv'
<1> DEFINE fd == threads[t].fd
<1>1. /\ running /\ Saving(t) /\ threads' = [threads EXCEPT ![t] = Idle]
      /\ config_error' = TRUE /\ doubt' = doubt \cup {"failed"}
      /\ UNCHANGED <<dest, temp, aside>> /\ Unchanged
  BY DEF SaveFails, At, Become, Saving, Surfaced
<1>2. \/ inodes' = inodes
      \/ threads[t].pc = "write" /\ inodes' = [inodes EXCEPT ![fd] = Text("partial")]
  BY DEF SaveFails, At
<1>3. Text("partial") \in File /\ inodes \in [Inode -> File]
  BY Contents DEF Inv, Typed, HalfWritten
<1>4. /\ inodes' \in [Inode -> File]
      /\ \A i \in Inode : inodes'[i] # inodes[i] => i = fd /\ threads[t].pc = "write"
  BY <1>2, <1>3
<1>5. /\ Typed' /\ Descriptors' /\ Stopped' /\ EditingAlone' /\ SoloIsAlone'
      /\ SoloFiles' /\ SoloSnapshots' /\ ThresholdsStayValid' /\ EditsAreKept'
  <2>1. /\ dest' \in Inode \cup {0} /\ temp' \in Inode \cup {0} /\ (dest' = temp' => dest' = 0)
        /\ config_error' \in BOOLEAN /\ doubt' \subseteq Reason /\ doubt \subseteq doubt'
    BY <1>1 DEF Inv, Typed, Descriptors, Reason
  <2> QED
    BY <1>1, <1>4, <2>1, SaveEnds
<1>6. SoloSavesAreWhole'
  <2>1. ASSUME "overlap" \notin doubt PROVE Disk' = Disk
    <3>1. threads[t].solo
      BY <1>1, <2>1, OthersAreNotSolo DEF Inv, Typed, ThreadState
    <3>2. threads[t].pc = "write" /\ dest # 0 => dest # fd
      BY <3>1 DEF Inv, SoloFiles, Descriptors
    <3>3. dest # 0 => inodes'[dest] = inodes[dest]
      BY <1>4, <3>2 DEF Inv, Typed
    <3> QED
      BY <1>1, <3>3 DEF Disk
  <2> QED
    BY <1>1, <2>1 DEF Inv, SoloSavesAreWhole
<1>7. BehindOnlyWhileSaving' /\ FailuresAreShown'
  BY <1>1 DEF BehindOnlyWhileSaving, FailuresAreShown
<1> QED
  BY <1>5, <1>6, <1>7 DEF Inv

\* What is named or open is kept, and what is not is empty.
LEMMA SweptFiles ==
    ASSUME NEW contents \in [Inode -> File], NEW used
    PROVE  /\ Swept(contents, used) \in [Inode -> File]
           /\ \A i \in Inode : i \in used => Swept(contents, used)[i] = contents[i]
BY Contents DEF Swept, HalfWritten

LEMMA ReplaceStep == ASSUME Inv, NEW t \in Thread, Replace(t) PROVE Inv'
<1>1. /\ running /\ threads[t].pc = "replace" /\ Saving(t) /\ temp # 0
      /\ threads' = [threads EXCEPT ![t] = Idle]
      /\ dest' = temp /\ temp' = 0 /\ inodes' = Swept(inodes, Open \cup {temp})
      /\ doubt' = IF threads[t].solo THEN doubt \cap {"abandoned"} ELSE doubt
      /\ UNCHANGED <<aside, config_error>> /\ Unchanged
  BY DEF Replace, At, Become, Saving
<1>2. temp \in Inode /\ 0 \notin Inode
  BY <1>1 DEF Inv, Typed, Inode
<1>3. inodes' \in [Inode -> File] /\ inodes'[temp] = inodes[temp]
  BY <1>1, <1>2, SweptFiles DEF Inv, Typed
<1>4. Disk' = inodes[temp]
  BY <1>1, <1>3 DEF Disk
<1>5. /\ Typed' /\ Descriptors' /\ Stopped' /\ EditingAlone' /\ SoloIsAlone'
      /\ SoloFiles' /\ SoloSnapshots' /\ ThresholdsStayValid' /\ EditsAreKept'
      /\ UNCHANGED <<running, memory>>
      /\ Collected' => \A u \in Thread : threads[u].pc \notin {"edit", "collect"}
  <2>1. /\ dest' \in Inode \cup {0} /\ temp' \in Inode \cup {0} /\ (dest' = temp' => dest' = 0)
        /\ config_error' \in BOOLEAN /\ doubt' \subseteq Reason
        /\ threads[t].solo \/ doubt \subseteq doubt'
    BY <1>1, <1>2 DEF Inv, Typed
  <2> QED
    BY <1>1, <1>3, <2>1, SaveEnds
<1>6. FailuresAreShown'
  BY <1>1 DEF Inv, FailuresAreShown
<1>7. CASE threads[t].solo
  <2>1. Disk' = json(threads[t].snapshot) /\ threads[t].snapshot \in Layout
    BY <1>1, <1>4, <1>7 DEF Inv, SoloFiles, Typed, ThreadState
  <2>2. SoloSavesAreWhole'
    BY <2>1, Contents DEF SoloSavesAreWhole
  <2>3. ASSUME doubt' = {}, Collected' PROVE Fresh'
    <3>1. Collected /\ "abandoned" \notin doubt
      BY <1>1, <1>5, <1>7, <2>3 DEF Collected
    <3>2. threads[t].snapshot = memory
      BY <1>1, <1>7, <3>1 DEF Inv, SoloSnapshots
    <3> QED
      BY <1>5, <2>1, <3>2 DEF Fresh
  <2>4. BehindOnlyWhileSaving'
    BY <2>3 DEF BehindOnlyWhileSaving
  <2> QED
    BY <1>5, <1>6, <2>2, <2>4 DEF Inv
<1>8. CASE ~threads[t].solo
  <2>1. "overlap" \in doubt'
    BY <1>1, <1>8, OthersAreNotSolo
  <2>2. SoloSavesAreWhole' /\ BehindOnlyWhileSaving'
    BY <2>1 DEF SoloSavesAreWhole, BehindOnlyWhileSaving
  <2> QED
    BY <1>5, <1>6, <2>2 DEF Inv
<1> QED
  BY <1>7, <1>8

-----------------------------------------------------------------------------
(* Starting, crashing, and the operator                                      *)

\* What the file is after a start that left it in its place, or moved it.
LEMMA RestoredDisk ==
    ASSUME Inv, inodes' = Swept(inodes, {dest'}), dest' \in {dest, 0}
    PROVE  /\ inodes' \in [Inode -> File]
           /\ dest' = dest => Disk' = Disk
           /\ dest' = 0 => Disk' = Text("missing")
<1>1. inodes \in [Inode -> File] /\ dest \in Inode \cup {0}
  BY DEF Inv, Typed
<1>2. /\ inodes' \in [Inode -> File]
      /\ \A i \in Inode : i \in {dest'} => inodes'[i] = inodes[i]
  BY <1>1, SweptFiles
<1>3. dest' = dest => Disk' = Disk
  BY <1>1, <1>2 DEF Disk
<1> QED
  BY <1>2, <1>3 DEF Disk

\* A start begins with what it restored, and with nobody at work.
LEMMA StartSteps ==
    ASSUME Inv, ~running, NEW layout \in Layout, Restore(layout),
           dest' \in {dest, 0}, config_error' \in BOOLEAN, aside' \subseteq File,
           edited' \in ByHand \cup {Text("missing")},
           edited' \in ByHand => edited'.kind = "json" \/ edited' \in aside',
           \/ /\ doubt' = {} /\ Disk' \notin HalfWritten
              /\ \/ Disk' = json(layout)
                 \/ layout = Default /\ Disk' = Text("missing")
           \/ doubt' = {"unmoved"} /\ config_error'
    PROVE  Inv'
<1>1. /\ running' = TRUE /\ memory' = layout /\ started_with' = layout.thresholds
      /\ UNCHANGED <<threads, temp>> /\ inodes' = Swept(inodes, {dest'})
  BY DEF Restore
<1>2. threads \in [Thread -> ThreadState] /\ \A t \in Thread : threads[t] = Idle
  BY DEF Inv, Stopped, Typed
<1>3. \A t \in Thread : threads'[t].pc = "idle" /\ threads'[t].fd = 0
  BY <1>1, <1>2, IdleState
<1>4. /\ inodes' \in [Inode -> File] /\ dest' \in Inode \cup {0}
      /\ layout.thresholds \in Threshold /\ doubt' \subseteq Reason
  BY <1>1, RestoredDisk DEF Inv, Typed, Layout, Reason
<1>5. Typed'
  BY <1>1, <1>2, <1>4 DEF Inv, Typed
<1>6. Descriptors'
  BY <1>1, <1>3 DEF Inv, Descriptors
<1>7. Stopped'
  BY <1>1 DEF Stopped
<1>8. EditingAlone' /\ SoloFiles'
  BY <1>3 DEF EditingAlone, SoloFiles
<1>9. SoloIsAlone' /\ SoloSnapshots'
  BY <1>3 DEF SoloIsAlone, SoloSnapshots, Saving
<1>10. SoloSavesAreWhole'
  BY DEF SoloSavesAreWhole
<1>11. BehindOnlyWhileSaving'
  BY <1>1 DEF BehindOnlyWhileSaving, Fresh
<1>12. FailuresAreShown'
  BY DEF FailuresAreShown
<1>13. ThresholdsStayValid'
  BY <1>1 DEF ThresholdsStayValid
<1>14. EditsAreKept'
  BY DEF EditsAreKept
<1> QED
  BY <1>5, <1>6, <1>7, <1>8, <1>9, <1>10, <1>11, <1>12, <1>13, <1>14 DEF Inv

\* While the program is down what the operator wrote is the file, unless it was
\* read or moved before.
LEMMA StartEmptyStep == ASSUME Inv, StartEmpty PROVE Inv'
<1>1. /\ ~running /\ Disk.kind = "missing" /\ config_error' = FALSE /\ doubt' = {}
      /\ UNCHANGED <<dest, aside, edited>> /\ Restore(Default)
      /\ inodes' = Swept(inodes, {dest'})
  BY DEF StartEmpty, Absent, Restore
<1>2. Disk = Text("missing")
  BY <1>1, Contents DEF Inv, Typed, Disk
<1>3. Disk' = Text("missing")
  BY <1>1, <1>2, RestoredDisk
<1>4. edited' \in ByHand => edited'.kind = "json" \/ edited' \in aside'
  BY <1>1, <1>2, Contents DEF Inv, EditsAreKept
<1>5. /\ aside' \subseteq File /\ edited' \in ByHand \cup {Text("missing")}
      /\ dest' \in {dest, 0} /\ config_error' \in BOOLEAN
  BY <1>1 DEF Inv, Typed
<1> QED
  BY <1>1, <1>3, <1>4, <1>5, Contents, StartSteps

LEMMA StartSavedStep == ASSUME Inv, StartSaved PROVE Inv'
<1>1. /\ ~running /\ Disk.kind = "json" /\ config_error' = FALSE /\ doubt' = {}
      /\ UNCHANGED <<dest, aside, edited>> /\ Restore(Disk.layout)
      /\ inodes' = Swept(inodes, {dest'})
  BY DEF StartSaved, Restore
<1>2. Disk \in File
  BY <1>1, Contents DEF Inv, Typed, Disk
<1>3. Disk.layout \in Layout /\ Disk = json(Disk.layout) /\ Disk \notin HalfWritten
  BY <1>1, <1>2, Contents
<1>4. Disk' = Disk
  BY <1>1, RestoredDisk
<1>5. edited' \in ByHand => edited'.kind = "json" \/ edited' \in aside'
  BY <1>1 DEF Inv, EditsAreKept
<1>6. /\ aside' \subseteq File /\ edited' \in ByHand \cup {Text("missing")}
      /\ dest' \in {dest, 0} /\ config_error' \in BOOLEAN
  BY <1>1 DEF Inv, Typed
<1> DEFINE l == Disk.layout
<1>7. Disk' = json(l) /\ l \in Layout /\ Restore(l) /\ Disk' \notin HalfWritten
  BY <1>1, <1>3, <1>4
<1> HIDE DEF l
<1> QED
  BY <1>1, <1>5, <1>6, <1>7, StartSteps

LEMMA StartSalvagingStep == ASSUME Inv, StartSalvaging PROVE Inv'
<1>1. /\ ~running /\ Disk.kind \in Unparseable /\ config_error' = TRUE
      /\ Restore(Default) /\ inodes' = Swept(inodes, {dest'})
  BY DEF StartSalvaging, Restore
<1>2. Disk \in File
  BY <1>1, Contents DEF Inv, Typed, Disk, Unparseable
<1>3. CASE /\ aside' = aside \cup {Disk} /\ dest' = 0 /\ doubt' = {} /\ edited' = edited
  <2>1. Disk' = Text("missing")
    BY <1>1, <1>3, RestoredDisk
  <2>2. edited' \in ByHand => edited'.kind = "json" \/ edited' \in aside'
    BY <1>3 DEF Inv, EditsAreKept
  <2>3. /\ aside' \subseteq File /\ edited' \in ByHand \cup {Text("missing")}
        /\ dest' \in {dest, 0}
    BY <1>2, <1>3 DEF Inv, Typed
  <2> QED
    BY <1>1, <1>3, <2>1, <2>2, <2>3, Contents, StartSteps
<1>4. CASE /\ doubt' = {"unmoved"} /\ edited' = Text("missing")
           /\ UNCHANGED <<dest, aside>>
  <2>1. /\ edited' \notin ByHand /\ aside' \subseteq File /\ dest' \in {dest, 0}
        /\ edited' \in ByHand \cup {Text("missing")}
    BY <1>4, Contents DEF Inv, Typed
  <2> QED
    BY <1>1, <1>4, <2>1, Contents, StartSteps
<1> QED
  BY <1>3, <1>4 DEF StartSalvaging

LEMMA CrashStep == ASSUME Inv, Crash PROVE Inv'
<1> DEFINE Writer == {u \in Thread : At(u, "write")}
<1>1. PICK cut \in SUBSET {threads[t].fd : t \in Writer} :
        inodes' = Swept([i \in Inode |-> IF i \in cut THEN Text("partial") ELSE inodes[i]],
                        {dest})
  BY DEF Crash
<1>2. /\ running /\ running' = FALSE /\ temp' = 0
      /\ threads' = [t \in Thread |-> Idle]
      /\ UNCHANGED <<memory, started_with, dest, aside, config_error, edited, doubt>>
  BY DEF Crash
<1> DEFINE left == [i \in Inode |-> IF i \in cut THEN Text("partial") ELSE inodes[i]]
<1>3. left \in [Inode -> File] /\ \A i \in Inode \ cut : left[i] = inodes[i]
  BY Contents DEF Inv, Typed, HalfWritten
<1>4. inodes' = Swept(left, {dest})
  BY <1>1
<1> HIDE DEF left
<1>5. /\ inodes' \in [Inode -> File]
      /\ dest \in Inode /\ dest \notin cut => inodes'[dest] = inodes[dest]
  BY <1>3, <1>4, SweptFiles
<1>6. \A t \in Thread : threads'[t] = Idle
  BY <1>2
<1>7. Typed'
  BY <1>2, <1>5, IdleState DEF Inv, Typed
<1>8. Descriptors' /\ Stopped'
  BY <1>2, <1>6, IdleState DEF Descriptors, Stopped
<1>9. EditingAlone' /\ SoloFiles'
  BY <1>6, IdleState DEF EditingAlone, SoloFiles
<1>10. SoloIsAlone' /\ SoloSnapshots'
  BY <1>6, IdleState DEF SoloIsAlone, SoloSnapshots, Saving
<1>11. SoloSavesAreWhole'
  <2>1. ASSUME "overlap" \notin doubt PROVE Disk' = Disk
    <3>1. ASSUME NEW t \in Thread, threads[t].pc = "write" PROVE threads[t].fd = temp
      <4>1. threads[t].solo
        BY <2>1, <3>1, OthersAreNotSolo DEF Saving
      <4> QED
        BY <3>1, <4>1 DEF Inv, SoloFiles
    <3>2. dest # 0 => dest \notin cut
      BY <3>1 DEF Inv, Descriptors, At
    <3> QED
      BY <1>2, <1>5, <3>2 DEF Inv, Typed, Disk
  <2> QED
    BY <1>2, <2>1 DEF Inv, SoloSavesAreWhole
<1>12. BehindOnlyWhileSaving'
  BY <1>2 DEF BehindOnlyWhileSaving
<1>13. FailuresAreShown' /\ ThresholdsStayValid'
  BY <1>2 DEF Inv, FailuresAreShown, ThresholdsStayValid
<1>14. EditsAreKept'
  BY <1>2 DEF Inv, EditsAreKept
<1> QED
  BY <1>7, <1>8, <1>9, <1>10, <1>11, <1>12, <1>13, <1>14 DEF Inv

LEMMA EditByHandStep == ASSUME Inv, EditByHand PROVE Inv'
<1>1. PICK file \in ByHand :
        /\ inodes' = Swept([inodes EXCEPT ![FreeInode] = file], {FreeInode})
        /\ edited' = file
  BY DEF EditByHand
<1>2. /\ ~running /\ dest' = FreeInode
      /\ UNCHANGED <<running, memory, started_with, threads, temp, aside,
                     config_error, doubt>>
  BY DEF EditByHand
<1>3. FreeInode \in Inode /\ FreeInode # temp /\ FreeInode # 0
  BY FreeInodeIsFree DEF Inv, Inode
<1> DEFINE with == [inodes EXCEPT ![FreeInode] = file]
<1>4. with \in [Inode -> File] /\ with[FreeInode] = file
  BY <1>3, Contents DEF Inv, Typed
<1>5. inodes' = Swept(with, {FreeInode})
  BY <1>1
<1> HIDE DEF with
<1>6. inodes' \in [Inode -> File] /\ inodes'[FreeInode] = file
  BY <1>3, <1>4, <1>5, SweptFiles
<1>7. Disk' = file
  BY <1>2, <1>3, <1>6 DEF Disk
<1>8. \A t \in Thread : threads'[t] = Idle
  BY <1>2 DEF Inv, Stopped
<1>9. Typed'
  BY <1>1, <1>2, <1>3, <1>6 DEF Inv, Typed
<1>10. Descriptors' /\ Stopped'
  BY <1>2, <1>3, <1>8, IdleState DEF Descriptors, Stopped
<1>11. EditingAlone' /\ SoloFiles'
  BY <1>8, IdleState DEF EditingAlone, SoloFiles
<1>12. SoloIsAlone' /\ SoloSnapshots'
  BY <1>8, IdleState DEF SoloIsAlone, SoloSnapshots, Saving
<1>13. SoloSavesAreWhole'
  BY <1>7, Contents DEF SoloSavesAreWhole
<1>14. BehindOnlyWhileSaving'
  BY <1>2 DEF BehindOnlyWhileSaving
<1>15. FailuresAreShown' /\ ThresholdsStayValid'
  BY <1>2 DEF Inv, FailuresAreShown, ThresholdsStayValid
<1>16. EditsAreKept'
  BY <1>1, <1>2, <1>7 DEF EditsAreKept
<1> QED
  BY <1>9, <1>10, <1>11, <1>12, <1>13, <1>14, <1>15, <1>16 DEF Inv

-----------------------------------------------------------------------------
(* The theorems                                                              *)

LEMMA InvInit == Init => Inv
<1> SUFFICES ASSUME Init PROVE Inv
  OBVIOUS
<1>1. /\ ~running /\ running \in BOOLEAN /\ memory = Default
      /\ started_with = Default.thresholds
      /\ threads = [t \in Thread |-> Idle] /\ inodes = [i \in Inode |-> Text("empty")]
      /\ dest = 0 /\ temp = 0 /\ aside = {} /\ config_error = FALSE
      /\ edited = Text("missing") /\ doubt = {}
  BY DEF Init
<1>2. \A t \in Thread : threads[t] = Idle
  BY <1>1
<1>3. Disk = Text("missing")
  BY <1>1 DEF Disk
<1>4. Typed
  BY <1>1, IdleState, Contents DEF Typed, HalfWritten
<1>5. Descriptors /\ Stopped
  BY <1>1, <1>2, IdleState DEF Descriptors, Stopped
<1>6. EditingAlone /\ SoloFiles
  BY <1>2, IdleState DEF EditingAlone, SoloFiles
<1>7. SoloIsAlone /\ SoloSnapshots
  BY <1>2, IdleState DEF SoloIsAlone, SoloSnapshots, Saving
<1>8. SoloSavesAreWhole
  BY <1>3, Contents DEF SoloSavesAreWhole
<1>9. BehindOnlyWhileSaving /\ FailuresAreShown /\ ThresholdsStayValid
  BY <1>1 DEF BehindOnlyWhileSaving, FailuresAreShown, ThresholdsStayValid
<1>10. EditsAreKept
  BY <1>1, Contents DEF EditsAreKept
<1> QED
  BY <1>4, <1>5, <1>6, <1>7, <1>8, <1>9, <1>10 DEF Inv

LEMMA InvNext == Inv /\ [Next]_vars => Inv'
<1> SUFFICES ASSUME Inv, [Next]_vars PROVE Inv'
  OBVIOUS
<1>1. CASE Start
  BY <1>1, StartEmptyStep, StartSavedStep, StartSalvagingStep DEF Start
<1>2. CASE Crash
  BY <1>2, CrashStep
<1>3. CASE EditByHand
  BY <1>3, EditByHandStep
<1>4. ASSUME NEW t \in Thread,
             \/ add_screen(t) \/ remove_screen(t) \/ update_screen(t)
             \/ UpdateMembers(t) \/ UpdateEscapes(t)
             \/ set_thresholds(t) \/ StoreThresholds(t)
      PROVE  Inv'
  BY <1>4, AddScreenStep, RemoveScreenStep, UpdateScreenStep, UpdateMembersStep,
     UpdateEscapesStep, SetThresholdsStep, StoreThresholdsStep
<1>5. ASSUME NEW t \in Thread, Save(t) PROVE Inv'
  BY <1>5, ToConfigStep, SerialiseStep, OpenTempStep, WriteStep, ReplaceStep,
     SaveFailsStep DEF Save
<1>6. CASE UNCHANGED vars
  BY <1>6 DEF vars, Inv, Typed, Descriptors, Stopped, EditingAlone, SoloIsAlone,
     SoloFiles, SoloSnapshots, SoloSavesAreWhole, BehindOnlyWhileSaving,
     FailuresAreShown, ThresholdsStayValid, EditsAreKept, Saving, Collected, Fresh, Disk
<1> QED
  BY <1>1, <1>2, <1>3, <1>4, <1>5, <1>6 DEF Next

\* The inductive invariant, whatever the threads do and however they cross.
THEOREM InvHolds == Spec => []Inv
BY InvInit, InvNext, PTL DEF Spec

\* The file's names are of files of their own, and one is open only to write.
THEOREM TypeCorrect == Spec => []TypeOK
<1>1. Inv => TypeOK
  BY DEF Inv, Typed, Descriptors, ThreadState, TypeOK, Open
<1> QED
  BY <1>1, InvHolds, PTL

\* Whichever changes of the thresholds cross, what is in force was valid as a
\* whole when it was stored, or came from the file (state.py:608).
THEOREM ThresholdsAreValid == Spec => []ThresholdsStayValid
<1>1. Inv => ThresholdsStayValid
  BY DEF Inv
<1> QED
  BY <1>1, InvHolds, PTL

\* A file an operator wrote is read, left alone or moved aside; it is never
\* overwritten unread, unless it cannot be moved (config.py:12).
THEOREM HandEditsAreKept == Spec => []HandEditsSurvive
<1>1. Inv => HandEditsSurvive
  BY DEF Inv, EditsAreKept, HandEditsSurvive
<1> QED
  BY <1>1, InvHolds, PTL

\* Saves that do not overlap leave no half-written file, wherever the program is
\* killed and whatever write fails (config.py:8).
THEOREM SoloSavesAreAtomic == Spec => []SoloSavesAreWhole
<1>1. Inv => SoloSavesAreWhole
  BY DEF Inv
<1> QED
  BY <1>1, InvHolds, PTL

\* When nothing is going on the file holds what the memory holds, or the
\* operator is shown why not (state.py:409).
THEOREM NothingIsLostQuietly == Spec => []QuietMeansSaved
<1>1. ASSUME Inv, Quiet, doubt \cap {"overlap", "abandoned"} = {}
      PROVE  IF doubt = {} THEN Fresh ELSE config_error
  <2>1. Collected /\ \A t \in Thread : ~Saving(t)
    BY <1>1 DEF Quiet, Collected, Saving
  <2>2. doubt = {} => Fresh
    BY <1>1, <2>1 DEF Inv, Quiet, BehindOnlyWhileSaving
  <2>3. doubt # {} => doubt \cap {"failed", "unmoved"} # {}
    BY <1>1 DEF Inv, Typed, Reason
  <2> QED
    BY <1>1, <2>2, <2>3 DEF Inv, FailuresAreShown
<1>2. Inv => QuietMeansSaved
  BY <1>1 DEF QuietMeansSaved, Fresh
<1> QED
  BY <1>2, InvHolds, PTL

\* Two saves overlap only where two threads save.
Alone == \A t, u \in Thread : t = u

LEMMA OverlapTakesTwo ==
    ASSUME Alone, "overlap" \notin doubt, [Next]_vars
    PROVE  "overlap" \notin doubt'
<1>1. CASE Start
  BY <1>1 DEF Start, StartEmpty, StartSaved, StartSalvaging
<1>2. CASE Crash \/ EditByHand
  BY <1>2 DEF Crash, EditByHand
<1>3. ASSUME NEW t \in Thread,
             \/ add_screen(t) \/ remove_screen(t) \/ update_screen(t)
             \/ UpdateMembers(t) \/ UpdateEscapes(t)
             \/ set_thresholds(t) \/ StoreThresholds(t)
      PROVE  "overlap" \notin doubt'
  <2>1. doubt' = doubt \/ doubt' = doubt \cup {"abandoned"}
    <3>1. CASE add_screen(t)
      BY <3>1 DEF add_screen
    <3>2. CASE remove_screen(t)
      BY <3>2 DEF remove_screen
    <3>3. CASE update_screen(t)
      BY <3>3 DEF update_screen
    <3>4. CASE UpdateMembers(t) \/ UpdateEscapes(t)
      BY <3>4 DEF UpdateMembers, UpdateEscapes
    <3>5. CASE set_thresholds(t) \/ StoreThresholds(t)
      BY <3>5 DEF set_thresholds, StoreThresholds
    <3> QED
      BY <1>3, <3>1, <3>2, <3>3, <3>4, <3>5
  <2> QED
    BY <2>1
<1>4. ASSUME NEW t \in Thread, Save(t) PROVE "overlap" \notin doubt'
  <2>1. CASE to_config(t)
    <3>1. {u \in Thread \ {t} : Saving(u)} = {}
      BY DEF Alone
    <3> QED
      BY <2>1, <3>1 DEF to_config
  <2>2. CASE Serialise(t)
    BY <2>2 DEF Serialise
  <2>3. CASE OpenTemp(t) \/ Write(t)
    BY <2>3 DEF OpenTemp, Write
  <2>4. CASE Replace(t)
    BY <2>4 DEF Replace
  <2>5. CASE SaveFails(t)
    BY <2>5 DEF SaveFails
  <2> QED
    BY <1>4, <2>1, <2>2, <2>3, <2>4, <2>5 DEF Save
<1>5. CASE UNCHANGED vars
  BY <1>5 DEF vars
<1> QED
  BY <1>1, <1>2, <1>3, <1>4, <1>5 DEF Next

\* What config.py:8 says of every save is so when one thread serves: a killed
\* program leaves the old file or the new one, never half of either, unless it
\* found such a file and could not move it.
THEOREM OneThreadNeverHalfWrites ==
    Spec => [](Alone /\ "unmoved" \notin doubt => NeverHalfWritten)
<1>1. Init => (Alone => "overlap" \notin doubt)
  BY DEF Init
<1>2. (Alone => "overlap" \notin doubt) /\ [Next]_vars => (Alone => "overlap" \notin doubt)'
  BY OverlapTakesTwo DEF Alone
<1>3. Inv /\ (Alone => "overlap" \notin doubt)
        => (Alone /\ "unmoved" \notin doubt => NeverHalfWritten)
  BY DEF Inv, SoloSavesAreWhole, NeverHalfWritten
<1> QED
  BY <1>1, <1>2, <1>3, InvHolds, PTL DEF Spec
=============================================================================
