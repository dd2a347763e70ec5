---------------------------- MODULE Configuration ---------------------------
(* What the application remembers between runs: the requests of the server's *)
(* threads that change it, the save each of them makes afterwards, and the   *)
(* file they all write.  A save collects under the application's lock, reads *)
(* the screens it collected outside it, opens a temporary file whose name is *)
(* the same for every thread of a process, writes, and renames.              *)
EXTENDS Integers, FiniteSets

CONSTANTS
    Thread,         \* threads of the HTTP server
    Identifier,     \* what slugify and the suffixes of add_screen can yield
    None,
    MaxRequests,    \* bound: requests of a behaviour
    MaxCrashes,     \* bound: how often the program is killed
    MaxEdits        \* bound: how often an operator edits the file by hand

ASSUME ConfigurationAssumption ==
    /\ Identifier \subseteq Nat \ {0} /\ IsFiniteSet(Thread)
    /\ None \notin Identifier
    /\ {MaxRequests, MaxCrashes, MaxEdits} \subseteq Nat

VARIABLES
    running,        \* the process is up
    memory,         \* Application.screens and AlertEngine.thresholds
    started_with,   \* the thresholds the file held when the program started
    threads,        \* what each thread is doing
    inodes,         \* contents of the files that are named or open
    dest, temp,     \* the inodes named config.json and config.json.tmp<pid>
    aside,          \* files moved aside
    config_error,   \* the application shows an error about its config
    edited,         \* history: the file as the operator last left it
    doubt,          \* history: why the file may differ from the memory
    crashes, edits, requests
vars == <<running, memory, started_with, threads, inodes, dest, temp, aside,
          config_error, edited, doubt, crashes, edits, requests>>

\* A screen is its name and its members, each old or new; None if there is
\* none.  Two of the thresholds are enough for one to be wrong for the other.
Screen == [name : {"old", "new"}, members : {"old", "new"}]
Threshold == [clear : 1..2, warning : 2..3]
Layout == [screens : [Identifier -> Screen \cup {None}], thresholds : Threshold]
Default == [screens |-> [i \in Identifier |-> None],
            thresholds |-> [clear |-> 1, warning |-> 3]]
validate(t) == t.clear < t.warning

Text(kind) == [kind |-> kind, layout |-> Default]
json(layout) == [kind |-> "json", layout |-> layout]
HalfWritten == {Text("empty"), Text("partial")}
\* "newer": of a later version; "misshapen": JSON of some other shape.
ByHand == {Text("broken"), Text("newer"), Text("misshapen"),
           json([Default EXCEPT !.thresholds = [clear |-> 2, warning |-> 2]])}
File == HalfWritten \cup ByHand \cup [kind : {"json"}, layout : Layout]

Inode == 1..(Cardinality(Thread) + 3)
Disk == IF dest = 0 THEN Text("missing") ELSE inodes[dest]
Open == {threads[t].fd : t \in Thread} \ {0}
\* A file nobody names or holds open is gone.
Swept(contents, used) ==
    [i \in Inode |-> IF i \in used THEN contents[i] ELSE Text("empty")]
FreeInode == CHOOSE i \in Inode : i \notin Open \cup {dest, temp}

Idle == [pc |-> "idle", screen |-> None, candidate |-> Default.thresholds,
         snapshot |-> Default, fd |-> 0, solo |-> TRUE]
Saving(t) == threads[t].pc \in {"serialise", "open", "write", "replace"}
Unlocked == \A t \in Thread : threads[t].pc # "edit"
At(t, pc) == running /\ threads[t].pc = pc
Become(t, thread) == threads' = [threads EXCEPT ![t] = thread]
Goto(t, pc) == Become(t, [threads[t] EXCEPT !.pc = pc])

Init ==
    /\ running = FALSE /\ memory = Default /\ started_with = Default.thresholds
    /\ threads = [t \in Thread |-> Idle]
    /\ inodes = [i \in Inode |-> Text("empty")]
    /\ dest = 0 /\ temp = 0 /\ aside = {}
    /\ config_error = FALSE
    /\ edited = Text("missing") /\ doubt = {}
    /\ crashes = 0 /\ edits = 0 /\ requests = 0

files == <<inodes, dest, temp, aside>>
process == <<running, started_with, crashes, edits, edited>>

-----------------------------------------------------------------------------
(* Starting: load and from_config.                                           *)

Restore(layout) ==
    /\ running' = TRUE
    /\ memory' = layout /\ started_with' = layout.thresholds
    /\ inodes' = Swept(inodes, {dest'})
    /\ UNCHANGED <<threads, temp, crashes, edits, requests>>

Absent_unread(file) == file.kind \in {"missing", "newer"}
Absent(file) == file.kind = "missing"

StartEmpty ==
    /\ ~running /\ Absent(Disk)
    /\ config_error' = FALSE /\ doubt' = {}
    /\ UNCHANGED <<dest, aside, edited>>
    /\ Restore(Default)

StartSaved ==
    /\ ~running /\ Disk.kind = "json"
    /\ config_error' = FALSE /\ doubt' = {}
    /\ UNCHANGED <<dest, aside, edited>>
    /\ Restore(Disk.layout)

\* What cannot be parsed is moved aside, or left there if it cannot be moved.
\* A newer version or another shape ends the program instead.
Unparseable == {"empty", "partial", "broken"}

StartSalvaging ==
    /\ ~running /\ Disk.kind \in Unparseable
    /\ config_error' = TRUE
    /\ \/ /\ aside' = aside \cup {Disk} /\ dest' = 0
          /\ doubt' = {}
          /\ UNCHANGED edited
       \/ /\ doubt' = {"unmoved"} /\ edited' = Text("missing")
          /\ UNCHANGED <<dest, aside>>
    /\ Restore(Default)

Start == StartEmpty \/ StartSaved \/ StartSalvaging

-----------------------------------------------------------------------------
(* Requests: each changes the memory and goes on to a save.                  *)

Request(t) ==
    /\ At(t, "idle") /\ requests < MaxRequests
    /\ requests' = requests + 1
    /\ UNCHANGED <<files, process, config_error>>

Unused == {i \in Identifier : memory.screens[i] = None}

\* The first identifier that is not taken.
add_screen(t) ==
    /\ Request(t) /\ Unlocked /\ Unused # {}
    /\ LET i == CHOOSE i \in Unused : \A j \in Unused : i <= j IN
       memory' = [memory EXCEPT !.screens[i] = [name |-> "old", members |-> "old"]]
    /\ Goto(t, "collect")
    /\ UNCHANGED doubt

remove_screen(t) ==
    /\ Request(t) /\ Unlocked
    /\ \E i \in Identifier \ Unused :
        memory' = [memory EXCEPT !.screens[i] = None]
    /\ Goto(t, "collect")
    /\ UNCHANGED doubt

\* The name and then the members are changed in place, under the lock.
update_screen(t) ==
    /\ Request(t) /\ Unlocked
    /\ \E i \in Identifier \ Unused :
        /\ memory' = [memory EXCEPT !.screens[i].name = "new"]
        /\ Become(t, [Idle EXCEPT !.pc = "edit", !.screen = i])
    /\ UNCHANGED doubt

UpdateMembers(t) ==
    /\ At(t, "edit")
    /\ memory' = [memory EXCEPT !.screens[threads[t].screen].members = "new"]
    /\ Goto(t, "collect")
    /\ UNCHANGED <<files, process, config_error, doubt, requests>>

\* A member without an address: the exception leaves the name changed, unsaved.
UpdateEscapes(t) ==
    /\ At(t, "edit")
    /\ Become(t, Idle)
    /\ doubt' = doubt \cup {"abandoned"}
    /\ UNCHANGED <<memory, files, process, config_error, requests>>

\* The present thresholds are read, a changed copy is validated and stored.
set_thresholds(t) ==
    /\ Request(t)
    /\ \E c \in Threshold :
        Become(t, [Idle EXCEPT !.pc = "validate", !.candidate = c])
    /\ UNCHANGED <<memory, doubt>>

Stored_merged(old, new) ==
    [clear |-> IF new.clear # 1 THEN new.clear ELSE old.clear,
     warning |-> IF new.warning # 3 THEN new.warning ELSE old.warning]
Stored(old, new) == new

StoreThresholds(t) ==
    /\ At(t, "validate")
    /\ \/ /\ validate(threads[t].candidate)
          /\ memory' = [memory EXCEPT
                            !.thresholds = Stored(@, threads[t].candidate)]
          /\ Goto(t, "collect")
       \/ /\ ~validate(threads[t].candidate)
          /\ Become(t, Idle)
          /\ UNCHANGED memory
    /\ UNCHANGED <<files, process, config_error, doubt, requests>>

-----------------------------------------------------------------------------
(* The save: to_config, Config.save.                                         *)

Unchanged == UNCHANGED <<memory, process, requests>>

\* The lists and the thresholds, under the lock.  Saves that overlap from here
\* on have each other's temporary file.
to_config(t) ==
    LET others == {u \in Thread \ {t} : Saving(u)} IN
    /\ At(t, "collect") /\ Unlocked
    /\ threads' = [u \in Thread |->
           IF u = t THEN [threads[t] EXCEPT !.pc = "serialise", !.snapshot = memory,
                                            !.solo = others = {}]
           ELSE [threads[u] EXCEPT !.solo = @ /\ u \notin others]]
    /\ doubt' = IF others = {} THEN doubt ELSE doubt \cup {"overlap"}
    /\ UNCHANGED <<files, config_error>> /\ Unchanged

\* json.dumps reads the screens that were collected as they are now (one that
\* was removed and added again meanwhile is not told apart).
Serialise(t) ==
    LET collected == threads[t].snapshot.screens
        seen == [i \in Identifier |->
            IF collected[i] = None \/ memory.screens[i] = None
            THEN collected[i] ELSE memory.screens[i]]
    IN  /\ At(t, "serialise")
        /\ Become(t, [threads[t] EXCEPT !.pc = "open", !.snapshot.screens = seen])
        /\ UNCHANGED <<files, config_error, doubt>> /\ Unchanged

\* Opening for writing truncates the file if it is there.
Temporary_in_place == IF dest = 0 THEN FreeInode ELSE dest
Temporary == IF temp = 0 THEN FreeInode ELSE temp

OpenTemp(t) ==
    /\ At(t, "open")
    /\ temp' = Temporary
    /\ inodes' = [inodes EXCEPT ![Temporary] = Text("empty")]
    /\ Become(t, [threads[t] EXCEPT !.pc = "write", !.fd = Temporary])
    /\ UNCHANGED <<dest, aside, config_error, doubt>> /\ Unchanged

\* A shorter text over a longer one leaves the longer one's end behind it.
Written(t) ==
    IF inodes[threads[t].fd] = Text("empty")
    THEN {json(threads[t].snapshot)}
    ELSE {json(threads[t].snapshot), Text("partial")}

Write(t) ==
    /\ At(t, "write")
    /\ \E text \in Written(t) : inodes' = [inodes EXCEPT ![threads[t].fd] = text]
    /\ Become(t, [threads[t] EXCEPT !.pc = "replace", !.fd = 0])
    /\ UNCHANGED <<dest, temp, aside, config_error, doubt>> /\ Unchanged

Surfaced_not == config_error
Surfaced == TRUE

\* Any OSError on the way ends the save and is shown: the directory cannot be
\* written, the disk is full, or the file to rename is not there any more.
SaveFails(t) ==
    /\ \/ At(t, "open") /\ UNCHANGED inodes
       \/ /\ At(t, "write")
          /\ inodes' = [inodes EXCEPT ![threads[t].fd] = Text("partial")]
       \/ At(t, "replace") /\ UNCHANGED inodes
    /\ Become(t, Idle)
    /\ config_error' = Surfaced
    /\ doubt' = doubt \cup {"failed"}
    /\ UNCHANGED <<dest, temp, aside>> /\ Unchanged

Replace(t) ==
    /\ At(t, "replace") /\ temp # 0
    /\ dest' = temp /\ temp' = 0
    /\ inodes' = Swept(inodes, Open \cup {temp})
    /\ Become(t, Idle)
    /\ doubt' = IF threads[t].solo THEN doubt \cap {"abandoned"} ELSE doubt
    /\ UNCHANGED <<aside, config_error>> /\ Unchanged

Save(t) ==
    \/ to_config(t) \/ Serialise(t) \/ OpenTemp(t) \/ Write(t)
    \/ Replace(t) \/ SaveFails(t)

-----------------------------------------------------------------------------
(* The program is killed, perhaps in the middle of a write.                  *)

Crash ==
    /\ running /\ crashes < MaxCrashes
    /\ \E cut \in SUBSET {threads[t].fd : t \in {u \in Thread : At(u, "write")}} :
        inodes' = Swept([i \in Inode |-> IF i \in cut THEN Text("partial")
                                         ELSE inodes[i]], {dest})
    /\ running' = FALSE
    /\ temp' = 0    \* the next process has another id and another name for it
    /\ threads' = [t \in Thread |-> Idle]
    /\ crashes' = crashes + 1
    /\ UNCHANGED <<memory, started_with, dest, aside, config_error, edited,
                   doubt, edits, requests>>

\* An operator writes the file while the program is down.
EditByHand ==
    /\ ~running /\ edits < MaxEdits
    /\ \E file \in ByHand :
        /\ inodes' = Swept([inodes EXCEPT ![FreeInode] = file], {FreeInode})
        /\ edited' = file
    /\ dest' = FreeInode
    /\ edits' = edits + 1
    /\ UNCHANGED <<running, memory, started_with, threads, temp, aside,
                   config_error, doubt, crashes, requests>>

Next ==
    \/ Start \/ Crash \/ EditByHand
    \/ \E t \in Thread :
        \/ add_screen(t) \/ remove_screen(t) \/ update_screen(t)
        \/ UpdateMembers(t) \/ UpdateEscapes(t)
        \/ set_thresholds(t) \/ StoreThresholds(t) \/ Save(t)

Spec == Init /\ [][Next]_vars

-----------------------------------------------------------------------------
TypeOK ==
    /\ memory \in Layout
    /\ inodes \in [Inode -> File]
    /\ {dest, temp} \cup Open \subseteq Inode \cup {0}
    /\ dest = temp => dest = 0
    /\ aside \subseteq File
    /\ \A t \in Thread : threads[t].fd # 0 <=> threads[t].pc = "write"

Quiet == running /\ \A t \in Thread : threads[t].pc = "idle"

\* Saves that do not overlap never leave a half-written file under the name of
\* the config, whenever the program is killed or a write fails (config.py:8).
SoloSavesAreWhole ==
    doubt \cap {"overlap", "unmoved"} = {} => Disk \notin HalfWritten

\* When nothing is going on the file holds what the memory holds, or the
\* operator is shown why not (state.py:409).
QuietMeansSaved ==
    Quiet /\ doubt \cap {"overlap", "abandoned"} = {} =>
        IF doubt = {} THEN Disk \in {json(memory)} \cup
            (IF memory = Default THEN {Text("missing")} ELSE {})
        ELSE config_error

\* Whichever changes of the thresholds cross, what is in force was valid as a
\* whole when it was stored, or came from the file (state.py:608).
ThresholdsStayValid ==
    validate(memory.thresholds) \/ memory.thresholds = started_with

\* A file an operator wrote is read, left alone or moved aside; it is never
\* overwritten unread, unless it cannot be moved (config.py:12).
HandEditsSurvive ==
    edited \notin ByHand \/ edited.kind = "json" \/ Disk = edited
        \/ edited \in aside

\* The claim of config.py:8, for saves of any threads.
NeverHalfWritten == Disk \notin HalfWritten
=============================================================================
