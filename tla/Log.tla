-------------------------------- MODULE Log --------------------------------
(***************************************************************************)
(* The rolling event log (telemetry/src/sink.rs) and the reader that walks *)
(* it backwards while it rolls (tail.rs).  One sink appends, every event   *)
(* under its mutex; the set is a file per path, the current one at path 0, *)
(* and a roll moves each file one path up, step by step, with no lock that *)
(* a reader takes.                                                         *)
(*                                                                         *)
(* A line is an event with its place in the stream, or bytes that do not   *)
(* decode; the width of a line is one unit.  A file is read in one step:   *)
(* it is opened and measured through one handle, and bytes below that      *)
(* length never change.  Inode numbers are not used again.  Filters by     *)
(* level, target and run only skip and are left out.  fused, unended, born *)
(* and the reader's from, life and rolls are history.                     *)
(***************************************************************************)
EXTENDS Naturals, FiniteSetsExt, SequencesExt

CONSTANTS
  Keep,        \* keep_files; one file only, which has no history, is left out
  MaxLines,    \* max_file_bytes, in lines
  Times,       \* readings of the clock, which may step back
  Queries,     \* what a reader asks: a limit, and a time or 0 for none
  MaxEvents,   \* bound: events emitted
  MaxFiles,    \* bound: files created
  MaxKills,    \* bound: deaths of the process
  MaxFaults    \* bound: filesystem calls of sink and reader that fail

ASSUME LogAssumption ==
  /\ Keep \in Nat /\ Keep > 1
  /\ MaxLines \in Nat \ {0}
  /\ Times \subseteq Nat \ {0}
  /\ Queries \subseteq [limit : Nat \ {0}, since : {0} \cup Times]
  /\ {MaxEvents, MaxFiles, MaxKills, MaxFaults} \subseteq Nat

VARIABLES
  names,       \* what is at each path: an inode, or NoFile
  files,       \* what each inode holds
  sink,        \* the open sink
  reader,      \* one query under way
  emitted, kills, faults,
  fused,       \* events answered Written that no reader can decode
  unended,     \* newlines that should have ended a fragment and failed
  born         \* the first event of the process that is up

log == <<names, files>>
history == <<fused, unended, born>>
vars == <<log, sink, reader, emitted, kills, faults, history>>

Paths == 0..Keep - 1
NoFile == 0
Inodes == 1..MaxFiles
Junk == [id |-> 0, seq |-> 0, at |-> 0]
Line(event, good, ended) == [event |-> event, good |-> good, ended |-> ended]

Off == [pc |-> "off", ino |-> NoFile, size |-> 0, seq |-> 0, last |-> 0,
        broken |-> FALSE, n |-> 0, event |-> Junk]
Idle == [pc |-> "idle", query |-> CHOOSE q \in Queries : TRUE, k |-> 0, read |-> {}, out |-> << >>,
         first |-> TRUE, finished |-> FALSE, reached |-> TRUE, errors |-> FALSE, capped |-> FALSE,
         from |-> 0, life |-> 0, rolls |-> 0]

Init ==
  /\ names = [k \in Paths |-> NoFile] /\ files = << >>
  /\ sink = Off /\ reader = Idle
  /\ emitted = 0 /\ kills = 0 /\ faults = 0
  /\ fused = 0 /\ unended = 0 /\ born = 1

Fails == faults < MaxFaults /\ faults' = faults + 1

-----------------------------------------------------------------------------
(* The sink                                                                *)

(* What the bytes of an append, whole or cut short, make of a file: they   *)
(* join a last line that has not ended, and such a line no longer decodes. *)
Joins(ino) == files[ino] # << >> /\ ~Last(files[ino]).ended

Appended(ino, line) ==
  IF Joins(ino) THEN [files EXCEPT ![ino] = Append(Front(@), Line(Junk, FALSE, line.ended))]
  ELSE [files EXCEPT ![ino] = Append(@, line)]

(* A newline alone ends the last line, and is nothing to a reader after a  *)
(* line that has ended.                                                    *)
Ended(ino) == IF Joins(ino) THEN [files EXCEPT ![ino][Len(files[ino])].ended = TRUE] ELSE files

(* A path of the set that is opened for appending is created when absent.  *)
AtPath(k) == IF names[k] # NoFile THEN names[k] ELSE Len(files) + 1
Openable(k) == names[k] # NoFile \/ Len(files) < MaxFiles
Opened(k) == IF names[k] # NoFile THEN files ELSE Append(files, << >>)

(* resume_seq: the last line of the current file that decodes.             *)
Resumed(lines) ==
  LET good == {i \in DOMAIN lines : lines[i].good}
  IN  IF good = {} THEN 0 ELSE lines[Max(good)].event.seq

(* Mutant: the torn tail is left as it is.                                 *)
MutOpenSink ==
  /\ sink.pc = "off" /\ Openable(0)
  /\ names' = [names EXCEPT ![0] = AtPath(0)]
  /\ files' = Opened(0)
  /\ sink' = [Off EXCEPT !.pc = "idle", !.ino = AtPath(0), !.size = Len(files'[AtPath(0)]),
                         !.seq = Resumed(files'[AtPath(0)])]
  /\ born' = emitted + 1
  /\ UNCHANGED <<reader, emitted, kills, faults, fused, unended>>

(* Sink::open and terminate_torn_tail.                                     *)
OpenSink ==
  LET ino == AtPath(0)
      lines == Opened(0)[ino]
      torn == lines # << >> /\ ~Last(lines).ended
  IN  /\ sink.pc = "off" /\ Openable(0)
      /\ names' = [names EXCEPT ![0] = ino]
      /\ sink' = [Off EXCEPT !.pc = "idle", !.ino = ino, !.size = Len(lines),
                             !.seq = Resumed(lines)]
      /\ \/ ~torn /\ files' = Opened(0) /\ UNCHANGED <<faults, unended>>
         \/ torn /\ files' = Ended(ino) /\ UNCHANGED <<faults, unended>>
         \/ torn /\ Fails /\ unended' = unended + 1 /\ UNCHANGED files
      /\ born' = emitted + 1
      /\ UNCHANGED <<reader, emitted, kills, fused>>

(* Mutant: the clock is not clamped.                                       *)
MutStamp(now) == now

(* Inner::stamp.                                                           *)
Stamp(now) == Max({now, sink.last})

(* emit_for_run, under the mutex: stamp and number the event, and roll if  *)
(* it would take the file past its bound and no roll has failed.           *)
Emit ==
  LET rolls == ~sink.broken /\ sink.size > 0 /\ sink.size + 1 > MaxLines
  IN  /\ sink.pc = "idle" /\ emitted < MaxEvents
      /\ emitted' = emitted + 1
      /\ \E now \in Times :
           sink' = [sink EXCEPT
             !.pc = IF rolls THEN "remove" ELSE "append",
             !.last = Stamp(now), !.seq = @ + 1,
             !.event = [id |-> emitted + 1, seq |-> sink.seq + 1, at |-> Stamp(now)]]
      /\ reader' = IF rolls /\ reader.pc = "walk" THEN [reader EXCEPT !.rolls = @ + 1] ELSE reader
      /\ UNCHANGED <<log, kills, faults, history>>

(* A roll that failed is not tried again by this sink.                     *)
RollFails == sink' = [sink EXCEPT !.pc = "append", !.broken = TRUE]

Rolling == sink.pc \in {"remove", "shift", "move", "reopen"}

(* One step of roll, which succeeds or ends the roll for good.             *)
RollStep(pc, next, change) ==
  /\ sink.pc = pc
  /\ \/ change /\ next /\ UNCHANGED faults
     \/ Fails /\ RollFails /\ UNCHANGED log
  /\ UNCHANGED <<reader, emitted, kills, history>>

Freed(k) == IF names[k] = NoFile THEN files ELSE [files EXCEPT ![names[k]] = << >>]

(* A rename takes away what was at the path it goes to.                    *)
Renamed(from, to) ==
  IF names[from] = NoFile THEN UNCHANGED log
  ELSE /\ names' = [names EXCEPT ![to] = names[from], ![from] = NoFile]
       /\ files' = Freed(to)

(* Mutant: the middle files stay where they are.                           *)
MutShifting == sink' = [sink EXCEPT !.pc = "move"]

Shifting ==
  sink' = [sink EXCEPT !.pc = IF Keep > 2 THEN "shift" ELSE "move", !.n = Keep - 2]

RemoveOldest ==
  RollStep("remove", Shifting,
    names' = [names EXCEPT ![Keep - 1] = NoFile] /\ files' = Freed(Keep - 1))

Shift ==
  RollStep("shift",
    sink' = [sink EXCEPT !.pc = IF sink.n = 1 THEN "move" ELSE "shift", !.n = @ - 1],
    Renamed(sink.n, sink.n + 1))

MoveCurrent == RollStep("move", sink' = [sink EXCEPT !.pc = "reopen"], Renamed(0, 1))

Reopen ==
  /\ Openable(0)
  /\ RollStep("reopen",
       sink' = [sink EXCEPT !.pc = "append", !.ino = AtPath(0), !.size = 0],
       names' = [names EXCEPT ![0] = AtPath(0)] /\ files' = Opened(0))

(* The append is answered Written, or fails over part of the line.         *)
AppendEvent ==
  /\ sink.pc = "append"
  /\ \/ /\ files' = Appended(sink.ino, Line(sink.event, TRUE, TRUE))
        /\ fused' = IF Joins(sink.ino) THEN fused + 1 ELSE fused
        /\ sink' = [sink EXCEPT !.pc = "idle", !.size = @ + 1, !.event = Junk]
        /\ UNCHANGED faults
     \/ /\ Fails
        /\ \E whole \in BOOLEAN :
             files' = Appended(sink.ino, Line(IF whole THEN sink.event ELSE Junk, whole, FALSE))
        /\ sink' = [sink EXCEPT !.pc = "end", !.event = Junk]
        /\ UNCHANGED fused
     \/ /\ Fails
        /\ sink' = [sink EXCEPT !.pc = "end", !.event = Junk]
        /\ UNCHANGED <<files, fused>>
  /\ UNCHANGED <<names, reader, emitted, kills, unended, born>>

(* The fragment is ended before the lock is let go, if that can be written.*)
EndFragment ==
  /\ sink.pc = "end"
  /\ \/ files' = Ended(sink.ino) /\ UNCHANGED <<faults, unended>>
     \/ Fails /\ unended' = unended + 1 /\ UNCHANGED files
  /\ sink' = [sink EXCEPT !.pc = "idle"]
  /\ UNCHANGED <<names, reader, emitted, kills, fused, born>>

(* The process dies, in the middle of a line perhaps.                      *)
Die ==
  /\ sink.pc # "off" /\ kills < MaxKills /\ kills' = kills + 1
  /\ \/ UNCHANGED files
     \/ /\ sink.pc = "append"
        /\ \E whole \in BOOLEAN :
             files' = Appended(sink.ino, Line(IF whole THEN sink.event ELSE Junk, whole, FALSE))
  /\ sink' = Off
  /\ UNCHANGED <<names, reader, emitted, faults, history>>

Write ==
  OpenSink \/ Emit \/ RemoveOldest \/ Shift \/ MoveCurrent \/ Reopen \/ AppendEvent \/ EndFragment

-----------------------------------------------------------------------------
(* The reader                                                              *)

Ask ==
  /\ reader.pc = "idle"
  /\ \E query \in Queries :
       reader' = [Idle EXCEPT !.pc = "walk", !.query = query, !.rolls = IF Rolling THEN 1 ELSE 0]
  /\ UNCHANGED <<log, sink, emitted, kills, faults, history>>

(* take_line: a line that is older than `since` ends the walk, and so does *)
(* the one that fills the page.                                            *)
Walked(lines, newest, cut) ==
  LET shown == {i \in DOMAIN lines : i > cut /\ ~(newest /\ i = Len(lines) /\ ~lines[i].ended)}
      old == {i \in shown : lines[i].good /\ lines[i].event.at < reader.query.since}
      wanted == {i \in shown : lines[i].good} \ old
      room == reader.query.limit - Len(reader.out)
      ends == old \cup {i \in wanted : Cardinality({j \in wanted : j >= i}) = room}
      stop == IF ends = {} THEN 0 ELSE Max(ends)
      taken == {i \in wanted : i >= stop}
  IN  [stop |-> stop,
       events |-> [n \in 1..Cardinality(taken) |->
                     lines[CHOOSE i \in taken : Cardinality({j \in taken : j >= i}) = n].event]]

(* Mutant: a file is told by its path.                                     *)
MutReadAlready(ino) == FALSE

ReadAlready(ino) == ino \in reader.read

Go(next) == reader' = [next EXCEPT !.k = @ + 1,
                                   !.pc = IF reader.k = Keep - 1 THEN "done" ELSE "walk"]

(* Mutant: a walk that is cut short still says it reached the oldest.      *)
MutReturn(next) == reader' = [next EXCEPT !.pc = "done"]

Return(next) == reader' = [next EXCEPT !.pc = "done", !.reached = FALSE]

(* Events that a path of the set leads to, each on a line of its own.      *)
HeldAt(k) ==
  IF names[k] = NoFile THEN {}
  ELSE LET lines == files[names[k]]
       IN  {lines[i].event.id : i \in {j \in DOMAIN lines : lines[j].good /\ lines[j].ended}}
Held == UNION {HeldAt(k) : k \in Paths}
Latest == IF Held = {} THEN 0 ELSE Max(Held)

(* walked, for one path: absent, empty and known files are passed over;    *)
(* once the page is full the walk only looks whether an older file holds   *)
(* anything; the scan cap or an error may end the reading of a file early. *)
Walk ==
  LET ino == names[reader.k]
      lines == IF ino = NoFile THEN << >> ELSE files[ino]
      seen == IF reader.k = 0 THEN [reader EXCEPT !.from = Latest, !.life = born] ELSE reader
      known == ino # NoFile /\ ReadAlready(ino)
      reads == [seen EXCEPT !.read = @ \cup {ino}, !.first = FALSE]
      Took(found) == [reads EXCEPT !.out = @ \o found.events]
  IN  /\ reader.pc = "walk"
      /\ \/ (lines = << >> \/ known) /\ Go(seen) /\ UNCHANGED faults
         \/ ino # NoFile /\ Fails /\ Go([seen EXCEPT !.errors = TRUE])
         \/ /\ lines # << >> /\ ~known /\ reader.finished
            /\ Return(seen) /\ UNCHANGED faults
         \/ /\ lines # << >> /\ ~known /\ ~reader.finished
            /\ LET found == Walked(lines, reader.first, 0)
               IN  CASE found.stop > 1 -> Return(Took(found))
                     [] found.stop = 1 -> Go([Took(found) EXCEPT !.finished = TRUE])
                     [] OTHER -> Go(Took(found))
            /\ UNCHANGED faults
         \/ /\ lines # << >> /\ ~known /\ ~reader.finished
            /\ \E cut \in DOMAIN lines :
                 LET found == Walked(lines, reader.first, cut)
                 IN  /\ found.stop = 0
                     /\ \/ /\ Return([Took(found) EXCEPT !.capped = TRUE]) /\ UNCHANGED faults
                        \/ Fails /\ Go([Took(found) EXCEPT !.errors = TRUE])
      /\ UNCHANGED <<log, sink, emitted, kills, history>>

Answer ==
  /\ reader.pc = "done" /\ reader' = Idle
  /\ UNCHANGED <<log, sink, emitted, kills, faults, history>>

Next == Write \/ Die \/ Ask \/ Walk \/ Answer

Spec == Init /\ [][Next]_vars

-----------------------------------------------------------------------------
At(id) == CHOOSE event \in UNION {{files[n][i].event : i \in DOMAIN files[n]} : n \in DOMAIN files} :
            event.id = id

Page == {reader.out[n].id : n \in DOMAIN reader.out}
Oldest == IF Page = {} THEN reader.from + 1 ELSE Min(Page)

(* A page never shows an event twice, however often the log rolls under    *)
(* the walk (tail.rs: a_roll_landing_mid_walk_never_returns_the_same_event *)
(* _twice): a file read under one path may be met again under the next.    *)
NoEventTwice == Cardinality(Page) = Len(reader.out)

(* With at most one roll during it, a walk that met no error gives the     *)
(* newest events in order and leaves none out between them; and when it    *)
(* says it reached the oldest, nothing older is left in the set.           *)
PageIsWhole ==
  reader.pc = "done" /\ reader.rolls <= 1 /\ ~reader.errors /\ reader.query.since = 0 =>
    /\ \A n \in 1..Len(reader.out) - 1 : reader.out[n].id > reader.out[n + 1].id
    /\ \A id \in Held : id <= reader.from /\ id >= Oldest => id \in Page
    /\ reader.reached => \A id \in Held : id >= Oldest

(* A walk for the events since an instant that was neither cut short nor   *)
(* filled gives every event of the process that ran throughout it since    *)
(* then, whatever the clock did and however often the log rolled meanwhile *)
(* (take_line ends the walk at the first older event it meets).            *)
SinceIsComplete ==
  reader.pc = "done" /\ reader.life = born /\ ~reader.errors /\ ~reader.capped
    /\ Len(reader.out) < reader.query.limit =>
    \A id \in Held : id \in born..reader.from /\ At(id).at >= reader.query.since => id \in Page

(* Events leave the set only with the file at its last path, before any    *)
(* that is newer, whichever step of a roll fails or is the last one before *)
(* a death.                                                                *)
OldestGoesFirst ==
  [][\A id \in Held \ Held' : id \in HeldAt(Keep - 1) /\ \A kept \in Held' : kept > id]_vars

(* An event answered Written is unreadable only behind a fragment whose    *)
(* newline could not be written: at most one for each such failure.        *)
WrittenIsReadable == fused <= unended
=============================================================================
