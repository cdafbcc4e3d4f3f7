------------------------------ MODULE LogWatcher ------------------------------
(***************************************************************************)
(* The combat-log tailer (daemon/combatlog): InotifyWatcher drains the     *)
(* kernel's event queue, LogWatcher turns each event into a read of the    *)
(* file by name from a remembered offset.  The game writes, and files may  *)
(* be deleted, created again and moved, at any time, also between two      *)
(* events of one batch.                                                    *)
(*                                                                         *)
(* A file is a sequence of pieces; a line is two pieces, the second of     *)
(* which ends in the newline, so a read may end inside a line.  LogLine    *)
(* rejects what does not begin with a timestamp, that is with the first    *)
(* piece of a line, and accepts whatever follows one.                      *)
(*                                                                         *)
(* The kernel is external: an event like the last one still queued is      *)
(* merged with it, and a full queue drops events (InotifyWatcher skips the *)
(* overflow event, which has no name).                                     *)
(***************************************************************************)
EXTENDS Naturals, Sequences, SequencesExt

CONSTANTS
  Names,             \* the names of combat logs in the directory
  Existing,          \* the logs there before the daemon starts
  None,              \* no such file, no entry of m_files
  QueueMax,          \* bound: the kernel's event queue
  MaxPieces,         \* bound: pieces the game writes
  MaxReplaced        \* bound: deletions and moves

ASSUME WatcherAssumption ==
  /\ Existing \subseteq Names
  /\ QueueMax \in Nat \ {0}
  /\ MaxPieces \in Nat
  /\ MaxReplaced \in Nat

VARIABLES
  disk,              \* the files' contents
  queue,             \* events in the kernel
  phase,             \* of start(): "off", "watching", "scanning", then "running"
  unscanned,         \* the names scanExistingFiles has still to size
  batch,             \* events read by onReadyRead and not yet handled
  files,             \* m_files
  overflowed,        \* history: the kernel has dropped an event
  delivered,         \* history: lines emitted, by the name they were read under
  base,              \* history: where tailing began in each file
  moved,             \* history: the logs renamed and not written to since
  pieces,            \* how much the game has written
  replaced           \* how many files were deleted or moved

daemonVars == <<phase, unscanned, batch, files, delivered>>
vars == <<disk, queue, overflowed, daemonVars, base, moved, pieces, replaced>>

\* A piece of a line, and what m_files keeps of a file.
Parts == [line : 1 .. MaxPieces, ends : BOOLEAN]
Entry == [offset : 0 .. MaxPieces, partial : Seq(Parts)]

ASSUME NoneAssumption == None \notin Seq(Parts) \cup Entry

Kinds == {"created", "deleted", "modified"}
Events == [name : Names, kind : Kinds]
Event(name, kind) == [name |-> name, kind |-> kind]

\* The piece a write adds to a file: the rest of its last line, or a new one.
NextPiece(content, line) ==
  IF content = <<>> \/ Last(content).ends
  THEN [line |-> line, ends |-> FALSE]
  ELSE [line |-> Last(content).line, ends |-> TRUE]

-----------------------------------------------------------------------------
(* The kernel's queue. *)

Merged(q, event) == q # <<>> /\ Last(q) = event

Queued(k, event) ==
  IF Merged(k.queue, event) THEN k
  ELSE IF Len(k.queue) >= QueueMax THEN [k EXCEPT !.overflowed = TRUE]
  ELSE [k EXCEPT !.queue = Append(@, event)]

Kernel == [queue |-> queue, overflowed |-> overflowed]

\* Nothing is queued before the watch is in place.
Notify(k) ==
  IF phase = "off" THEN UNCHANGED <<queue, overflowed>>
  ELSE queue' = k.queue /\ overflowed' = k.overflowed

-----------------------------------------------------------------------------
(* Splitting what was read into lines. *)

\* LogLine::isValid.
IsValid(line) == ~line[1].ends

\* The line as the tracker gets it: its first piece's, whole or garbled.
Received(line) == [line |-> line[1].line, whole |-> Len(line) = 2 /\ line[1].line = line[2].line]

Emitted(lines, line) == IF IsValid(line) THEN Append(lines, Received(line)) ELSE lines

\* Mutant of Split: the newline's piece is kept for the next line too.
SplitKeepsNewline(parts, piece) ==
  IF piece.ends
  THEN [lines |-> Emitted(parts.lines, Append(parts.partial, piece)), partial |-> <<piece>>]
  ELSE [parts EXCEPT !.partial = Append(@, piece)]

\* combined.split('\n'), and the valid lines of it: one more piece for the
\* line being put together.  What is left is the unfinished part.
Split(parts, piece) ==
  IF piece.ends
  THEN [lines |-> Emitted(parts.lines, Append(parts.partial, piece)), partial |-> <<>>]
  ELSE [parts EXCEPT !.partial = Append(@, piece)]

NewEntry == [offset |-> 0, partial |-> <<>>]

\* Mutant of Truncated: a file that did not grow counts as truncated.
TruncatedWhenIdle(file, size) == IF size <= file.offset THEN NewEntry ELSE file

\* A file that shrank is read from the start.
Truncated(file, size) == IF size < file.offset THEN NewEntry ELSE file

-----------------------------------------------------------------------------
Init ==
  /\ disk \in [Names -> {None, <<>>}]
  /\ \A n \in Names : disk[n] = None <=> n \notin Existing
  /\ queue = <<>>
  /\ overflowed = FALSE
  /\ phase = "off"
  /\ unscanned = {}
  /\ batch = <<>>
  /\ files = [n \in Names |-> None]
  /\ delivered = [n \in Names |-> <<>>]
  /\ base = [n \in Names |-> 0]
  /\ moved = {}
  /\ pieces = 0
  /\ replaced = 0

-----------------------------------------------------------------------------
(* The daemon. *)

\* start(): the watch first, so that nothing falls between it and the scan.
StartWatch ==
  /\ phase = "off"
  /\ phase' = "watching"
  /\ UNCHANGED <<disk, queue, overflowed, unscanned, batch, files, delivered, base, moved, pieces, replaced>>

\* scanExistingFiles lists the directory, and then takes each file's size.
ListFiles ==
  /\ phase = "watching"
  /\ phase' = "scanning"
  /\ unscanned' = {n \in Names : disk[n] # None}
  /\ UNCHANGED <<disk, queue, overflowed, batch, files, delivered, base, moved, pieces, replaced>>

\* What a file holds by now is not read, unless its creation is still to be
\* handled.
ScanFile(n) ==
  /\ phase = "scanning"
  /\ n \in unscanned
  /\ LET size == IF disk[n] = None THEN 0 ELSE Len(disk[n])
     IN  /\ files' = [files EXCEPT ![n] = [offset |-> size, partial |-> <<>>]]
         /\ base' = IF Event(n, "created") \in Range(queue)
                    THEN base ELSE [base EXCEPT ![n] = size]
  /\ unscanned' = unscanned \ {n}
  /\ UNCHANGED <<disk, queue, overflowed, phase, batch, delivered, moved, pieces, replaced>>

\* Where tailing begins in a log is settled.
Tailed(n) == phase \notin {"off", "watching"} /\ n \notin unscanned

StartDone ==
  /\ phase = "scanning"
  /\ unscanned = {}
  /\ phase' = "running"
  /\ UNCHANGED <<disk, queue, overflowed, unscanned, batch, files, delivered, base, moved, pieces, replaced>>

\* Mutant of OnReadyRead: of the events read at once only the first is handled.
OnReadyReadFirst ==
  /\ phase = "running"
  /\ batch = <<>>
  /\ queue # <<>>
  /\ batch' = <<Head(queue)>>
  /\ queue' = <<>>
  /\ UNCHANGED <<disk, overflowed, phase, unscanned, files, delivered, base, moved, pieces, replaced>>

\* InotifyWatcher::onReadyRead drains the queue into one batch.
OnReadyRead ==
  /\ phase = "running"
  /\ batch = <<>>
  /\ queue # <<>>
  /\ batch' = queue
  /\ queue' = <<>>
  /\ UNCHANGED <<disk, overflowed, phase, unscanned, files, delivered, base, moved, pieces, replaced>>

\* Mutant of Forget: the entry of the old file is kept.
ForgetNothing(n) == UNCHANGED <<files, delivered>>

\* handleCreateOrMove and handleDelete.
Forget(n) ==
  /\ files' = [files EXCEPT ![n] = None]
  /\ UNCHANGED delivered

\* handleModify and readNewData.
ReadNewData(n) ==
  LET known == IF files[n] = None THEN NewEntry ELSE files[n] IN
  IF disk[n] = None
  THEN /\ files' = [files EXCEPT ![n] = known]
       /\ UNCHANGED delivered
  ELSE LET size == Len(disk[n])
           file == Truncated(known, size)
           chunk == SubSeq(disk[n], file.offset + 1, size)
           parts == FoldLeft(Split, [lines |-> <<>>, partial |-> file.partial], chunk)
       IN  /\ files' = [files EXCEPT ![n] = [offset |-> size, partial |-> parts.partial]]
           /\ delivered' = [delivered EXCEPT ![n] = @ \o parts.lines]

\* One turn of the loop in LogWatcher::onInotifyEvents.
HandleEvent ==
  /\ batch # <<>>
  /\ LET event == Head(batch) IN
       IF event.kind = "modified" THEN ReadNewData(event.name) ELSE Forget(event.name)
  /\ batch' = Tail(batch)
  /\ UNCHANGED <<disk, queue, overflowed, phase, unscanned, base, moved, pieces, replaced>>

-----------------------------------------------------------------------------
(* The game and its user. *)

CreateLog(n) ==
  /\ disk[n] = None
  /\ pieces < MaxPieces   \* a log is created to be written to
  /\ disk' = [disk EXCEPT ![n] = <<>>]
  /\ base' = [base EXCEPT ![n] = 0]
  /\ moved' = moved \ {n}
  /\ Notify(Queued(Kernel, Event(n, "created")))
  /\ UNCHANGED <<daemonVars, pieces, replaced>>

\* A write may end inside a line; the next one to the file goes on from there.
WritePiece(n) ==
  /\ disk[n] # None
  /\ pieces < MaxPieces
  /\ pieces' = pieces + 1
  /\ disk' = [disk EXCEPT ![n] = Append(@, NextPiece(@, pieces + 1))]
  /\ moved' = moved \ {n}
  /\ Notify(Queued(Kernel, Event(n, "modified")))
  /\ UNCHANGED <<daemonVars, base, replaced>>

DeleteLog(n) ==
  /\ disk[n] # None
  /\ replaced < MaxReplaced
  /\ replaced' = replaced + 1
  /\ disk' = [disk EXCEPT ![n] = None]
  /\ Notify(Queued(Kernel, Event(n, "deleted")))
  /\ UNCHANGED <<daemonVars, base, moved, pieces>>

\* A log is archived under a name that is a combat log's too.  Where tailing
\* began in it stays where it was.
MoveLog(n, m) ==
  /\ disk[n] # None
  /\ disk[m] = None
  /\ replaced < MaxReplaced
  /\ replaced' = replaced + 1
  /\ disk' = [disk EXCEPT ![n] = None, ![m] = disk[n]]
  /\ base' = [base EXCEPT ![m] = IF Tailed(n) \/ Event(n, "created") \in Range(queue)
                                 THEN base[n] ELSE Len(disk[n])]
  /\ moved' = moved \cup {m}
  /\ Notify(Queued(Queued(Kernel, Event(n, "deleted")), Event(m, "created")))
  /\ UNCHANGED <<daemonVars, pieces>>

Daemon ==
  StartWatch \/ ListFiles \/ (\E n \in Names : ScanFile(n)) \/ StartDone
  \/ OnReadyRead \/ HandleEvent

Game ==
  \E n \in Names :
    CreateLog(n) \/ WritePiece(n) \/ DeleteLog(n) \/ \E m \in Names : MoveLog(n, m)

Next == Daemon \/ Game

\* The event loop runs; nothing makes the game write.
Spec == Init /\ [][Next]_vars /\ WF_vars(Daemon)
-----------------------------------------------------------------------------
(* Properties. *)

\* Every member keeps its C++ type, and an unfinished line has no newline.
TypeOK ==
  /\ phase \in {"off", "watching", "scanning", "running"}
  /\ unscanned \subseteq Names
  /\ {queue, batch} \subseteq Seq(Events)
  /\ \A n \in Names :
       files[n] # None =>
         files[n] \in Entry /\ \A i \in DOMAIN files[n].partial : ~files[n].partial[i].ends

\* Lines from + 1 to to of a file.
Lines(content, from, to) ==
  [i \in 1 .. to - from |-> [line |-> content[2 * (from + i)].line, whole |-> TRUE]]

\* The complete lines file n holds past where tailing began, but for a line
\* begun before.
Owed(n) ==
  IF disk[n] = None \/ ~Tailed(n) THEN <<>>
  ELSE Lines(disk[n], (base[n] + 1) \div 2, Len(disk[n]) \div 2)

Tailing == INSTANCE LogTail WITH log <- [n \in Names |-> Owed(n)], seen <- delivered

\* Until a log is deleted or moved, each line written after the scan reaches
\* the tracker once, whole, in order: however writes cut lines, reads cut
\* writes, and files appear while start() runs, and even if the kernel's queue
\* overflows.  Every step up to then is one of LogTail's.
LogsAreTailed == Tailing!Init /\ [][replaced' = 0 => Tailing!Next]_(Tailing!vars)

\* And all of them do, once the game pauses, if the kernel dropped no event.
TailCatchesUp ==
  <>[](overflowed \/ replaced > 0 \/ \A n \in Names : delivered[n] = Owed(n))

\* Every event is handled, and the kernel dropped none.
Idle == phase = "running" /\ queue = <<>> /\ batch = <<>> /\ ~overflowed

\* However logs were deleted, created again and renamed, when every event is
\* handled no complete line of a log is missing: no stale event and no stale
\* offset makes the watcher skip one.  A log that was renamed counts from the
\* next write to it, which makes the watcher read all of it under its new name.
NothingMissedWhenIdle ==
  Idle => \A n \in Names \ moved : Range(Owed(n)) \subseteq Range(delivered[n])

\* "clear stale files so we read the new one" (handleCreateOrMove): a log that
\* was moved is read, so its lines were received under one name or another.
MovedLogsAreRead ==
  Idle => \A n \in moved : Range(Owed(n)) \subseteq UNION {Range(delivered[k]) : k \in Names}

\* "clear stale files so we read the new one": the lines of a log that was
\* created again are received once (LogWatcherTest::resetsOffsetOnFileRecreation).
NoLineTwice == \A n \in Names : IsInjective(delivered[n])
=============================================================================
