# A formal model of Constellar

Constellar tails World of Warcraft's combat log and publishes what the player is
doing.  The daemon, `constellard`, recognises raid encounters and Mythic+ dungeons
in the log, exposes the current one on D-Bus and shows it as Discord rich presence.
A command-line client and a Qt Quick GUI read the D-Bus interface.

These modules model the daemon, the GUI's event log and what clients read, check them
with TLC on small instances and prove with TLAPS, for instances of any size, every safety
property that the passing runs check.

## The system

    game ── log files ──> LogWatcher ── lines ──> ActivityTracker
                                                       │ started / stopped / map / zone
                                                       v
                            ObserverService ──> GameState ──┬─> ObserverDBusAdaptor ──┐
                                                            ├─> ObjectTreePublisher ──┴─> D-Bus ──> GUI, CLI
                                                            └─> PresencePublisher ──> DiscordIpcClient ──> Discord

The daemon is one thread with one Qt event loop.  Everything between LogWatcher and
DiscordIpcClient is connected by direct signals, so a line, a timeout or a socket
event is handled to its end before the next.  What is concurrent is the world: the
game writes while the log is read, timers run against the log, and Discord and the
D-Bus clients are other processes.

| Component | State | Operations | What is hard | What makes it correct |
|---|---|---|---|---|
| **LogWatcher**, InotifyWatcher (`daemon/combatlog`) | offset and unfinished line of each log | start, onReadyRead, create / delete / modify | files change between an event and its handling; writes and reads cut lines anywhere; the kernel merges and drops events | each line once, whole, in order; nothing skipped |
| **LogLine** (`daemon/combatlog`) | while it parses: the lists that are open, the quote flag | parse, dateTime | cut and garbled lines, brackets in quotes, offsets behind UTC | a line is read as its grammar says, a cut one loses its tail only |
| **ActivityTracker** (`daemon/tracker`) | one slot per kind: active, current run, pending outcome, overrun timer | six kinds of lines, two timeouts | lines missing, repeated or in odd orders; the overrun timer against the next START; an outcome left over from an earlier run | each start is answered by one stop, as the same run, with the log's last verdict |
| **ObserverService, GameState** (`daemon/observer`, `daemon/gamestate`) | activity, location | setActivity, endActivity, setUiMap, setZone | both slots share one published activity; redundant changes are dropped | what is published is a tracked run |
| **D-Bus publishers** (`daemon/observer/dbus`) | object live, interfaces announced | PropertiesChanged, ActivityEnded, InterfacesAdded / Removed | signals of one step and their order | a client that folds the signals knows the state |
| **ActivityMetadata, ActivityProjection** | none | a run as a bag of keys, the bag as properties | keys and types written in three places | the object tells all the bag does, as the contract types it |
| **Property tree**, InterfaceRegistry (`daemon/observer/dbus`) | none | Get, GetAll, Set, Introspect, GetManagedObjects | four ways to read one object | they agree |
| **PresencePublisher** | none | updatePresence | staleness | the presence is that of the current state |
| **DiscordIpcClient** (`daemon/presence`) | socket, ready, buffer, pending activity, two timers | setActivity, clearActivity, connect, read, disconnect, timeouts | lost and refused connections, torn frames, rate limit | the newest activity is written once, on a ready connection, in the end |
| **GUI** (`src/gui`) | event log, last polled activity, whether the daemon is there | poll each second, ActivityEnded | polls overtake signals, the daemon crashes | one row per activity, showing that activity's end |
| **CLI** (`src/cli`) | none | status | the location crosses the bus as a map | it names the run and place the daemon is at |
| **Contract and proxy, tools** | none | – | – | not modelled: I/O and generated code; the contract's XML is in PropertyTree |

`PROJECT.json` lists, under `hazards`, each place where this can go wrong, with its line
and the properties that watch it.

## The modules

| Module | Models | Composed with |
|---|---|---|
| `RunLifecycle` | abstract: what the tracker promises about one kind of run | – |
| `ActivityTracker` | `daemon/tracker` | two instances of RunLifecycle, as refinements |
| `PublishedActivity` | abstract: which run the daemon shows, and which ends it reports | – |
| `ActivityProjection` | `daemon/activitymetadata`, `daemon/observer/ActivityProjection` | extends ActivityTracker, for its runs |
| `ObserverService` | `daemon/observer`, `daemon/gamestate`, `common/Location`, the D-Bus publishers, PresencePublisher, and a D-Bus client's view | extends ActivityProjection: each tracker step is followed, in the same step, by all its slots; an instance of PublishedActivity, as a refinement |
| `PropertyTree` | `PropertyTreeObject`, `InterfaceRegistry`, `GetManagedObjects`, `src/cli`, `common/Activity` | extends ObserverService: functions of its state |
| `MCObserverService` | – | an instance of PropertyTree, and so of all four, for TLC |
| `LogLine` | `daemon/combatlog/LogLine` | – |
| `LogLineGrammar` | what a whole line says, by the grammar in `LogLine.h` | extends LogLine, whose parser it judges |
| `DiscordIpcClient` | `daemon/presence/DiscordIpcClient`, with Discord and the socket | – |
| `LogTail` | abstract: what tailing a directory promises | – |
| `LogWatcher` | `daemon/combatlog`, with the game, its user and the kernel's event queue | an instance of LogTail, as a refinement |
| `EventLog` | `src/gui`, with the bus | an instance of PublishedActivity, as its daemon |
| `ActivityTrackerProofs`, `ObserverServiceProofs`, `PublishedActivityProofs`, `DiscordIpcClientProofs`, `EventLogProofs`, `LogLineProofs`, `LogWatcherProofs` | – | the proofs |
| `FoldLemmas` | – | induction and folds, for the proofs |

Operators whose comment begins with "Mutant of" are not part of the model.  Each changes
one definition the way a slip in the code would, and shows that the property it is paired
with (in `PROJECT.json`) would notice.

**ActivityTracker.**  The variables are the class's members; a timer is modelled by
`isActive()`.  A handler of a line is one action; `IgnoreLine` is every early return.
Lines carry their argument count, because the handlers guard on it and read past it.
Durations and times are integers in abstract units; `ToInt` is the cast to `int`,
with the width as the constant `IntMax`.  `emitted` holds the signals of the step;
`begun` and `ended` count them and are read by nothing but the properties.
The times of successive lines may go backwards, as local clocks do.  Names in lines
(encounter, zone of a keystone) are part of the run's identity and carried along unseen;
pre-roll is a constant offset of the start time and left out.

**ObserverService.**  `React` applies to the published state the slots of the signals
a tracker step emitted, in the order `main` and the constructors connect them.
`published.signals` is what this step sent to the bus; `mirror` folds those signals as
a client does that subscribed at the start.  GameState keeps the activity's bag; the model
keeps the run, compares the bags, and sends the bags.  The Discord presence is the run and
the zone name it shows.

**ActivityProjection, PropertyTree.**  A value on the bus is its D-Bus type and what it holds,
and a bag is a record with a field per key, so a key that one place writes and another
misspells is a key that is not there, and reads as zero or empty, as a QVariantMap's does.
`Merged` is the insertion of one map into another.
Unsigned casts wrap at the width of `IntMax`.  The daemon answers a call between two lines,
so each reply is a function of the published state; the property tree has no state of its
own and PropertyTree adds no action.  `ReadersAgree` compares values and whether a call is an
error, not which error it is.  The registry is the contract's XML as it is after
parsing; `ObjectManager`, which has no property, is left out of it.

**PublishedActivity.**  Two slots, the property that shows one run of them, and the run last
reported as ended.  ObserverService implements it and EventLog is built on it, so that what
the GUI is checked against is what the daemon is shown to do.  `Forget` is a crash, which
ObserverService does not take and EventLog does.

**LogLine.**  One action for each branch of the parser's loop, and one for what follows it.
The reference reads the whole line: it finds the outermost commas and matching brackets by
counting, with no stack.  How deep a line is nested stays in LogLine; LogLineGrammar has what
the line says: the fields of a piece of the line as a recursive function on the pieces, a
piece being two positions.  A timestamp is its fields; months and years are whole days.

**DiscordIpcClient.**  `start()` connects at once; the model starts with the reconnect
timer due, which has the same effect.  An attempt on all ten socket paths is one action,
as it blocks the event loop.  A frame is two pieces and a read takes one.  What Discord
shows is what it was told on the current connection.  Writes succeed or the connection
is lost.  The client with an empty application id, which does nothing, is left out.

**LogWatcher.**  A file is a sequence of pieces and a line is two.  `base` records where
tailing began in each file (its size at the scan, zero if created later); a renamed log
keeps it, and is in `moved` until it is written to.  `start()` sets the watch, lists the
directory, sizes each listed file and goes on to the event loop: an action each, since the
game may write, create and delete between any two of them; handling each event of
a batch is one action, since the file may change between them.  The kernel merges an
event with an equal last one, and drops events when its queue is full.
The idle timer, whose signal is connected to nothing, and `stop()` are left out.

**EventLog.**  `Refresh` is the poll: a blocking call, which sees the daemon as it is while
signals wait on the bus, in order.  It may happen between any two steps, as the user may
ask for it as well as the timer.  The daemon is PublishedActivity: a dungeon may begin over
an encounter, whose end then clears the property, and a run may take over a slot in one
step, which no poll divides.  A run is a number that stands for its start time and
title.  A row keeps the run it was made for and the run whose stop time and duration it
shows.  A GUI that starts in the middle of a run is one whose first poll comes then.  The
zone text and the clock, which nothing reads back, are left out.

## The runs

All runs set `CHECK_DEADLOCK FALSE`: the inputs are bounded, and when they are spent and
no timer is armed the system rests.  The daemon that has quit does too.

| Run | Checks | Shows |
|---|---|---|
| `tracker` | `TypeOK`, `OverrunHasJudgedRun`, `EachStartStopsOnce`, `EncounterLifecycle`, `DungeonLifecycle` | both slots implement RunLifecycle, eventual reports included |
| `tracker_durations` | `DurationsAreNotNegative` | **violated**: the cast comes after the clamp |
| `observer` | `ObserverTypeOK`, `MirrorMatchesProperties`, `ObjectExistsWhilePublished`, `AnnouncedObjectIsServed`, `PublishedRunIsTracked`, `EndPrecedesRemoval`, `PresenceIsCurrent`, `ReadersAgree`, `ObjectTellsTheBag`, `StatusNamesTheState`, `ShowsRuns` | clients that follow signals, object tree, presence and every way to read the object follow the state, and the daemon implements PublishedActivity |
| `observer_lost_dungeon` | `LiveDungeonIsPublished` | **violated**: a keystone begins in an encounter's overrun, and the encounter's stop clears the running dungeon |
| `observer_stale_interfaces` | `AnnouncedInterfacesAreServed` | **violated**: a dungeon published over an encounter is never announced |
| `discord` | `TypeOK` and seven safety properties, `PendingIsWritten` | the newest activity is written, at the allowed rate, on a ready connection |
| `tail` | `TypeOK`, `LogsAreTailed`, `NothingMissedWhenIdle`, `TailCatchesUp` | until a log is deleted or renamed, tailing implements LogTail, even when the kernel drops events, and catches up if it drops none; whatever is deleted, created again and renamed, no complete line is skipped if it drops none, where a renamed log counts from the next write to it |
| `tail_moved` | `MovedLogsAreRead` | **violated**: a log renamed before its last lines are read is not read under its new name |
| `tail_twice` | `NoLineTwice` | **violated**: a line of a log deleted and created again can be read twice |
| `event_log` | `TypeOK`, `OneRowPerRun`, `SettledRowsAreTrue`, `InProgressRowsAreLive`, `LiveRunGetsARow` | no run is listed twice, and each end reaches the row of its run, crashes included; until a crash, rows are closed and a published run gets a row |
| `log_line` | `StackFollowsLine`, `ValidIffBalanced`, `ReadsByGrammar`, `CutLineKeepsArguments`, `TimestampsDenoteInstants` | every short line is read as the grammar says, and a line cut where it is still valid keeps its arguments, the last of them perhaps cut down |
| `event_log_lost_run` | `EndedRunsHaveARow` | **violated**: an unseen run's end closes the next run's row |

The six violations are disagreements between the code and its own documents or tests;
`PROJECT.json` quotes both under `findings`.

**Bounds.**  `tracker`: two encounters, a tracked and an untracked difficulty and
keystone level, two times, five lines: enough for a run, its verdict, a correction,
a displacing START and a line of the other kind, with a timeout anywhere.  `observer`: one
encounter at two tracked difficulties and one dungeon at two tracked levels, so that one run
can displace another of its kind, an untracked one of each, two maps with one id, a named
and an unnamed zone, five lines: an encounter under a dungeon and back takes four.  `discord`: two activities asked for
three times (sent, held back, replaced), three failures (one before READY, one after it,
one within the throttle), a ping per connection.  `tail*`: two names, five pieces in
`tail`, that is two whole lines and a half or lines in both files, and four in the others; one
replacement, which is enough to delete and create or to rename and write again; in `tail`, a
queue of four, which overflows while start() runs or a batch is handled; in the others one of
twenty, which never fills.  `event_log`: three runs and one crash: two runs in flight when
the third is polled, or one before the crash and two after it.  After a crash a row may
stay in progress for good, since the daemon forgets the run; that is why the last two
properties speak of the time before one.  `log_line`: lines of seven characters, one letter,
both kinds of brackets, commas and quotes: two lists side by side or one in another with
items before and behind, and each of them quoted or cut.  Its instants have fractions of
one, two and three digits; the zones are whole and half hours on either side of UTC.

**Fairness.**  `ActivityTracker`: weak fairness of the two timeouts, as Qt delivers
expired timers; none of the lines, as nothing makes the game write.  An END line restarts
the timer, so an endless stream of END lines could postpone a report; `MaxLines` bounds
the stream, as the game does.  `DiscordIpcClient`: weak fairness of the timers,
of reads, of a closing socket, and of a Discord that runs: it accepts a connection
and answers a handshake.  Failures are bounded, so the last connection stays.
`LogWatcher`: weak fairness of the daemon's own steps.
`EventLog`: weak fairness of the poll and of the delivery of signals.

## The proofs

All theorems hold for every value of the constants under the assumptions named with them
in the modules.  `TrackerAssumption`, `WatcherAssumption`, `EventLogAssumption` and
`LogLineAssumption` say which sets are of integers and that the bounds are naturals;
`LevelAssumption`, that a keystone's level is an `int` and that the least one tracked is not
negative; `LettersAssumption`, that a letter is none of the characters the parser knows.
The others say that a sentinel is none of the values beside it: `NoneAssumption`,
`BagAssumption`, `ZoneAssumption` and `DiscordAssumption`.  TLC evaluates each of them.

**The tracker.**  `ActivityTrackerProofs` proves `TypeCorrect` (`TypeOK`), `TimersHaveRuns`
(`OverrunHasJudgedRun`) and `StartsAndStopsBalance` (`EachStartStopsOnce`).
The inductive invariant `IInv` is the conjunction of the three.  None of them is enough
alone.  A timeout reports the slot's run without looking at `m_active`, so that it reports
a run at all, and counts it once, needs that the timer belongs to a run in progress; that
a run in progress is a run needs the types; and the types of what is emitted need both.
The proof has one lemma per handler.

`DurationsOfShortLogs` bounds the finding of the run `tracker_durations`: if no two
lines are 2^31 milliseconds apart and the log's own fight times are not negative
(`ShortLog`), the cast changes nothing and no duration that is reported is negative, in
whatever order the lines' times are.

The module also proves `EncounterRefinement` and `DungeonRefinement`: the tracker
implements the safety part of RunLifecycle, once for each slot.  They use `IInv` and map each
handler: START is `Begin`, `Displace` or both in one; END is `Judge`; a timeout is
`Finish`; an untracked START over a run is `Displace(None)`; every other step is `Quiet`.
Here `OverrunHasJudgedRun` is what shows that the outcome reported is this run's own.

**The published state.** `ObserverServiceProofs` proves `PublishedIsTracked`
(`PublishedRunIsTracked`), `ObjectLifetime` (`ObjectExistsWhilePublished`),
`PresenceFollows` (`PresenceIsCurrent`), `EndComesFirst` (`EndPrecedesRemoval`) and
`ObserverRefinement`: `ObserverSpec` implements `PublishedActivity`. First come lemmas on
what each slot does to the published record, then `TrackerSlots`, which says of every
tracker step what it does to the two slots and what it emits; it needs the tracker's `IInv`.
The invariant `ObserverInv` adds to `IInv` that the object is live and announced exactly
while there is an activity, that the activity is in a slot, and that the presence is
current. For the refinement a stop is `End`, a start `Begin`, and a stop with a start
`Replace`; that a step without signals stutters, and that the run reported is the slot's,
come from `TrackerSlots`. For `EndComesFirst` each slot is shown to keep a list of signals
in order, if it had reason to send what it adds.
`PublishedActivityProofs` proves `ShownIsOpen` of the abstract specification alone: what is
shown is in a slot. EventLog's daemon inherits it, as does ObserverService.

**What a client sees.** The same module proves `ObserverTypesHold` (`ObserverTypeOK`),
`MirrorFollows` (`MirrorMatchesProperties`) and `ObjectIsServed` (`AnnouncedObjectIsServed`).
A client's view is a fold over the signals of every step so far.  `ObserveOneMore` says that
folding one more signal is folding it into the result, and with it each slot is followed
signal by signal: whatever it appends, the view then tells what the slot left behind.
Between steps `ViewInv` holds: the mirror tells the published properties and its object has
the interfaces last announced.  Of the object's values it cannot say more, for a dungeon
published over an encounter leaves the encounter's object standing (the run
`observer_stale_interfaces`); `ObjectShown` says that this is the only exception.

**Two runs at once.**  Two theorems bound the findings of the runs `observer_lost_dungeon`
and `observer_stale_interfaces`: both need a keystone to start while an encounter is in
progress or in its overrun.  While none does (`OneRunAtATime`), `LoneDungeonIsPublished` says
that a dungeon in progress is what is published (`LiveDungeonIsPublished`), and
`AloneAnnouncedIsServed` that the interfaces announced are those served
(`AnnouncedInterfacesAreServed`).  The first follows from the refinement: a step of
PublishedActivity leaves what is open shown (`OpenIsShown`), unless two runs are open.

**What a client reads.** `EveryReaderAgrees` (`ReadersAgree`), `ObjectTellsAll`
(`ObjectTellsTheBag`) and `StatusIsTrue` (`StatusNamesTheState`) are about the replies to
calls, which are functions of the state.  Every property of a tracked run already has the
type the contract gives it, so the coercion changes nothing and the four readers agree on
the projection (`CoercionChangesNothing`).  Each kind's bag has a key for each property
and no other (`ActivityTells`, `EncounterTells`, `DungeonTells`).  That the status line names
the keystone's level needs an invariant of its own, `LevelTracked`: a published
dungeon is of a tracked level, so the level is not negative and its cast does not wrap.

**The Discord client.**  `DiscordIpcClientProofs` proves all eight safety properties of the
run `discord`.  The invariant has two halves.  `ReadInv` says that what is on its way is
whole frames but for the half already in the buffer, that a READY on its way was sent on
this connection, and that without a connection there is nothing; `NoTornFrames` and
`ReadyOnThisConnection` rest on it, for streams of any length.  `SendInv` says that what
Discord shows was written last and to a client that is ready; with `PendingIsAwaited` and
`NewestIsKept` this gives `ShownIsNewest`, as only the throttle is left to hold a newer
activity back.  Reading touches the sending half at READY only, and a lost connection
touches it by taking what was shown.

**The event log.**  `EventLogProofs` proves `TypeCorrect` (`TypeOK`), `RunsHaveOneRow`
(`OneRowPerRun`), `EndsReachTheirRows` (`SettledRowsAreTrue`) and `RowsInProgressAreLive`
(`InProgressRowsAreLive`), under `EventLogAssumption` (the bounds are naturals), so for any
number of runs and crashes and a bus of any length.  The last two are not inductive: while
signals are under way a row may show another run's end.  `RowTrue` says what holds then: a
row that does not show its run's end has that end still on the bus.  It survives the write
into another run's row because that row was in progress.  `BusInv`, that the bus tells each
run's outcome, and `DaemonInv`, that a run in a slot has not ended, carry it.

The daemon of EventLog is PublishedActivity's with a crash and a bus.  `DaemonIsPublished`
shows that it remains an implementation of PublishedActivity, as ObserverService is.

`NoRunIsLost` bounds the finding of `event_log_lost_run` (`EndedRunsHaveARow`).  Three things
can lose a run: a crash, a keystone during an encounter (`Undisturbed`), and a poll that makes
a row while an end is on its way (`PollInStep`); TLC finds a lost run when any one of the
three hypotheses is left out.  Without them the next end on the bus is that of the row in
progress (`InStep`): it closes that row or, if there is none, adds its own.

**The watcher.**  `LogWatcherProofs` proves `TypeCorrect` (`TypeOK`), `NothingIsMissed`
(`NothingMissedWhenIdle`) and `TailsLogs`: until a log is deleted or renamed, each step of the
watcher is one of LogTail's (`LogsAreTailed`), whatever the kernel drops.
Nothing is so when an event is still pending: an entry of `m_files` may be of a log that is
gone, or lines may be unread.  `IInv` therefore speaks of `Pending`, the events read but not
handled followed by those in the kernel.  An entry that no pending event drops is right
about the log that is there (`EntryFits`), and the lines it counts as read were delivered
(`ReadIsDelivered`); what was not read of a log is followed by a pending event that reads
it and that no later one undoes (`RestWillBeRead`).  The merging of equal events is what
makes this delicate: a write whose event is swallowed must find an equal one, with nothing
after it, still pending.

A rename queues no event that reads, so what a renamed log holds is owed only from the next
write to it (`OwesNothing`): `NothingMissedWhenIdle` leaves out the logs renamed and not written
to since, and with that `NothingIsMissed` says how far the finding of `tail_moved` goes.  Any
later write is enough: the entry under the new name is gone, so the whole file is read.

The lemmas on splitting say that a
buffer cut anywhere and joined to what an earlier read left over yields the lines of the
whole, by `OneMoreLine` for each newline; `ReadDelivers` applies this to a read.

`OnceUnlessReplaced` bounds the finding of `tail_twice`: while no log is deleted or moved, no
line is received twice (`NoLineTwice`), whatever start(), the reads and the kernel's queue do.
The game numbers its writes, so the lines of a log begin with rising numbers (`Numbered`), and
what the invariant says was delivered is a stretch of one log.

**The line.**  `LogLineProofs` proves `KeepsItsPlace` (`StackFollowsLine`),
`ValidityIsBalance` (`ValidIffBalanced`) and `TimestampsAreInstants`
(`TimestampsDenoteInstants`), for lines of any length and every instant and offset, and
`ParserReadsGrammar` (`ReadsByGrammar`) and `CutLinesKeepArguments`
(`CutLineKeepsArguments`), for lines nested to any depth.  The
reference counts over the whole line; `QuotedGrows` and `DepthGrows` say how its counts
change with one more character.  Validity needs two facts of a line that is still read: no
closer came too early (`NothingOverclosed`), and something is kept exactly if a character
other than a quote was read (`KeepsWhatIsSaid`), whether it went to an argument, a list that
is open or the value not yet committed.

What the arguments are needs `ReadSoFar`: each list on the stack is open from a position of
the line and has the fields that the grammar gives before the last cut after it, and the value
not yet committed is the text behind the last cut of all, or the list that a bracket has just
closed.  `NextReadSoFar` shows that a step keeps it, a character at a time (`ReadsText`,
`ReadsComma`, `ReadsOpener`, `ReadsCloser`).  The reference looks at the whole line and the
parser has only seen its beginning, so a piece must have the same fields however the line goes
on (`SameFields`); `FieldsAre` shows, by induction on how long a piece is, that the recursive
definition has the values it says.  For a line cut short where its brackets balance, the fields
before an earlier cut are the first of those before a later one (`LaterCut`); the field it was
cut in goes on to the next cut of the whole (`NextCut`), and is a list that had ended there
already or a text that the whole's begins with (`FieldGoesOn`).

**Folds.**  The library states induction and folds for operators, which no prover here can
instantiate.  `FoldLemmas` states induction for the set of the numbers that have a property,
and derives from well-foundedness that a fold's values exist as a function (`FoldExists`);
`SplitRuns` and `ObserveRuns` show that the two folds of the model run through such values.
The same induction shows that the recursive functions of LogLineGrammar have a value for
every piece of a line (`UnquotedIs`, `FieldsAre`).

**Only model-checked.**  Liveness under fairness (`PendingIsWritten`, `TailCatchesUp`,
`LiveRunGetsARow` and the eventual reports of RunLifecycle), which is beyond the prover.
Every other property of a passing run is a theorem.

## What is left

Not modelled: option parsing and bus name registration; the contract's generated code; the
regular expression of a timestamp; the pre-roll time, a constant offset; the watcher's
`stop()` and its idle timer, whose signal is connected to nothing; the GUI's zone text and
clock, which nothing reads back; socket writes that stall; Discord frames with a corrupt
length (they stop the reader for good); the wording of anything shown; `Pause`, `Resume`
and the other methods that are stubs.

Worth doing next: the watcher, LogLine and the tracker composed, so that a file's bytes
become runs; the two calls by which a client reads Activity and Location as two steps.
