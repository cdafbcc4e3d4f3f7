--------------------------- MODULE EventLogProofs ---------------------------
(***************************************************************************)
(* The safety of the GUI's event log for any number of runs and crashes:   *)
(* however far the poll is ahead of the signals, the rows and the ends     *)
(* find each other.  Then what it takes for a run to be lost.              *)
(***************************************************************************)
EXTENDS EventLog, SequenceTheorems, FiniteSetTheorems, WellFoundedInduction, TLAPS

Signals == {Ended(r, o) : r \in Runs, o \in Outcomes} \cup {OwnerChanged(b) : b \in BOOLEAN}

Types ==
  /\ up \in BOOLEAN /\ valid \in BOOLEAN
  /\ activity \in Runs \cup {NoRun} /\ previous \in Runs \cup {NoRun}
  /\ open \in [Shown!Slots -> Runs \cup {NoRun}]
  /\ began \in 0 .. MaxRuns
  /\ outcomes \in [Runs -> Outcomes \cup {"unknown"}]
  /\ crashes \in Nat
  /\ bus \in Seq(Signals)
  /\ entries \in Seq(Entries)

EndIn(signals, run) ==
  \E j \in 1 .. Len(signals) : signals[j].signal = "ActivityEnded" /\ signals[j].run = run

InSlot(run) == \E s \in Shown!Slots : open[s] = run

\* The daemon: a run in a slot has begun and not ended, and no run is in both.
DaemonInv ==
  /\ \A s \in Shown!Slots :
       open[s] # NoRun => open[s] <= began /\ outcomes[open[s]] = "unknown"
  /\ \A s, t \in Shown!Slots : open[s] # NoRun /\ open[s] = open[t] => s = t
  /\ activity # NoRun => InSlot(activity)
  /\ \A r \in Runs : began < r => outcomes[r] = "unknown"

\* The bus tells the truth, of which each run has one.
BusInv ==
  \A j \in 1 .. Len(bus) :
    bus[j].signal = "ActivityEnded" => bus[j].outcome = outcomes[bus[j].run]

OneRow ==
  \A i, j \in 1 .. Len(entries) : entries[i].start = entries[j].start => i = j

\* A row with an end that is not its run's will be corrected, and one with none
\* will get one.
RowTrue(row) ==
  /\ row.state = "InProgress" <=> row.stop = NoRun
  /\ outcomes[row.start] # "unknown" =>
       \/ EndIn(bus, row.start)
       \/ row.state = StateOf(outcomes[row.start]) /\ row.stop = row.start
  /\ crashes = 0 /\ row.state = "InProgress" => InSlot(row.start) \/ EndIn(bus, row.start)

RowsTrue == \A i \in 1 .. Len(entries) : RowTrue(entries[i])

IInv == Types /\ DaemonInv /\ BusInv /\ OneRow /\ RowsTrue

-----------------------------------------------------------------------------
(* The bus. *)

\* A signal is sent.
LEMMA Pushed ==
  ASSUME Types, NEW signal \in Signals, bus' = Append(bus, signal)
  PROVE  /\ bus' \in Seq(Signals)
         /\ \A r : EndIn(bus, r) => EndIn(bus', r)
         /\ signal.signal = "ActivityEnded" => EndIn(bus', signal.run)
         /\ \A j \in 1 .. Len(bus') : bus'[j] = signal \/ \E i \in 1 .. Len(bus) : bus'[j] = bus[i]
<1> DEFINE n == Len(bus)
<1>1. n \in Nat /\ bus \in Seq(Signals)
  BY DEF Types
<1>2. /\ bus' \in Seq(Signals) /\ Len(bus') = n + 1
      /\ \A i \in 1 .. n : bus'[i] = bus[i]
      /\ bus'[n + 1] = signal
  BY <1>1
<1>3. \A r : EndIn(bus, r) <=> \E j \in 1 .. n : bus[j].signal = "ActivityEnded" /\ bus[j].run = r
  BY DEF EndIn
<1> HIDE DEF n
<1>4. \A i \in 1 .. n : i \in 1 .. n + 1
  BY <1>1
<1>5. n + 1 \in 1 .. n + 1
  BY <1>1
<1>6. \A j \in 1 .. n + 1 : j \in 1 .. n \/ j = n + 1
  BY <1>1
<1>7. \A r : EndIn(bus, r) => EndIn(bus', r)
  BY <1>2, <1>3, <1>4 DEF EndIn
<1>8. signal.signal = "ActivityEnded" => EndIn(bus', signal.run)
  BY <1>2, <1>5 DEF EndIn
<1>9. \A j \in 1 .. Len(bus') : bus'[j] = signal \/ \E i \in 1 .. n : bus'[j] = bus[i]
  BY <1>2, <1>6
<1> QED
  BY <1>2, <1>7, <1>8, <1>9 DEF n

\* A signal is handled.
LEMMA Popped ==
  ASSUME Types, bus # <<>>, bus' = Tail(bus)
  PROVE  /\ bus' \in Seq(Signals)
         /\ Head(bus) \in Signals
         /\ 1 \in 1 .. Len(bus) /\ Head(bus) = bus[1]
         /\ \A r : EndIn(bus, r) =>
              EndIn(bus', r) \/ (Head(bus).signal = "ActivityEnded" /\ Head(bus).run = r)
         /\ \A j \in 1 .. Len(bus') : \E i \in 1 .. Len(bus) : bus'[j] = bus[i]
<1> DEFINE n == Len(bus)
<1>1. n \in Nat /\ bus \in Seq(Signals)
  BY DEF Types
<1>2. /\ bus' \in Seq(Signals) /\ Len(bus') = n - 1 /\ n >= 1
      /\ \A i \in 1 .. n - 1 : bus'[i] = bus[i + 1]
      /\ Head(bus) = bus[1] /\ Head(bus) \in Signals
  BY <1>1
<1>3. \A r : EndIn(bus, r) <=> \E j \in 1 .. n : bus[j].signal = "ActivityEnded" /\ bus[j].run = r
  BY DEF EndIn
<1> HIDE DEF n
<1>4. \A j \in 1 .. n - 1 : j + 1 \in 1 .. n
  BY <1>1
<1>5. \A j \in 1 .. n : j = 1 \/ (j - 1 \in 1 .. n - 1 /\ (j - 1) + 1 = j)
  BY <1>1
<1>6. 1 \in 1 .. n
  BY <1>1, <1>2
<1>7. ASSUME NEW r, EndIn(bus, r)
      PROVE  EndIn(bus', r) \/ (Head(bus).signal = "ActivityEnded" /\ Head(bus).run = r)
  <2>1. PICK j \in 1 .. n : bus[j].signal = "ActivityEnded" /\ bus[j].run = r
    BY <1>3, <1>7
  <2>2. CASE j = 1
    BY <1>2, <2>1, <2>2
  <2>3. CASE j # 1
    <3>1. j - 1 \in 1 .. Len(bus') /\ bus'[j - 1] = bus[j]
      BY <1>2, <1>5, <2>3
    <3> QED
      BY <2>1, <3>1 DEF EndIn
  <2> QED
    BY <2>2, <2>3
<1>8. \A j \in 1 .. Len(bus') : \E i \in 1 .. n : bus'[j] = bus[i]
  BY <1>2, <1>4
<1> QED
  BY <1>2, <1>6, <1>7, <1>8 DEF n

-----------------------------------------------------------------------------
(* The rows. *)

\* The first of some rows is one of them.
LEMMA FirstIsOne ==
  ASSUME NEW S, S \subseteq Nat, S # {}
  PROVE  Min(S) \in S
<1> DEFINE R == OpToRel(<, Nat)
<1>1. IsWellFoundedOn(R, Nat)
  BY NatLessThanWellFounded
<1>2. \A x, y \in Nat : x < y <=> <<x, y>> \in R
  BY DEF OpToRel
<1> HIDE DEF R
<1>3. \E x \in S : \A y \in S : <<y, x>> \notin R
  BY <1>1, WFMin
<1>4. PICK x \in S : \A y \in S : <<y, x>> \notin R
  BY <1>3
<1>5. ASSUME NEW y \in S PROVE x =< y
  <2>1. x \in Nat /\ y \in Nat
    OBVIOUS
  <2>2. ~(y < x)
    BY <1>2, <1>4, <2>1
  <2> QED
    BY <2>1, <2>2
<1> QED
  BY <1>5 DEF Min

\* A row is put before the others.
LEMMA Prepended ==
  ASSUME Types, OneRow, NEW row \in Entries, RowsOf(row.start) = {},
         entries' = <<row>> \o entries
  PROVE  /\ entries' \in Seq(Entries)
         /\ OneRow'
         /\ \A i \in 1 .. Len(entries') :
              entries'[i] = row \/ \E k \in 1 .. Len(entries) : entries'[i] = entries[k]
<1> DEFINE n == Len(entries)
<1>1. n \in Nat /\ entries \in Seq(Entries) /\ DOMAIN entries = 1 .. n
  BY DEF Types
<1>2. <<row>> \in Seq(Entries) /\ Len(<<row>>) = 1 /\ <<row>>[1] = row
  OBVIOUS
<1>3. /\ <<row>> \o entries \in Seq(Entries)
      /\ Len(<<row>> \o entries) = Len(<<row>>) + n
      /\ \A i \in 1 .. Len(<<row>>) + n :
           (<<row>> \o entries)[i] = IF i <= Len(<<row>>) THEN <<row>>[i]
                                     ELSE entries[i - Len(<<row>>)]
  BY <1>1, <1>2, ConcatProperties, Zenon
<1>4. \A k \in 1 .. n : entries[k].start # row.start
  BY <1>1 DEF RowsOf
<1>5. \A i, j \in 1 .. n : entries[i].start = entries[j].start => i = j
  BY DEF OneRow
<1> HIDE DEF n
<1>6. entries' \in Seq(Entries) /\ Len(entries') = 1 + n
  BY <1>2, <1>3
<1>7. ASSUME NEW i \in 1 .. 1 + n
      PROVE  \/ i = 1 /\ entries'[i] = row
             \/ i - 1 \in 1 .. n /\ entries'[i] = entries[i - 1]
  <2>1. CASE i = 1
    BY <1>1, <1>2, <1>3, <2>1
  <2>2. CASE i # 1
    <3>1. i - 1 \in 1 .. n /\ ~(i <= 1) /\ i \in 1 .. 1 + n
      BY <1>1, <2>2
    <3>2. entries'[i] = (<<row>> \o entries)[i]
      OBVIOUS
    <3>3. entries'[i] = entries[i - 1]
      BY <1>2, <1>3, <3>1, <3>2
    <3> QED
      BY <3>1, <3>3
  <2> QED
    BY <2>1, <2>2
<1>8. ASSUME NEW i \in 1 .. 1 + n, NEW j \in 1 .. 1 + n, entries'[i].start = entries'[j].start
      PROVE  i = j
  <2>1. i \in Int /\ j \in Int
    BY <1>1
  <2>2. CASE i = 1 \/ j = 1
    <3>1. \A k \in 1 .. 1 + n : k = 1 => entries'[k].start = row.start
      <4>1. \A k \in 1 .. n : k # 0
        BY <1>1
      <4> QED
        BY <1>7, <4>1
    <3>2. \A k \in 1 .. 1 + n : k # 1 => entries'[k].start # row.start
      BY <1>4, <1>7
    <3> QED
      BY <1>8, <2>2, <3>1, <3>2
  <2>3. CASE i # 1 /\ j # 1
    <3>1. /\ i - 1 \in 1 .. n /\ entries'[i] = entries[i - 1]
          /\ j - 1 \in 1 .. n /\ entries'[j] = entries[j - 1]
      BY <1>7, <2>3
    <3>2. i - 1 = j - 1
      BY <1>5, <1>8, <3>1
    <3> QED
      BY <2>1, <3>2
  <2> QED
    BY <2>2, <2>3
<1>9. OneRow'
  BY <1>6, <1>8 DEF OneRow
<1>10. \A i \in 1 .. Len(entries') :
         entries'[i] = row \/ \E k \in 1 .. n : entries'[i] = entries[k]
  BY <1>6, <1>7
<1> QED
  BY <1>6, <1>9, <1>10 DEF n

\* endActivity writes into the row of the run, or into one in progress of
\* another run, or makes a row; every other row is as it was.
LEMMA EndActivityRows ==
  ASSUME Types, OneRow, NEW run \in Runs, NEW outcome \in Outcomes, EndActivity(run, outcome)
  PROVE  /\ entries' \in Seq(Entries)
         /\ OneRow'
         /\ \A i \in 1 .. Len(entries') :
              \/ /\ entries'[i].state = StateOf(outcome) /\ entries'[i].stop = run
                 /\ \/ entries'[i].start = run
                    \/ \E k \in 1 .. Len(entries) :
                         /\ entries[k].start = entries'[i].start
                         /\ entries[k].start # run
                         /\ entries[k].state = "InProgress"
              \/ /\ entries'[i].start # run
                 /\ \E k \in 1 .. Len(entries) : entries'[i] = entries[k]
<1> DEFINE rows == IF RowsOf(run) # {} THEN RowsOf(run) ELSE RowsInProgress
           row == [start |-> run, state |-> StateOf(outcome), stop |-> run]
           n == Len(entries)
<1>1. n \in Nat /\ entries \in Seq(Entries) /\ DOMAIN entries = 1 .. n
  BY DEF Types
<1>2. row \in Entries
  BY DEF Entries, States, StateOf
<1>3. CASE rows = {}
  <2>1. RowsOf(run) = {} /\ entries' = <<row>> \o entries
    BY <1>3 DEF EndActivity
  <2>2. \A k \in 1 .. n : entries[k].start # run
    BY <1>1, <2>1 DEF RowsOf
  <2>3. row.start = run /\ row.state = StateOf(outcome) /\ row.stop = run
    OBVIOUS
  <2> HIDE DEF row, n
  <2>4. /\ entries' \in Seq(Entries)
        /\ OneRow'
        /\ \A i \in 1 .. Len(entries') :
             entries'[i] = row \/ \E k \in 1 .. n : entries'[i] = entries[k]
    BY <1>2, <2>1, <2>3, Prepended DEF n
  <2> QED
    BY <2>2, <2>3, <2>4 DEF n
<1>4. CASE rows # {}
  <2> DEFINE m == Min(rows)
             other == [entries[m] EXCEPT !.state = StateOf(outcome), !.stop = run]
  <2>1. rows \subseteq 1 .. n
    BY <1>1 DEF RowsOf, RowsInProgress
  <2>2. m \in rows /\ m \in 1 .. n
    <3>1. rows \subseteq Nat
      BY <1>1, <2>1
    <3> HIDE DEF rows
    <3> QED
      BY <1>4, <2>1, <3>1, FirstIsOne
  <2>3. entries[m] \in Entries
    BY <1>1, <2>2
  <2>4. /\ other \in Entries /\ other.start = entries[m].start
        /\ other.state = StateOf(outcome) /\ other.stop = run
    BY <2>3 DEF Entries, States, StateOf
  <2>5. entries' = [entries EXCEPT ![m] = other]
    BY <1>1, <1>4, <2>2 DEF EndActivity
  <2>6. /\ entries' \in Seq(Entries) /\ Len(entries') = n
        /\ \A i \in 1 .. n : entries'[i] = IF i = m THEN other ELSE entries[i]
    <3> HIDE DEF other, m
    <3> QED
      BY <1>1, <2>2, <2>4, <2>5
  <2>7. \/ entries[m].start = run
        \/ /\ entries[m].start # run /\ entries[m].state = "InProgress"
           /\ \A k \in 1 .. n : entries[k].start # run
    BY <1>1, <2>2 DEF RowsOf, RowsInProgress
  <2> HIDE DEF other, m, rows, n, row
  <2>8. OneRow'
    <3>1. \A i \in 1 .. n : entries'[i].start = entries[i].start
      BY <2>4, <2>6
    <3> QED
      BY <2>6, <3>1 DEF OneRow, n
  <2>9. ASSUME NEW i \in 1 .. n
        PROVE  \/ /\ entries'[i].state = StateOf(outcome) /\ entries'[i].stop = run
                  /\ \/ entries'[i].start = run
                     \/ \E k \in 1 .. n :
                          /\ entries[k].start = entries'[i].start
                          /\ entries[k].start # run
                          /\ entries[k].state = "InProgress"
               \/ /\ entries'[i].start # run
                  /\ \E k \in 1 .. n : entries'[i] = entries[k]
    <3>1. CASE i = m
      BY <2>2, <2>4, <2>6, <2>7, <3>1
    <3>2. CASE i # m
      <4>1. entries'[i] = entries[i]
        BY <2>6, <3>2
      <4>2. entries[i].start # run
        BY <2>2, <2>7, <3>2 DEF OneRow, n
      <4> QED
        BY <4>1, <4>2
    <3> QED
      BY <3>1, <3>2
  <2> QED
    BY <2>6, <2>8, <2>9 DEF n
<1> QED
  BY <1>3, <1>4

-----------------------------------------------------------------------------
(* The steps of the daemon: no row changes. *)

\* A run begins: it is new, to the rows and to the bus.
LEMMA BeginRunInv ==
  ASSUME IInv, NEW slot \in Shown!Slots, BeginRun(slot)
  PROVE  IInv'
<1> DEFINE run == began + 1
<1>1. /\ began < MaxRuns /\ began' = run /\ open[slot] = NoRun
      /\ open' = [open EXCEPT ![slot] = run] /\ activity' = run
      /\ UNCHANGED <<up, outcomes, crashes, bus, valid, previous, entries>>
  BY DEF BeginRun, Shown!Begin, guiVars
<1>2. Types /\ DaemonInv /\ BusInv /\ OneRow /\ RowsTrue /\ MaxRuns \in Nat
  BY EventLogAssumption DEF IInv
<1>3. run \in Runs /\ run \in 0 .. MaxRuns /\ began < run /\ run # NoRun
  BY <1>1, <1>2 DEF Types, Runs, NoRun
<1> HIDE DEF run
<1>4. Types'
  BY <1>1, <1>2, <1>3 DEF Types
<1>5. outcomes[run] = "unknown"
  BY <1>2, <1>3 DEF DaemonInv
<1>6. \A s \in Shown!Slots : open'[s] = IF s = slot THEN run ELSE open[s]
  BY <1>1, <1>2 DEF Types
<1>7. \A s \in Shown!Slots : open[s] # run
  <2>1. \A s \in Shown!Slots : open[s] # NoRun => open[s] <= began /\ open[s] \in Nat
    BY <1>2 DEF DaemonInv, Types, Runs
  <2>2. began \in Nat
    BY <1>2 DEF Types
  <2> QED
    BY <1>3, <2>1, <2>2 DEF run
<1>8. DaemonInv'
  <2>1. ASSUME NEW s \in Shown!Slots, open'[s] # NoRun
        PROVE  open'[s] <= began' /\ outcomes'[open'[s]] = "unknown"
    <3>1. CASE s = slot
      BY <1>1, <1>3, <1>5, <1>6, <3>1
    <3>2. CASE s # slot
      <4>1. open'[s] = open[s] /\ open[s] <= began /\ outcomes[open[s]] = "unknown"
        BY <1>2, <1>6, <2>1, <3>2 DEF DaemonInv
      <4>2. open[s] \in Nat /\ began \in Nat /\ began' \in Nat
        BY <1>1, <1>2, <1>3, <2>1, <4>1 DEF Types, Runs
      <4> QED
        BY <1>1, <1>3, <4>1, <4>2
    <3> QED
      BY <3>1, <3>2
  <2>2. \A s, t \in Shown!Slots : open'[s] # NoRun /\ open'[s] = open'[t] => s = t
    BY <1>2, <1>6, <1>7 DEF DaemonInv
  <2>3. InSlot(activity)'
    BY <1>1, <1>6 DEF InSlot
  <2>4. ASSUME NEW r \in Runs, began' < r
        PROVE  outcomes'[r] = "unknown"
    <3>1. r \in Nat /\ began \in Nat /\ began < r
      BY <1>1, <1>2, <1>3, <2>4 DEF Types, Runs
    <3> QED
      BY <1>1, <1>2, <3>1 DEF DaemonInv
  <2> QED
    BY <2>1, <2>2, <2>3, <2>4 DEF DaemonInv
<1>9. BusInv' /\ OneRow'
  BY <1>1, <1>2 DEF BusInv, OneRow
<1>10. RowsTrue'
  <2>1. ASSUME NEW i \in 1 .. Len(entries)
        PROVE  RowTrue(entries[i])'
    <3>1. RowTrue(entries[i]) /\ entries[i].start \in Runs
      <4>1. RowTrue(entries[i])
        BY <1>2 DEF RowsTrue
      <4>2. entries[i] \in Entries
        BY <1>2 DEF Types
      <4> QED
        BY <4>1, <4>2 DEF Entries
    <3>2. \A r : EndIn(bus', r) <=> EndIn(bus, r)
      BY <1>1 DEF EndIn
    <3>3. entries[i].start # NoRun
      BY <3>1 DEF Runs, NoRun
    <3>4. InSlot(entries[i].start) => InSlot(entries[i].start)'
      BY <1>1, <1>6, <3>3 DEF InSlot
    <3> QED
      BY <1>1, <3>1, <3>2, <3>4 DEF RowTrue
  <2> QED
    BY <1>1, <2>1 DEF RowsTrue
<1> QED
  BY <1>4, <1>8, <1>9, <1>10 DEF IInv

\* A run is reported, and leaves its slot: its row has an end on the bus now.
LEMMA ReportInv ==
  ASSUME IInv, NEW slot \in Shown!Slots, NEW outcome \in Outcomes, NEW next \in Runs \cup {NoRun},
         open[slot] # NoRun, Report(slot, outcome),
         open' = [open EXCEPT ![slot] = next], activity' = next,
         (next = NoRun /\ began' = began) \/ (next = began + 1 /\ began' = next),
         UNCHANGED <<up, crashes, valid, previous, entries>>
  PROVE  IInv'
<1> DEFINE run == open[slot]
<1>1. Types /\ DaemonInv /\ BusInv /\ OneRow /\ RowsTrue /\ MaxRuns \in Nat
  BY EventLogAssumption DEF IInv
<1>2. /\ run \in Runs /\ run <= began /\ outcomes[run] = "unknown"
      /\ outcomes' = [outcomes EXCEPT ![run] = outcome]
      /\ bus' = Append(bus, Ended(run, outcome))
  BY <1>1 DEF Types, DaemonInv, Report
<1>3. \A r \in Runs : outcomes'[r] = IF r = run THEN outcome ELSE outcomes[r]
  BY <1>1, <1>2 DEF Types
<1>4. \A s \in Shown!Slots : open'[s] = IF s = slot THEN next ELSE open[s]
  BY <1>1 DEF Types
<1>5. \A s \in Shown!Slots : s # slot => open[s] # run
  BY <1>1 DEF DaemonInv
<1>6. began \in Nat /\ began' \in 0 .. MaxRuns /\ began <= began' /\ began' \in Nat
  BY <1>1 DEF Types, Runs, NoRun
<1>7. next # NoRun => next \in Runs /\ began < next /\ next # run /\ next <= began'
  BY <1>2, <1>6 DEF Runs
<1> HIDE DEF run
<1>8. Ended(run, outcome) \in Signals /\ Ended(run, outcome).signal = "ActivityEnded"
      /\ Ended(run, outcome).run = run /\ Ended(run, outcome).outcome = outcome
  BY <1>2 DEF Signals, Ended
<1>9. /\ bus' \in Seq(Signals)
      /\ \A r : EndIn(bus, r) => EndIn(bus', r)
      /\ EndIn(bus', run)
      /\ \A j \in 1 .. Len(bus') :
           bus'[j] = Ended(run, outcome) \/ \E i \in 1 .. Len(bus) : bus'[j] = bus[i]
  <2> DEFINE signal == Ended(run, outcome)
  <2>1. signal \in Signals /\ bus' = Append(bus, signal)
        /\ signal.signal = "ActivityEnded" /\ signal.run = run
    BY <1>2, <1>8
  <2> HIDE DEF signal
  <2>2. /\ bus' \in Seq(Signals)
        /\ \A r : EndIn(bus, r) => EndIn(bus', r)
        /\ EndIn(bus', signal.run)
        /\ \A j \in 1 .. Len(bus') :
             bus'[j] = signal \/ \E i \in 1 .. Len(bus) : bus'[j] = bus[i]
    BY <1>1, <2>1, Pushed
  <2>3. EndIn(bus', run)
    BY <2>1, <2>2 DEF EndIn
  <2> QED
    BY <2>2, <2>3 DEF signal
<1>10. Types'
  <2>1. outcomes' \in [Runs -> Outcomes \cup {"unknown"}]
    BY <1>1, <1>2 DEF Types
  <2>2. open' \in [Shown!Slots -> Runs \cup {NoRun}] /\ activity' \in Runs \cup {NoRun}
    BY <1>1 DEF Types
  <2> QED
    BY <1>1, <1>6, <1>9, <2>1, <2>2 DEF Types
<1>11. DaemonInv'
  <2>1. ASSUME NEW s \in Shown!Slots, open'[s] # NoRun
        PROVE  open'[s] <= began' /\ outcomes'[open'[s]] = "unknown"
    <3>1. CASE s = slot
      <4>1. open'[s] = next /\ next # NoRun
        BY <1>4, <2>1, <3>1
      <4>2. next \in Runs /\ began < next /\ next # run /\ next <= began'
        BY <1>7, <4>1
      <4>3. outcomes[next] = "unknown"
        BY <1>1, <4>2 DEF DaemonInv
      <4> QED
        BY <1>3, <4>1, <4>2, <4>3
    <3>2. CASE s # slot
      <4>1. open'[s] = open[s] /\ open[s] # NoRun /\ open[s] # run
        BY <1>4, <1>5, <2>1, <3>2
      <4>2. open[s] \in Runs /\ open[s] <= began /\ outcomes[open[s]] = "unknown"
        BY <1>1, <4>1 DEF DaemonInv, Types
      <4>3. open[s] <= began'
        BY <1>6, <4>2 DEF Runs
      <4> QED
        BY <1>3, <4>1, <4>2, <4>3
    <3> QED
      BY <3>1, <3>2
  <2>2. ASSUME NEW s \in Shown!Slots, NEW t \in Shown!Slots,
               open'[s] # NoRun, open'[s] = open'[t], s # t
        PROVE  FALSE
    <3>1. \A u \in Shown!Slots : open[u] # NoRun => open[u] \in Nat /\ open[u] <= began
      BY <1>1 DEF DaemonInv, Types, Runs
    <3>2. \A u \in Shown!Slots : open[u] # NoRun => open[u] # next
      BY <1>6, <1>7, <3>1 DEF Runs
    <3> QED
      BY <1>1, <1>4, <2>2, <3>2 DEF DaemonInv
  <2>3. activity' # NoRun => InSlot(activity)'
    BY <1>4 DEF InSlot
  <2>4. ASSUME NEW r \in Runs, began' < r
        PROVE  outcomes'[r] = "unknown"
    <3>1. r \in Nat /\ run \in Nat
      BY <1>2 DEF Runs
    <3>2. began < r /\ r # run
      BY <1>2, <1>6, <2>4, <3>1
    <3> QED
      BY <1>1, <1>3, <3>2 DEF DaemonInv
  <2> QED
    BY <2>1, <2>2, <2>3, <2>4 DEF DaemonInv
<1>12. BusInv'
  <2>1. ASSUME NEW j \in 1 .. Len(bus'), bus'[j].signal = "ActivityEnded"
        PROVE  bus'[j].outcome = outcomes'[bus'[j].run]
    <3>1. CASE bus'[j] = Ended(run, outcome)
      BY <1>2, <1>3, <1>8, <3>1
    <3>2. CASE \E i \in 1 .. Len(bus) : bus'[j] = bus[i]
      <4>1. PICK i \in 1 .. Len(bus) : bus'[j] = bus[i]
        BY <3>2
      <4>2. bus[i] \in Signals /\ bus[i].outcome = outcomes[bus[i].run]
        BY <1>1, <2>1, <4>1 DEF Types, BusInv
      <4>3. bus[i].run \in Runs /\ bus[i].outcome \in Outcomes
        BY <2>1, <4>1, <4>2 DEF Signals, Ended, OwnerChanged
      <4>4. bus[i].run # run
        BY <1>2, <4>2, <4>3 DEF Outcomes
      <4> QED
        BY <1>3, <4>1, <4>2, <4>3, <4>4
    <3> QED
      BY <1>9, <3>1, <3>2
  <2> QED
    BY <2>1 DEF BusInv
<1>13. OneRow'
  BY <1>1 DEF OneRow
<1>14. RowsTrue'
  <2>1. ASSUME NEW i \in 1 .. Len(entries)
        PROVE  RowTrue(entries[i])'
    <3>1. RowTrue(entries[i]) /\ entries[i].start \in Runs
      <4>1. RowTrue(entries[i])
        BY <1>1 DEF RowsTrue
      <4>2. entries[i] \in Entries
        BY <1>1 DEF Types
      <4> QED
        BY <4>1, <4>2 DEF Entries
    <3>2. CASE entries[i].start = run
      <4>1. EndIn(bus', entries[i].start)
        BY <1>9, <3>2 DEF EndIn
      <4> QED
        BY <3>1, <4>1 DEF RowTrue
    <3>3. CASE entries[i].start # run
      <4>1. outcomes'[entries[i].start] = outcomes[entries[i].start]
        BY <1>3, <3>1, <3>3
      <4>2. InSlot(entries[i].start) => InSlot(entries[i].start)'
        BY <1>4, <3>3 DEF InSlot, run
      <4> QED
        BY <1>9, <3>1, <4>1, <4>2 DEF RowTrue
    <3> QED
      BY <3>2, <3>3
  <2> QED
    BY <2>1 DEF RowsTrue
<1> QED
  BY <1>10, <1>11, <1>12, <1>13, <1>14 DEF IInv

\* The daemon goes, with its runs, or comes back.
LEMMA OwnerInv ==
  ASSUME IInv, DaemonCrash \/ DaemonStart
  PROVE  IInv'
<1>1. Types /\ DaemonInv /\ BusInv /\ OneRow /\ RowsTrue
  BY DEF IInv
<1>2. PICK owned \in BOOLEAN :
        /\ bus' = Append(bus, OwnerChanged(owned))
        /\ up' \in BOOLEAN
        /\ UNCHANGED <<began, outcomes, valid, previous, entries>>
  BY DEF DaemonCrash, DaemonStart, guiVars
<1>3. /\ \/ crashes' = crashes + 1
            /\ open' = [s \in Shown!Slots |-> NoRun] /\ activity' = NoRun
         \/ UNCHANGED <<crashes, open, activity>>
      /\ crashes \in Nat
  BY <1>1 DEF DaemonCrash, DaemonStart, Shown!Forget, shownVars, Types
<1>4. OwnerChanged(owned) \in Signals /\ OwnerChanged(owned).signal # "ActivityEnded"
  BY DEF Signals, OwnerChanged
<1>5. /\ bus' \in Seq(Signals)
      /\ \A r : EndIn(bus, r) => EndIn(bus', r)
      /\ \A j \in 1 .. Len(bus') :
           bus'[j] = OwnerChanged(owned) \/ \E i \in 1 .. Len(bus) : bus'[j] = bus[i]
  BY <1>1, <1>2, <1>4, Pushed
<1>6. Types'
  BY <1>1, <1>2, <1>3, <1>5 DEF Types
<1>7. DaemonInv'
  BY <1>1, <1>2, <1>3 DEF DaemonInv, InSlot
<1>8. BusInv' /\ OneRow'
  BY <1>1, <1>2, <1>4, <1>5 DEF BusInv, OneRow
<1>9. RowsTrue'
  <2>1. ASSUME NEW i \in 1 .. Len(entries)
        PROVE  RowTrue(entries[i])'
    <3>1. RowTrue(entries[i])
      BY <1>1 DEF RowsTrue
    <3>2. crashes' = 0 => crashes = 0 /\ open' = open
      BY <1>3
    <3> QED
      BY <1>2, <1>5, <3>1, <3>2 DEF RowTrue, InSlot
  <2> QED
    BY <1>2, <2>1 DEF RowsTrue
<1> QED
  BY <1>6, <1>7, <1>8, <1>9 DEF IInv

-----------------------------------------------------------------------------
(* The steps of the GUI: the daemon does not change. *)

\* The poll: a row is made, if at all, of the run in the foreground.
LEMMA RefreshInv ==
  ASSUME IInv, Refresh
  PROVE  IInv'
<1> DEFINE row == [start |-> activity, state |-> "InProgress", stop |-> NoRun]
<1>1. Types /\ DaemonInv /\ BusInv /\ OneRow /\ RowsTrue
  BY DEF IInv
<1>2. /\ UNCHANGED <<up, activity, open, began, outcomes, crashes, bus, valid>>
      /\ previous' \in Runs \cup {NoRun}
      /\ \/ entries' = entries
         \/ activity # NoRun /\ RowsOf(activity) = {} /\ entries' = <<row>> \o entries
  BY <1>1 DEF Refresh, BeginActivity, daemonVars, shownVars, Types
<1>3. DaemonInv' /\ BusInv'
  BY <1>1, <1>2 DEF DaemonInv, BusInv, InSlot
<1>4. CASE entries' = entries
  <2>1. Types' /\ OneRow'
    BY <1>1, <1>2, <1>4 DEF Types, OneRow
  <2>2. RowsTrue'
    BY <1>1, <1>2, <1>4 DEF RowsTrue, RowTrue, InSlot
  <2> QED
    BY <1>3, <2>1, <2>2 DEF IInv
<1>5. CASE activity # NoRun /\ RowsOf(activity) = {} /\ entries' = <<row>> \o entries
  <2>1. activity \in Runs
    BY <1>1, <1>5 DEF Types
  <2>2. row \in Entries /\ row.start = activity /\ row.state = "InProgress" /\ row.stop = NoRun
    BY <2>1 DEF Entries, States
  <2>3. InSlot(row.start)
    BY <1>1, <1>5, <2>2 DEF DaemonInv
  <2>4. outcomes[row.start] = "unknown"
    BY <1>1, <1>5, <2>2, <2>3 DEF DaemonInv, InSlot
  <2> HIDE DEF row
  <2>5. RowTrue(row)
    BY <2>2, <2>3, <2>4 DEF RowTrue
  <2>6. /\ entries' \in Seq(Entries)
        /\ OneRow'
        /\ \A i \in 1 .. Len(entries') :
             entries'[i] = row \/ \E k \in 1 .. Len(entries) : entries'[i] = entries[k]
    BY <1>1, <1>5, <2>2, Prepended
  <2>7. Types'
    BY <1>1, <1>2, <2>6 DEF Types
  <2>8. \A i \in 1 .. Len(entries') : RowTrue(entries'[i])
    BY <1>1, <2>5, <2>6 DEF RowsTrue
  <2>9. RowsTrue'
    BY <1>2, <2>8 DEF RowsTrue, RowTrue, InSlot
  <2> QED
    BY <1>3, <2>6, <2>7, <2>9 DEF IInv
<1> QED
  BY <1>2, <1>4, <1>5

\* The end of a run: its own row is put right; a row of another run that gets
\* it was in progress, so the end of that run is still to come.
LEMMA OnActivityEndedInv ==
  ASSUME IInv, OnActivityEnded
  PROVE  IInv'
<1> DEFINE run == Head(bus).run
           outcome == Head(bus).outcome
<1>1. Types /\ DaemonInv /\ BusInv /\ OneRow /\ RowsTrue
  BY DEF IInv
<1>2. /\ bus # <<>> /\ Head(bus).signal = "ActivityEnded" /\ bus' = Tail(bus)
      /\ EndActivity(run, outcome)
      /\ previous' = NoRun
      /\ UNCHANGED <<up, activity, open, began, outcomes, crashes, valid>>
  BY DEF OnActivityEnded, daemonVars, shownVars
<1>3. /\ bus' \in Seq(Signals)
      /\ Head(bus) \in Signals
      /\ 1 \in 1 .. Len(bus) /\ Head(bus) = bus[1]
      /\ \A r : EndIn(bus, r) => EndIn(bus', r) \/ run = r
      /\ \A j \in 1 .. Len(bus') : \E i \in 1 .. Len(bus) : bus'[j] = bus[i]
  BY <1>1, <1>2, Popped
<1>4. run \in Runs /\ outcome \in Outcomes
  BY <1>2, <1>3 DEF Signals, Ended, OwnerChanged
<1>5. outcome = outcomes[run]
  BY <1>1, <1>2, <1>3 DEF BusInv
<1> HIDE DEF run, outcome
<1>6. /\ entries' \in Seq(Entries)
      /\ OneRow'
      /\ \A i \in 1 .. Len(entries') :
           \/ /\ entries'[i].state = StateOf(outcome) /\ entries'[i].stop = run
              /\ \/ entries'[i].start = run
                 \/ \E k \in 1 .. Len(entries) :
                      /\ entries[k].start = entries'[i].start
                      /\ entries[k].start # run
                      /\ entries[k].state = "InProgress"
           \/ /\ entries'[i].start # run
              /\ \E k \in 1 .. Len(entries) : entries'[i] = entries[k]
  BY <1>1, <1>2, <1>4, EndActivityRows
<1>7. Types'
  BY <1>1, <1>2, <1>3, <1>6 DEF Types
<1>8. DaemonInv' /\ BusInv'
  BY <1>1, <1>2, <1>3 DEF DaemonInv, BusInv, InSlot
<1>9. StateOf(outcome) # "InProgress" /\ run # NoRun
  BY <1>4 DEF StateOf, Runs, NoRun
<1>10. ASSUME NEW i \in 1 .. Len(entries')
       PROVE  RowTrue(entries[i])'
  <2>1. CASE /\ entries'[i].state = StateOf(outcome) /\ entries'[i].stop = run
             /\ entries'[i].start = run
    BY <1>2, <1>5, <1>9, <2>1 DEF RowTrue
  <2>2. CASE /\ entries'[i].state = StateOf(outcome) /\ entries'[i].stop = run
             /\ \E k \in 1 .. Len(entries) :
                  /\ entries[k].start = entries'[i].start
                  /\ entries[k].start # run
                  /\ entries[k].state = "InProgress"
    <3>1. PICK k \in 1 .. Len(entries) :
            /\ entries[k].start = entries'[i].start
            /\ entries[k].start # run
            /\ entries[k].state = "InProgress"
      BY <2>2
    <3>2. RowTrue(entries[k])
      BY <1>1 DEF RowsTrue
    <3>3. entries[k] \in Entries
      BY <1>1 DEF Types
    <3>4. outcomes[entries[k].start] # "unknown" => EndIn(bus, entries[k].start)
      <4>1. entries[k].stop = NoRun
        BY <3>1, <3>2 DEF RowTrue
      <4>2. entries[k].start # NoRun
        BY <3>3 DEF Entries, Runs, NoRun
      <4> QED
        BY <3>2, <4>1, <4>2 DEF RowTrue
    <3>5. outcomes[entries[k].start] # "unknown" => EndIn(bus', entries[k].start)
      BY <1>3, <3>1, <3>4
    <3> QED
      BY <1>2, <1>9, <2>2, <3>1, <3>5 DEF RowTrue
  <2>3. CASE /\ entries'[i].start # run
             /\ \E k \in 1 .. Len(entries) : entries'[i] = entries[k]
    <3>1. PICK k \in 1 .. Len(entries) : entries'[i] = entries[k]
      BY <2>3
    <3>2. RowTrue(entries'[i])
      BY <1>1, <3>1 DEF RowsTrue
    <3>3. EndIn(bus, entries'[i].start) => EndIn(bus', entries'[i].start)
      BY <1>3, <2>3
    <3> QED
      BY <1>2, <3>2, <3>3 DEF RowTrue, InSlot
  <2> QED
    BY <1>6, <2>1, <2>2, <2>3
<1>11. RowsTrue'
  BY <1>10 DEF RowsTrue
<1> QED
  BY <1>6, <1>7, <1>8, <1>11 DEF IInv

\* The daemon's name changes hands: no row does.
LEMMA OnOwnerChangedInv ==
  ASSUME IInv, OnOwnerChanged
  PROVE  IInv'
<1>1. Types /\ DaemonInv /\ BusInv /\ OneRow /\ RowsTrue
  BY DEF IInv
<1>2. /\ bus # <<>> /\ Head(bus).signal = "NameOwnerChanged" /\ bus' = Tail(bus)
      /\ valid' = Head(bus).owned
      /\ UNCHANGED <<up, activity, open, began, outcomes, crashes, previous, entries>>
  BY DEF OnOwnerChanged, daemonVars, shownVars
<1>3. /\ bus' \in Seq(Signals)
      /\ Head(bus) \in Signals
      /\ \A r : EndIn(bus, r) => EndIn(bus', r)
      /\ \A j \in 1 .. Len(bus') : \E i \in 1 .. Len(bus) : bus'[j] = bus[i]
  BY <1>1, <1>2, Popped
<1>4. valid' \in BOOLEAN
  BY <1>2, <1>3 DEF Signals, Ended, OwnerChanged
<1>5. Types'
  BY <1>1, <1>2, <1>3, <1>4 DEF Types
<1>6. DaemonInv' /\ BusInv' /\ OneRow'
  BY <1>1, <1>2, <1>3 DEF DaemonInv, BusInv, OneRow, InSlot
<1>7. RowsTrue'
  <2>1. ASSUME NEW i \in 1 .. Len(entries)
        PROVE  RowTrue(entries[i])'
    <3>1. RowTrue(entries[i])
      BY <1>1 DEF RowsTrue
    <3> QED
      BY <1>2, <1>3, <3>1 DEF RowTrue, InSlot
  <2> QED
    BY <1>2, <2>1 DEF RowsTrue
<1> QED
  BY <1>5, <1>6, <1>7 DEF IInv

-----------------------------------------------------------------------------
(* The invariant. *)

LEMMA InitIInv ==
  ASSUME Init
  PROVE  IInv
<1>1. /\ up \in BOOLEAN /\ valid = up /\ activity = NoRun
      /\ open = [s \in Shown!Slots |-> NoRun]
      /\ began = 0 /\ outcomes = [r \in Runs |-> "unknown"] /\ crashes = 0
      /\ bus = <<>> /\ previous = NoRun /\ entries = <<>>
  BY DEF Init, Shown!Init
<1>2. Types
  BY <1>1, EventLogAssumption DEF Types
<1>3. DaemonInv
  BY <1>1 DEF DaemonInv
<1>4. BusInv /\ OneRow /\ RowsTrue
  BY <1>1 DEF BusInv, OneRow, RowsTrue
<1> QED
  BY <1>2, <1>3, <1>4 DEF IInv

LEMMA NextIInv ==
  ASSUME IInv, [Next]_vars
  PROVE  IInv'
<1>1. CASE \E slot \in Shown!Slots : BeginRun(slot)
  BY <1>1, BeginRunInv
<1>2. ASSUME NEW slot \in Shown!Slots, NEW outcome \in Outcomes, EndRun(slot, outcome)
      PROVE  IInv'
  <2> DEFINE next == NoRun
  <2>1. /\ open[slot] # NoRun /\ Report(slot, outcome)
        /\ open' = [open EXCEPT ![slot] = next] /\ activity' = next
        /\ next = NoRun /\ began' = began
        /\ UNCHANGED <<up, crashes, valid, previous, entries>>
    BY <1>2 DEF EndRun, Shown!End, guiVars
  <2>2. /\ next \in Runs \cup {NoRun}
        /\ (next = NoRun /\ began' = began) \/ (next = began + 1 /\ began' = next)
    BY <2>1
  <2> HIDE DEF next
  <2> QED
    BY <2>1, <2>2, ReportInv
<1>3. ASSUME NEW slot \in Shown!Slots, NEW outcome \in Outcomes, ReplaceRun(slot, outcome)
      PROVE  IInv'
  <2> DEFINE next == began + 1
  <2>1. /\ open[slot] # NoRun /\ Report(slot, outcome)
        /\ open' = [open EXCEPT ![slot] = next] /\ activity' = next
        /\ began < MaxRuns /\ began' = next
        /\ UNCHANGED <<up, crashes, valid, previous, entries>>
    BY <1>3 DEF ReplaceRun, Shown!Replace, guiVars
  <2>2. next \in Runs /\ next = began + 1
    BY <2>1, EventLogAssumption DEF IInv, Types, Runs
  <2> HIDE DEF next
  <2> QED
    BY <2>1, <2>2, ReportInv
<1>4. CASE DaemonCrash \/ DaemonStart
  BY <1>4, OwnerInv
<1>5. CASE Refresh
  BY <1>5, RefreshInv
<1>6. CASE OnActivityEnded
  BY <1>6, OnActivityEndedInv
<1>7. CASE OnOwnerChanged
  BY <1>7, OnOwnerChangedInv
<1>8. CASE UNCHANGED vars
  <2>1. UNCHANGED <<up, activity, open, began, outcomes, crashes, bus, valid, previous, entries>>
    BY <1>8 DEF vars, daemonVars, shownVars, guiVars
  <2>2. Types' /\ DaemonInv' /\ BusInv' /\ OneRow'
    BY <2>1 DEF IInv, Types, DaemonInv, BusInv, OneRow, InSlot
  <2>3. RowsTrue'
    BY <2>1 DEF IInv, RowsTrue, RowTrue, InSlot
  <2> QED
    BY <2>2, <2>3 DEF IInv
<1>9. CASE Daemon
  <2>1. \/ \E slot \in Shown!Slots : BeginRun(slot)
        \/ \E slot \in Shown!Slots, outcome \in Outcomes :
             EndRun(slot, outcome) \/ ReplaceRun(slot, outcome)
        \/ DaemonCrash \/ DaemonStart
    BY <1>9, Zenon DEF Daemon
  <2> QED
    BY <1>1, <1>2, <1>3, <1>4, <2>1
<1> QED
  BY <1>5, <1>6, <1>7, <1>8, <1>9 DEF Next

THEOREM Always == Spec => []IInv
<1>1. Init => IInv
  BY InitIInv
<1>2. IInv /\ [Next]_vars => IInv'
  BY NextIInv
<1> QED
  BY <1>1, <1>2, PTL DEF Spec

-----------------------------------------------------------------------------
(* What it is for. *)

\* Every member keeps its type, and a row shows a stop once it has one.
THEOREM TypeCorrect == Spec => []TypeOK
<1>1. IInv => TypeOK
  <2> SUFFICES ASSUME IInv PROVE TypeOK
    OBVIOUS
  <2>1. \A i \in DOMAIN entries : entries[i].state = "InProgress" <=> entries[i].stop = NoRun
    BY DEF IInv, Types, RowsTrue, RowTrue
  <2> QED
    BY <2>1 DEF IInv, Types, TypeOK
<1> QED
  BY <1>1, Always, PTL

\* A run has at most one row, however the poll and the signals meet.
THEOREM RunsHaveOneRow == Spec => []OneRowPerRun
<1>1. IInv => OneRowPerRun
  <2> SUFFICES ASSUME IInv, NEW r \in Runs PROVE Cardinality(RowsOf(r)) <= 1
    BY DEF OneRowPerRun
  <2>1. \A i, j \in RowsOf(r) : i = j
    BY DEF IInv, Types, OneRow, RowsOf
  <2>2. CASE RowsOf(r) = {}
    BY <2>2, FS_EmptySet
  <2>3. CASE RowsOf(r) # {}
    <3>1. PICK i : RowsOf(r) = {i}
      BY <2>1, <2>3
    <3> QED
      BY <3>1, FS_Singleton
  <2> QED
    BY <2>2, <2>3
<1> QED
  BY <1>1, Always, PTL

\* Once the signals are handled, every row of a run that was reported as ended
\* shows that run's outcome and stop.
THEOREM EndsReachTheirRows == Spec => []SettledRowsAreTrue
<1>1. IInv => SettledRowsAreTrue
  <2> SUFFICES ASSUME IInv, bus = <<>> , NEW i \in DOMAIN entries,
                      outcomes[entries[i].start] # "unknown"
               PROVE  /\ entries[i].state = StateOf(outcomes[entries[i].start])
                      /\ entries[i].stop = entries[i].start
    BY DEF SettledRowsAreTrue
  <2>1. RowTrue(entries[i])
    BY DEF IInv, Types, RowsTrue
  <2>2. ~EndIn(bus, entries[i].start)
    BY DEF EndIn
  <2> QED
    BY <2>1, <2>2 DEF RowTrue
<1> QED
  BY <1>1, Always, PTL

\* Until the daemon crashes, a row in progress is of a run the daemon follows,
\* or its end is on its way.
THEOREM RowsInProgressAreLive == Spec => []InProgressRowsAreLive
<1>1. IInv => InProgressRowsAreLive
  <2> SUFFICES ASSUME IInv, crashes = 0, NEW i \in RowsInProgress
               PROVE  \/ InSlot(entries[i].start)
                      \/ \E j \in DOMAIN bus :
                           bus[j].signal = "ActivityEnded" /\ bus[j].run = entries[i].start
    BY DEF InProgressRowsAreLive, InSlot
  <2>1. RowTrue(entries[i]) /\ entries[i].state = "InProgress"
    BY DEF IInv, Types, RowsTrue, RowsInProgress
  <2>2. DOMAIN bus = 1 .. Len(bus)
    BY DEF IInv, Types
  <2> QED
    BY <2>1, <2>2 DEF RowTrue, EndIn
<1> QED
  BY <1>1, Always, PTL

\* The daemon that the GUI is checked against does only what PublishedActivity
\* allows, through crashes too, which is what ObserverService is shown to do.
THEOREM DaemonIsPublished == Spec => Shown!Spec
<1>1. Init => Shown!Init
  BY DEF Init
<1>2. IInv /\ [Next]_vars => [Shown!Next]_(Shown!vars)
  <2> SUFFICES ASSUME IInv, [Next]_vars PROVE Shown!Next \/ UNCHANGED Shown!vars
    OBVIOUS
  <2>1. began < MaxRuns => began + 1 \in Runs
    BY EventLogAssumption DEF IInv, Types, Runs
  <2>2. ASSUME NEW slot \in Shown!Slots, BeginRun(slot) PROVE Shown!Next
    BY <2>1, <2>2 DEF BeginRun, Shown!Next
  <2>3. ASSUME NEW slot \in Shown!Slots, NEW outcome \in Outcomes, EndRun(slot, outcome)
        PROVE  Shown!Next
    BY <2>3 DEF EndRun, Shown!Next
  <2>4. ASSUME NEW slot \in Shown!Slots, NEW outcome \in Outcomes, ReplaceRun(slot, outcome)
        PROVE  Shown!Next
    BY <2>1, <2>4 DEF ReplaceRun, Shown!Next
  <2>5. CASE DaemonCrash
    BY <2>5 DEF DaemonCrash, Shown!Next
  <2>6. CASE DaemonStart \/ Refresh \/ OnActivityEnded \/ OnOwnerChanged \/ UNCHANGED vars
    BY <2>6 DEF DaemonStart, Refresh, OnActivityEnded, OnOwnerChanged, vars, daemonVars,
       shownVars, Shown!vars
  <2> QED
    BY <2>2, <2>3, <2>4, <2>5, <2>6 DEF Next, Daemon
<1> QED
  BY <1>1, <1>2, Always, PTL DEF Spec, Shown!Spec

-----------------------------------------------------------------------------
(* Runs that are lost. *)

IsEnd(signal) == signal.signal = "ActivityEnded"

NoEnds == \A j \in 1 .. Len(bus) : ~IsEnd(bus[j])

\* The next end to be handled is that of the run.
NextEnd(run) ==
  \E j \in 1 .. Len(bus) :
    /\ IsEnd(bus[j]) /\ bus[j].run = run
    /\ \A k \in 1 .. j - 1 : ~IsEnd(bus[k])

HasRow(run) == \E i \in 1 .. Len(entries) : entries[i].start = run

\* What makes a run get lost: the daemon crashes, a keystone starts while an
\* encounter is in progress, or a poll makes a row while an end is on its way.
OneSlot == open["encounter"] = NoRun \/ open["dungeon"] = NoRun
Undisturbed == crashes = 0 /\ OneSlot
PollInStep == Refresh => NoEnds \/ UNCHANGED entries

\* Without these the next end to be handled is that of the row in progress.
RowInStep(row) ==
  row.state = "InProgress" => (InSlot(row.start) /\ NoEnds) \/ NextEnd(row.start)

EndsAreKnown == \A r \in Runs : outcomes[r] # "unknown" => EndIn(bus, r) \/ HasRow(r)

InStep == EndsAreKnown /\ \A i \in 1 .. Len(entries) : RowInStep(entries[i])

\* A signal is sent: what is the next end remains it.
LEMMA PushedInStep ==
  ASSUME Types, NEW signal \in Signals, bus' = Append(bus, signal)
  PROVE  /\ \A r : NextEnd(r) => NextEnd(r)'
         /\ NoEnds /\ IsEnd(signal) => NextEnd(signal.run)'
         /\ NoEnds /\ ~IsEnd(signal) => NoEnds'
<1> DEFINE n == Len(bus)
<1>1. n \in Nat /\ bus \in Seq(Signals)
  BY DEF Types
<1>2. Len(bus') = n + 1 /\ bus'[n + 1] = signal /\ \A i \in 1 .. n : bus'[i] = bus[i]
  BY <1>1
<1> HIDE DEF n
<1>3. ASSUME NEW r, NextEnd(r) PROVE NextEnd(r)'
  <2>1. PICK j \in 1 .. n : /\ IsEnd(bus[j]) /\ bus[j].run = r
                            /\ \A k \in 1 .. j - 1 : ~IsEnd(bus[k])
    BY <1>3 DEF NextEnd, n
  <2>2. j \in 1 .. n + 1 /\ \A k \in 1 .. j - 1 : k \in 1 .. n
    BY <1>1, <2>1
  <2>3. IsEnd(bus'[j]) /\ bus'[j].run = r /\ \A k \in 1 .. j - 1 : ~IsEnd(bus'[k])
    BY <1>2, <2>1, <2>2
  <2> QED
    BY <1>2, <2>2, <2>3 DEF NextEnd
<1>4. ASSUME NoEnds, IsEnd(signal) PROVE NextEnd(signal.run)'
  <2>1. n + 1 \in 1 .. n + 1 /\ (n + 1) - 1 = n
    BY <1>1
  <2>2. \A k \in 1 .. n : ~IsEnd(bus'[k])
    BY <1>2, <1>4 DEF NoEnds, n
  <2>3. \E j \in 1 .. Len(bus') : /\ IsEnd(bus'[j]) /\ bus'[j].run = signal.run
                                  /\ \A k \in 1 .. j - 1 : ~IsEnd(bus'[k])
    BY <1>2, <1>4, <2>1, <2>2
  <2> QED
    BY <2>3 DEF NextEnd
<1>5. ASSUME NoEnds, ~IsEnd(signal) PROVE NoEnds'
  <2>1. \A k \in 1 .. n + 1 : k \in 1 .. n \/ k = n + 1
    BY <1>1
  <2>2. \A k \in 1 .. n + 1 : ~IsEnd(bus'[k])
    BY <1>2, <1>5, <2>1 DEF NoEnds, n
  <2> QED
    BY <1>2, <2>2 DEF NoEnds
<1> QED
  BY <1>3, <1>4, <1>5

\* A signal is handled: the next end is this one, or remains what it was.
LEMMA PoppedInStep ==
  ASSUME Types, bus # <<>>, bus' = Tail(bus)
  PROVE  /\ IsEnd(Head(bus)) => ~NoEnds /\ \A r : NextEnd(r) => Head(bus).run = r
         /\ ~IsEnd(Head(bus)) => /\ NoEnds => NoEnds'
                                 /\ \A r : NextEnd(r) => NextEnd(r)'
<1> DEFINE n == Len(bus)
<1>1. n \in Nat /\ bus \in Seq(Signals) /\ n >= 1
  BY DEF Types
<1>2. /\ Len(bus') = n - 1 /\ Head(bus) = bus[1]
      /\ \A i \in 1 .. n - 1 : bus'[i] = bus[i + 1]
  BY <1>1
<1> HIDE DEF n
<1>3. ASSUME IsEnd(Head(bus)) PROVE ~NoEnds /\ \A r : NextEnd(r) => Head(bus).run = r
  <2>1. ~NoEnds
    <3>1. 1 \in 1 .. n
      BY <1>1
    <3> QED
      BY <1>2, <1>3, <3>1 DEF NoEnds, n
  <2>2. ASSUME NEW r, NextEnd(r) PROVE Head(bus).run = r
    <3>1. PICK j \in 1 .. n : /\ IsEnd(bus[j]) /\ bus[j].run = r
                              /\ \A k \in 1 .. j - 1 : ~IsEnd(bus[k])
      BY <2>2 DEF NextEnd, n
    <3>2. j # 1 => 1 \in 1 .. j - 1
      BY <1>1
    <3> QED
      BY <1>2, <1>3, <3>1, <3>2
  <2> QED
    BY <2>1, <2>2
<1>4. ASSUME ~IsEnd(Head(bus)), NoEnds PROVE NoEnds'
  <2>1. \A j \in 1 .. n - 1 : j + 1 \in 1 .. n
    BY <1>1
  <2>2. \A j \in 1 .. n - 1 : ~IsEnd(bus'[j])
    BY <1>2, <1>4, <2>1 DEF NoEnds, n
  <2> QED
    BY <1>2, <2>2 DEF NoEnds
<1>5. ASSUME ~IsEnd(Head(bus)), NEW r, NextEnd(r) PROVE NextEnd(r)'
  <2>1. PICK j \in 1 .. n : /\ IsEnd(bus[j]) /\ bus[j].run = r
                            /\ \A k \in 1 .. j - 1 : ~IsEnd(bus[k])
    BY <1>5 DEF NextEnd, n
  <2>2. j # 1
    BY <1>2, <1>5, <2>1
  <2>3. /\ j - 1 \in 1 .. n - 1 /\ (j - 1) + 1 = j
        /\ \A k \in 1 .. (j - 1) - 1 : k \in 1 .. n - 1 /\ k + 1 \in 1 .. j - 1
    BY <1>1, <2>1, <2>2
  <2>4. /\ IsEnd(bus'[j - 1]) /\ bus'[j - 1].run = r
        /\ \A k \in 1 .. (j - 1) - 1 : ~IsEnd(bus'[k])
    BY <1>2, <2>1, <2>3
  <2> QED
    BY <1>2, <2>3, <2>4 DEF NextEnd
<1> QED
  BY <1>3, <1>4, <1>5

\* A row put before the others leaves them there.
LEMMA OthersStay ==
  ASSUME Types, NEW row \in Entries, entries' = <<row>> \o entries
  PROVE  HasRow(row.start)' /\ \A r : HasRow(r) => HasRow(r)'
<1> DEFINE n == Len(entries)
<1>1. n \in Nat /\ entries \in Seq(Entries)
  BY DEF Types
<1>2. <<row>> \in Seq(Entries) /\ Len(<<row>>) = 1 /\ <<row>>[1] = row
  OBVIOUS
<1>3. /\ Len(<<row>> \o entries) = Len(<<row>>) + n
      /\ \A i \in 1 .. Len(<<row>>) + n :
           (<<row>> \o entries)[i] = IF i <= Len(<<row>>) THEN <<row>>[i]
                                     ELSE entries[i - Len(<<row>>)]
  BY <1>1, <1>2, ConcatProperties, Zenon
<1> HIDE DEF n
<1>4. 1 \in 1 .. 1 + n /\ \A k \in 1 .. n : k + 1 \in 1 .. 1 + n /\ ~(k + 1 <= 1) /\ (k + 1) - 1 = k
  BY <1>1
<1>5. Len(entries') = 1 + n /\ entries'[1] = row
  BY <1>1, <1>2, <1>3, <1>4
<1>6. \A k \in 1 .. n : entries'[k + 1] = entries[k]
  BY <1>2, <1>3, <1>4
<1>7. HasRow(row.start)'
  BY <1>4, <1>5 DEF HasRow
<1>8. \A r : HasRow(r) => HasRow(r)'
  BY <1>4, <1>5, <1>6 DEF HasRow, n
<1> QED
  BY <1>7, <1>8

\* endActivity leaves no run without a row that had one, and not the one that
\* ended, if no other run has a row in progress.
LEMMA EndKeepsRows ==
  ASSUME Types, NEW run \in Runs, NEW outcome \in Outcomes, EndActivity(run, outcome),
         RowsInProgress \subseteq RowsOf(run)
  PROVE  HasRow(run)' /\ \A r : HasRow(r) => HasRow(r)'
<1> DEFINE row == [start |-> run, state |-> StateOf(outcome), stop |-> run]
           n == Len(entries)
<1>1. n \in Nat /\ entries \in Seq(Entries) /\ DOMAIN entries = 1 .. n
  BY DEF Types
<1>2. CASE RowsOf(run) = {}
  <2>1. entries' = <<row>> \o entries
    BY <1>2 DEF EndActivity
  <2>2. row \in Entries /\ row.start = run
    BY DEF Entries, States, StateOf
  <2> HIDE DEF row
  <2> QED
    BY <2>1, <2>2, OthersStay
<1>3. CASE RowsOf(run) # {}
  <2> DEFINE m == Min(RowsOf(run))
             other == [entries[m] EXCEPT !.state = StateOf(outcome), !.stop = run]
  <2>1. m \in RowsOf(run) /\ m \in 1 .. n
    <3>1. RowsOf(run) \subseteq 1 .. n
      BY <1>1 DEF RowsOf
    <3>2. RowsOf(run) \subseteq Nat
      BY <1>1, <3>1
    <3> QED
      BY <1>3, <3>1, <3>2, FirstIsOne
  <2>2. entries' = [entries EXCEPT ![m] = other]
    BY <1>1, <1>3, <2>1 DEF EndActivity
  <2>3. other.start = entries[m].start
    <3>1. entries[m] \in Entries
      BY <1>1, <2>1
    <3> HIDE DEF m
    <3> QED
      BY <3>1 DEF Entries
  <2>4. entries[m].start = run
    BY <2>1 DEF RowsOf
  <2> HIDE DEF m, other
  <2>5. Len(entries') = n /\ \A i \in 1 .. n : entries'[i] = IF i = m THEN other ELSE entries[i]
    BY <1>1, <2>1, <2>2
  <2> HIDE DEF n
  <2>6. \A i \in 1 .. n : entries'[i].start = entries[i].start
    BY <2>3, <2>5
  <2>7. HasRow(run)'
    BY <2>1, <2>4, <2>5, <2>6 DEF HasRow
  <2>8. \A r : HasRow(r) => HasRow(r)'
    BY <2>5, <2>6 DEF HasRow, n
  <2> QED
    BY <2>7, <2>8
<1> QED
  BY <1>2, <1>3

\* A run is reported: if it has the row in progress, its end is the next.
LEMMA ReportInStep ==
  ASSUME IInv, OneSlot, InStep, NEW slot \in Shown!Slots, NEW outcome \in Outcomes,
         open[slot] # NoRun, Report(slot, outcome), entries' = entries
  PROVE  InStep'
<1>1. Types
  BY DEF IInv
<1> PICK run \in Runs : run = open[slot]
  BY <1>1 DEF Types
<1>2. bus' = Append(bus, Ended(run, outcome)) /\ Ended(run, outcome) \in Signals
  BY DEF Report, Signals
<1>3. /\ IsEnd(Ended(run, outcome)) /\ Ended(run, outcome).run = run
      /\ Ended(run, outcome).signal = "ActivityEnded"
  BY DEF IsEnd, Ended
<1>4. /\ \A r : NextEnd(r) => NextEnd(r)'
      /\ NoEnds => NextEnd(run)'
  BY <1>1, <1>2, <1>3, PushedInStep
<1>5. EndIn(bus', run) /\ \A r : EndIn(bus, r) => EndIn(bus', r)
  BY <1>1, <1>2, <1>3, Pushed
<1>6. \A r \in Runs : r # run => outcomes'[r] = outcomes[r]
  BY DEF Report, IInv, Types
<1>7. EndsAreKnown'
  <2>1. \A r : HasRow(r)' <=> HasRow(r)
    BY DEF HasRow
  <2> QED
    BY <1>5, <1>6, <2>1 DEF InStep, EndsAreKnown
<1>8. ASSUME NEW i \in 1 .. Len(entries) PROVE RowInStep(entries[i])'
  <2>1. RowInStep(entries[i]) /\ entries[i] \in Entries
    BY <1>1 DEF InStep, Types
  <2>2. entries[i].start # NoRun
    BY <2>1 DEF Entries, Runs, NoRun
  <2>3. InSlot(entries[i].start) => entries[i].start = run
    BY <2>2 DEF InSlot, OneSlot, Shown!Slots
  <2> QED
    BY <1>4, <2>1, <2>3 DEF RowInStep
<1> QED
  BY <1>7, <1>8 DEF InStep

\* Nothing changed but the runs begun, or a signal about the daemon's name.
LEMMA OwnerInStep ==
  ASSUME IInv, InStep, UNCHANGED <<outcomes, entries>>,
         \A r \in Runs : InSlot(r) => InSlot(r)',
         \/ bus' = bus
         \/ \E b \in BOOLEAN : bus' = Append(bus, OwnerChanged(b))
         \/ bus # <<>> /\ ~IsEnd(Head(bus)) /\ bus' = Tail(bus)
  PROVE  InStep'
<1>1. /\ NoEnds => NoEnds'
      /\ \A r : NextEnd(r) => NextEnd(r)'
      /\ \A r : EndIn(bus, r) => EndIn(bus', r)
  <2>1. CASE bus' = bus
    BY <2>1 DEF NoEnds, NextEnd
  <2>2. ASSUME NEW b \in BOOLEAN, bus' = Append(bus, OwnerChanged(b))
        PROVE  /\ NoEnds => NoEnds'
               /\ \A r : NextEnd(r) => NextEnd(r)'
               /\ \A r : EndIn(bus, r) => EndIn(bus', r)
    <3>1. OwnerChanged(b) \in Signals /\ ~IsEnd(OwnerChanged(b))
      BY DEF Signals, OwnerChanged, IsEnd
    <3> QED
      BY <2>2, <3>1, PushedInStep, Pushed DEF IInv
  <2>3. CASE bus # <<>> /\ ~IsEnd(Head(bus)) /\ bus' = Tail(bus)
    BY <2>3, PoppedInStep, Popped DEF IInv, IsEnd
  <2> QED
    BY <2>1, <2>2, <2>3
<1>2. EndsAreKnown'
  <2>1. \A r : HasRow(r)' <=> HasRow(r)
    BY DEF HasRow
  <2> QED
    BY <1>1, <2>1 DEF InStep, EndsAreKnown
<1>3. ASSUME NEW i \in 1 .. Len(entries) PROVE RowInStep(entries[i])'
  <2>1. RowInStep(entries[i]) /\ entries[i] \in Entries
    BY DEF InStep, IInv, Types
  <2>2. entries[i].start \in Runs
    BY <2>1 DEF Entries
  <2> QED
    BY <1>1, <2>1, <2>2 DEF RowInStep
<1> QED
  BY <1>2, <1>3 DEF InStep

\* A poll makes a row of a run in a slot, with no end on its way.
LEMMA RefreshInStep ==
  ASSUME IInv, InStep, Refresh, PollInStep
  PROVE  InStep'
<1>1. UNCHANGED <<open, outcomes, bus>> /\ Types
  BY DEF Refresh, daemonVars, shownVars, IInv
<1>2. \A r : /\ NextEnd(r)' <=> NextEnd(r)
             /\ InSlot(r)' <=> InSlot(r)
  BY <1>1 DEF NextEnd, InSlot
<1>3. NoEnds' <=> NoEnds
  BY <1>1 DEF NoEnds
<1>4. CASE UNCHANGED entries
  BY <1>1, <1>4, OwnerInStep DEF InSlot
<1>5. CASE entries' # entries
  <2> DEFINE row == [start |-> activity, state |-> "InProgress", stop |-> NoRun]
  <2>1. /\ NoEnds /\ activity # NoRun /\ RowsOf(activity) = {}
        /\ entries' = <<row>> \o entries
    BY <1>5 DEF Refresh, PollInStep, BeginActivity
  <2>2. row \in Entries /\ row.start = activity /\ InSlot(activity)
    BY <1>1, <2>1 DEF Types, Entries, States, IInv, DaemonInv
  <2> HIDE DEF row
  <2>3. \A i \in 1 .. Len(entries') :
          entries'[i] = row \/ \E k \in 1 .. Len(entries) : entries'[i] = entries[k]
    BY <1>1, <2>1, <2>2, Prepended DEF IInv
  <2>4. \A r : HasRow(r) => HasRow(r)'
    BY <1>1, <2>1, <2>2, OthersStay
  <2>5. EndsAreKnown'
    BY <1>1, <2>4 DEF InStep, EndsAreKnown
  <2>6. ASSUME NEW i \in 1 .. Len(entries') PROVE RowInStep(entries[i])'
    <3>1. RowInStep(entries'[i])
      BY <2>1, <2>2, <2>3 DEF InStep, RowInStep
    <3> QED
      BY <1>2, <1>3, <3>1 DEF RowInStep
  <2> QED
    BY <2>5, <2>6 DEF InStep
<1> QED
  BY <1>4, <1>5

\* An end is handled: it is that of the row in progress, if there is one, and no
\* row is in progress after it.
LEMMA EndInStep ==
  ASSUME IInv, InStep, OnActivityEnded
  PROVE  InStep'
<1>1. /\ Types /\ OneRow
      /\ bus # <<>> /\ IsEnd(Head(bus)) /\ bus' = Tail(bus)
      /\ EndActivity(Head(bus).run, Head(bus).outcome) /\ outcomes' = outcomes
  BY DEF OnActivityEnded, daemonVars, IInv, IsEnd
<1>2. /\ Head(bus) \in Signals
      /\ \A r : EndIn(bus, r) => EndIn(bus', r) \/ Head(bus).run = r
  BY <1>1, Popped
<1>3. PICK run \in Runs, outcome \in Outcomes : run = Head(bus).run /\ outcome = Head(bus).outcome
  BY <1>1, <1>2 DEF Signals, Ended, OwnerChanged, IsEnd
<1>4. ~NoEnds /\ \A r : NextEnd(r) => run = r
  BY <1>1, <1>3, PoppedInStep
<1>5. \A k \in 1 .. Len(entries) : entries[k].state = "InProgress" => entries[k].start = run
  BY <1>4 DEF InStep, RowInStep
<1>6. RowsInProgress \subseteq RowsOf(run)
  <2>1. DOMAIN entries = 1 .. Len(entries)
    BY <1>1 DEF Types
  <2> QED
    BY <1>5, <2>1 DEF RowsInProgress, RowsOf
<1>7. HasRow(run)' /\ \A r : HasRow(r) => HasRow(r)'
  BY <1>1, <1>3, <1>6, EndKeepsRows
<1>8. EndsAreKnown'
  BY <1>1, <1>2, <1>3, <1>7 DEF InStep, EndsAreKnown
<1>9. StateOf(outcome) # "InProgress"
  BY DEF StateOf
<1>10. \A i \in 1 .. Len(entries') : entries'[i].state # "InProgress"
  <2>1. \A i \in 1 .. Len(entries') :
          \/ entries'[i].state = StateOf(outcome)
          \/ /\ entries'[i].start # run
             /\ \E k \in 1 .. Len(entries) : entries'[i] = entries[k]
    BY <1>1, <1>3, EndActivityRows
  <2> QED
    BY <1>5, <1>9, <2>1
<1> QED
  BY <1>8, <1>10 DEF InStep, RowInStep

\* How far lost runs go: while the daemon does not crash, no keystone starts
\* during an encounter, and no poll makes a row while an end is on its way, each
\* run whose end was handled has its row.
THEOREM NoRunIsLost ==
  Spec /\ []Undisturbed /\ [][PollInStep]_vars => []EndedRunsHaveARow
<1>1. Init => InStep
  BY DEF Init, InStep, EndsAreKnown
<1>2. IInv /\ InStep /\ Undisturbed /\ Undisturbed' /\ [Next]_vars /\ [PollInStep]_vars => InStep'
  <2> SUFFICES ASSUME IInv, InStep, Undisturbed, Undisturbed', [Next]_vars, [PollInStep]_vars
               PROVE  InStep'
    OBVIOUS
  <2>1. ASSUME NEW slot \in Shown!Slots, BeginRun(slot) PROVE InStep'
    <3>1. /\ UNCHANGED <<outcomes, entries, bus>>
          /\ open[slot] = NoRun /\ open' = [open EXCEPT ![slot] = began + 1]
      BY <2>1 DEF BeginRun, Shown!Begin, guiVars
    <3>2. \A r \in Runs : InSlot(r) => InSlot(r)'
      BY <3>1 DEF InSlot, IInv, Types, Runs, NoRun
    <3> QED
      BY <3>1, <3>2, OwnerInStep
  <2>2. ASSUME NEW slot \in Shown!Slots, NEW outcome \in Outcomes,
               EndRun(slot, outcome) \/ ReplaceRun(slot, outcome)
        PROVE  InStep'
    <3>1. open[slot] # NoRun /\ Report(slot, outcome) /\ entries' = entries
      BY <2>2 DEF EndRun, ReplaceRun, Shown!End, Shown!Replace, guiVars
    <3> QED
      BY <3>1, ReportInStep DEF Undisturbed
  <2>3. CASE DaemonCrash
    BY <2>3 DEF DaemonCrash, Undisturbed
  <2>4. CASE DaemonStart
    <3>1. /\ UNCHANGED <<outcomes, entries, open>>
          /\ bus' = Append(bus, OwnerChanged(TRUE))
      BY <2>4 DEF DaemonStart, shownVars, guiVars
    <3> QED
      BY <3>1, OwnerInStep DEF InSlot
  <2>5. CASE Refresh
    <3>1. PollInStep
      BY <2>5 DEF Refresh, PollInStep, vars, guiVars
    <3> QED
      BY <2>5, <3>1, RefreshInStep
  <2>6. CASE OnActivityEnded
    BY <2>6, EndInStep
  <2>7. CASE OnOwnerChanged
    <3>1. /\ UNCHANGED <<outcomes, entries, open>>
          /\ bus # <<>> /\ ~IsEnd(Head(bus)) /\ bus' = Tail(bus)
      BY <2>7 DEF OnOwnerChanged, daemonVars, shownVars, IsEnd
    <3> QED
      BY <3>1, OwnerInStep DEF InSlot
  <2>8. CASE UNCHANGED vars
    <3>1. UNCHANGED <<outcomes, entries, open, bus>>
      BY <2>8 DEF vars, daemonVars, shownVars, guiVars
    <3> QED
      BY <3>1, OwnerInStep DEF InSlot
  <2> QED
    BY <2>1, <2>2, <2>3, <2>4, <2>5, <2>6, <2>7, <2>8 DEF Next, Daemon
<1>3. IInv /\ InStep => EndedRunsHaveARow
  <2> SUFFICES ASSUME IInv, InStep, bus = <<>>, NEW r \in Runs, outcomes[r] # "unknown"
               PROVE  RowsOf(r) # {}
    BY DEF EndedRunsHaveARow
  <2>1. ~EndIn(bus, r)
    BY DEF EndIn
  <2>2. HasRow(r)
    BY <2>1 DEF InStep, EndsAreKnown
  <2> QED
    BY <2>2 DEF HasRow, RowsOf, IInv, Types
<1> QED
  BY <1>1, <1>2, <1>3, Always, PTL DEF Spec
=============================================================================
