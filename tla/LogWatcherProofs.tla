--------------------------- MODULE LogWatcherProofs ---------------------------
(***************************************************************************)
(* The watcher misses no line and, while logs are only created and         *)
(* appended to, hands each on once, whole and in order: for any number of  *)
(* logs, any length of the kernel's queue and any writes.                  *)
(*                                                                         *)
(* The invariant is about Pending, the events read but not handled before  *)
(* those still queued.  An entry of m_files may be of a log that is gone,  *)
(* but then a pending event drops it; one that no pending event drops is   *)
(* right about the log that is there, and what it counts as read was       *)
(* delivered.  What was not read of a log is followed by a pending event   *)
(* that reads it, and that no later one undoes.                            *)
(***************************************************************************)
EXTENDS LogWatcher, FoldLemmas, SequenceTheorems

-----------------------------------------------------------------------------
(* Pending events. *)

Forgets(event, n) == event.name = n /\ event.kind # "modified"

\* The entry of n will be dropped.
Clears(p, n) == \E i \in 1 .. Len(p) : Forgets(p[i], n)

\* The log n will be read after its entry was dropped for the last time.
Reads(p, n) ==
  \E i \in 1 .. Len(p) :
    /\ p[i] = Event(n, "modified")
    /\ \A j \in i + 1 .. Len(p) : ~Forgets(p[j], n)

\* After a deletion of n it was created again.
Recreates(p, n) ==
  \A i \in 1 .. Len(p) : p[i] = Event(n, "deleted") =>
    \E j \in i + 1 .. Len(p) : p[j] = Event(n, "created")

Mentions(p, n) == \E i \in 1 .. Len(p) : p[i].name = n

Deletes(p) == \E i \in 1 .. Len(p) : p[i].kind = "deleted"

\* Nothing happened to n before it was created.
CreatesFirst(p, n) ==
  \A i, j \in 1 .. Len(p) : p[j] = Event(n, "created") /\ i < j => p[i].name # n

\* The events q after event e was queued behind p, merged or not.
Follows(q, p, e) == q = Append(p, e) \/ (q = p /\ p # <<>> /\ p[Len(p)] = e)

\* An event is its name and its kind.
LEMMA EventsAre ==
  ASSUME NEW e \in Events
  PROVE  /\ e.name \in Names /\ e.kind \in {"created", "deleted", "modified"}
         /\ \A n, k : e = Event(n, k) <=> e.name = n /\ e.kind = k
BY DEF Events, Kinds, Event

\* A queue with one more event.
LEMMA AppendIs ==
  ASSUME NEW p \in Seq(Events), NEW e \in Events
  PROVE  /\ Append(p, e) \in Seq(Events)
         /\ Len(Append(p, e)) = Len(p) + 1
         /\ \A i \in 1 .. Len(p) : Append(p, e)[i] = p[i]
         /\ Append(p, e)[Len(p) + 1] = e
         /\ Len(p) \in Nat
OBVIOUS

\* What is pending once another event was queued.
LEMMA PendingFollows ==
  ASSUME NEW p \in Seq(Events), NEW q, NEW e \in Events, Follows(q, p, e), NEW n
  PROVE  /\ q \in Seq(Events)
         /\ Clears(q, n) <=> (Clears(p, n) \/ Forgets(e, n))
         /\ Reads(q, n) <=> (e = Event(n, "modified") \/ (Reads(p, n) /\ ~Forgets(e, n)))
         /\ Recreates(q, n) <=>
              (e = Event(n, "created") \/ (e # Event(n, "deleted") /\ Recreates(p, n)))
         /\ Mentions(q, n) <=> (Mentions(p, n) \/ e.name = n)
         /\ Deletes(q) <=> (Deletes(p) \/ e.kind = "deleted")
         /\ CreatesFirst(p, n) /\ (e = Event(n, "created") => ~Mentions(p, n)) => CreatesFirst(q, n)
<1> DEFINE len == Len(p)
<1>1. CASE q = Append(p, e)
  <2>1. /\ q \in Seq(Events) /\ Len(q) = len + 1 /\ len \in Nat
        /\ \A i \in 1 .. len : q[i] = p[i]
        /\ q[len + 1] = e
    BY <1>1, AppendIs
  <2>2. \A i \in 1 .. len + 1 : i = len + 1 \/ (i \in 1 .. len /\ len + 1 \in i + 1 .. len + 1)
    BY <2>1
  <2>3. \A i \in 1 .. len : i \in 1 .. len + 1
    BY <2>1
  <2>4. len + 1 \in 1 .. len + 1 /\ len + 2 .. len + 1 = {}
    BY <2>1
  <2>5. \A i \in 1 .. len : \A j \in i + 1 .. len + 1 : j = len + 1 \/ j \in i + 1 .. len
    BY <2>1
  <2>6. \A i \in 1 .. len : \A j \in i + 1 .. len : j \in 1 .. len /\ j \in i + 1 .. len + 1
    BY <2>1
  <2> HIDE DEF len
  <2>7. Clears(q, n) <=> (Clears(p, n) \/ Forgets(e, n))
    BY <2>1, <2>2, <2>3, <2>4 DEF Clears, len
  <2>8. Reads(q, n) <=> (e = Event(n, "modified") \/ (Reads(p, n) /\ ~Forgets(e, n)))
    BY <2>1, EventsAre DEF Reads, len, Forgets
  <2>9. Recreates(q, n) <=>
              (e = Event(n, "created") \/ (e # Event(n, "deleted") /\ Recreates(p, n)))
    BY <2>1, EventsAre DEF Recreates, len
  <2>10. Mentions(q, n) <=> (Mentions(p, n) \/ e.name = n)
    BY <2>1, <2>2, <2>3, <2>4 DEF Mentions, len
  <2>11. Deletes(q) <=> (Deletes(p) \/ e.kind = "deleted")
    BY <2>1, <2>2, <2>3, <2>4 DEF Deletes, len
  <2>12. CreatesFirst(p, n) /\ (e = Event(n, "created") => ~Mentions(p, n)) => CreatesFirst(q, n)
    BY <2>1 DEF CreatesFirst, Mentions, len
  <2> QED
    BY <2>1, <2>7, <2>8, <2>9, <2>10, <2>11, <2>12
<1>2. CASE q = p /\ p # <<>> /\ p[len] = e
  <2>1. len \in Nat \ {0} /\ len \in 1 .. len /\ (\A i \in 1 .. len : p[i] \in Events)
    BY <1>2
  <2>2. Clears(q, n) <=> (Clears(p, n) \/ Forgets(e, n))
    BY <1>2, <2>1 DEF Clears
  <2>3. Reads(q, n) <=> (e = Event(n, "modified") \/ (Reads(p, n) /\ ~Forgets(e, n)))
    <3>1. e = Event(n, "modified") => Reads(p, n)
      BY <1>2, <2>1 DEF Reads
    <3>2. Forgets(e, n) => ~Reads(p, n)
      BY <1>2, <2>1, EventsAre DEF Reads, Forgets
    <3> QED
      BY <1>2, <3>1, <3>2
  <2>4. Recreates(q, n) <=>
              (e = Event(n, "created") \/ (e # Event(n, "deleted") /\ Recreates(p, n)))
    <3>1. e = Event(n, "created") => Recreates(p, n)
      BY <1>2, <2>1, EventsAre DEF Recreates
    <3>2. e = Event(n, "deleted") => ~Recreates(p, n)
      BY <1>2, <2>1 DEF Recreates
    <3> QED
      BY <1>2, <3>1, <3>2
  <2>5. Mentions(q, n) <=> (Mentions(p, n) \/ e.name = n)
    BY <1>2, <2>1 DEF Mentions
  <2>6. Deletes(q) <=> (Deletes(p) \/ e.kind = "deleted")
    BY <1>2, <2>1 DEF Deletes
  <2> QED
    BY <1>2, <2>2, <2>3, <2>4, <2>5, <2>6
<1> QED
  BY <1>1, <1>2 DEF Follows

\* What is pending once the first event was handled.
LEMMA PendingHandled ==
  ASSUME NEW p \in Seq(Events), p # <<>>, NEW n
  PROVE  /\ Tail(p) \in Seq(Events) /\ Head(p) \in Events
         /\ Clears(p, n) <=> (Forgets(Head(p), n) \/ Clears(Tail(p), n))
         /\ Reads(p, n) <=>
              (Reads(Tail(p), n) \/ (Head(p) = Event(n, "modified") /\ ~Clears(Tail(p), n)))
         /\ Recreates(p, n) => Recreates(Tail(p), n)
         /\ Mentions(p, n) <=> (Head(p).name = n \/ Mentions(Tail(p), n))
         /\ Deletes(p) <=> (Head(p).kind = "deleted" \/ Deletes(Tail(p)))
         /\ CreatesFirst(p, n) => CreatesFirst(Tail(p), n)
         /\ CreatesFirst(p, n) /\ ~Deletes(p) /\ Head(p).name = n => ~Clears(Tail(p), n)
<1> DEFINE len == Len(p)
           t == Tail(p)
<1>1. /\ len \in Nat \ {0} /\ t \in Seq(Events) /\ Len(t) = len - 1
      /\ Head(p) = p[1] /\ Head(p) \in Events
      /\ \A i \in 1 .. len - 1 : t[i] = p[i + 1]
      /\ \A i \in 1 .. len : p[i] \in Events
  OBVIOUS
<1>2. \A i \in 1 .. len : i = 1 \/ (i - 1 \in 1 .. len - 1 /\ p[i] = t[i - 1])
  BY <1>1
<1>3. \A i \in 1 .. len - 1 : i + 1 \in 1 .. len
  BY <1>1
<1> HIDE DEF len, t
<1>4. Clears(p, n) <=> (Forgets(Head(p), n) \/ Clears(t, n))
  BY <1>1, <1>2, <1>3 DEF Clears, len
<1>5. Reads(p, n) <=> (Reads(t, n) \/ (Head(p) = Event(n, "modified") /\ ~Clears(t, n)))
  <2>1. Reads(p, n) => (Reads(t, n) \/ (Head(p) = Event(n, "modified") /\ ~Clears(t, n)))
    <3> SUFFICES ASSUME NEW i \in 1 .. len, p[i] = Event(n, "modified"),
                        \A j \in i + 1 .. len : ~Forgets(p[j], n)
                 PROVE  Reads(t, n) \/ (Head(p) = Event(n, "modified") /\ ~Clears(t, n))
      BY DEF Reads, len
    <3>1. CASE i = 1
      BY <1>1, <3>1 DEF Clears
    <3>2. CASE i # 1
      <4>1. i - 1 \in 1 .. len - 1 /\ t[i - 1] = Event(n, "modified")
        BY <1>2, <3>2
      <4>2. \A j \in (i - 1) + 1 .. len - 1 : ~Forgets(t[j], n)
        BY <1>1
      <4> QED
        BY <1>1, <4>1, <4>2 DEF Reads
    <3> QED
      BY <3>1, <3>2
  <2>2. Reads(t, n) => Reads(p, n)
    <3> SUFFICES ASSUME NEW i \in 1 .. len - 1, t[i] = Event(n, "modified"),
                        \A j \in i + 1 .. len - 1 : ~Forgets(t[j], n)
                 PROVE  Reads(p, n)
      BY <1>1 DEF Reads
    <3>1. i + 1 \in 1 .. len /\ p[i + 1] = Event(n, "modified")
      BY <1>1
    <3>2. \A j \in (i + 1) + 1 .. len : ~Forgets(p[j], n)
      BY <1>1, <1>2
    <3> QED
      BY <3>1, <3>2 DEF Reads, len
  <2>3. Head(p) = Event(n, "modified") /\ ~Clears(t, n) => Reads(p, n)
    <3> SUFFICES ASSUME Head(p) = Event(n, "modified"), ~Clears(t, n) PROVE Reads(p, n)
      OBVIOUS
    <3>1. \A j \in 1 + 1 .. len : ~Forgets(p[j], n)
      BY <1>1, <1>2 DEF Clears
    <3> QED
      BY <1>1, <3>1 DEF Reads, len
  <2> QED
    BY <2>1, <2>2, <2>3
<1>6. Recreates(p, n) => Recreates(t, n)
  <2> SUFFICES ASSUME Recreates(p, n), NEW i \in 1 .. len - 1, t[i] = Event(n, "deleted")
               PROVE  \E j \in i + 1 .. len - 1 : t[j] = Event(n, "created")
    BY <1>1 DEF Recreates
  <2>1. i + 1 \in 1 .. len /\ p[i + 1] = Event(n, "deleted")
    BY <1>1
  <2>2. PICK j \in (i + 1) + 1 .. len : p[j] = Event(n, "created")
    BY <2>1 DEF Recreates, len
  <2>3. j - 1 \in i + 1 .. len - 1 /\ t[j - 1] = Event(n, "created")
    BY <1>1, <2>2
  <2> QED
    BY <2>3
<1>7. Mentions(p, n) <=> (Head(p).name = n \/ Mentions(t, n))
  BY <1>1, <1>2, <1>3 DEF Mentions, len
<1>8. Deletes(p) <=> (Head(p).kind = "deleted" \/ Deletes(t))
  <2>1. Deletes(p) => Head(p).kind = "deleted" \/ Deletes(t)
    BY <1>1, <1>2 DEF Deletes, len
  <2>2. Head(p).kind = "deleted" => Deletes(p)
    BY <1>1 DEF Deletes, len
  <2>3. Deletes(t) => Deletes(p)
    BY <1>1, <1>3 DEF Deletes, len
  <2> QED
    BY <2>1, <2>2, <2>3
<1>9. CreatesFirst(p, n) => CreatesFirst(t, n)
  BY <1>1, <1>3 DEF CreatesFirst, len
<1>10. CreatesFirst(p, n) /\ ~Deletes(p) /\ Head(p).name = n => ~Clears(t, n)
  <2> SUFFICES ASSUME CreatesFirst(p, n), ~Deletes(p), Head(p).name = n,
                      NEW i \in 1 .. len - 1, Forgets(t[i], n)
               PROVE  FALSE
    BY <1>1 DEF Clears
  <2>1. i + 1 \in 1 .. len /\ 1 \in 1 .. len /\ 1 < i + 1 /\ t[i] = p[i + 1] /\ p[i + 1] \in Events
    BY <1>1
  <2>2. p[i + 1] = Event(n, "created")
    BY <2>1, EventsAre DEF Deletes, Forgets, len
  <2> QED
    BY <1>1, <2>1, <2>2 DEF CreatesFirst, len
<1> QED
  BY <1>1, <1>4, <1>5, <1>6, <1>7, <1>8, <1>9, <1>10 DEF t

-----------------------------------------------------------------------------
(* Splitting what is read. *)

LineRecords == [line : 1 .. MaxPieces, whole : BOOLEAN]

Unfinished(partial) == \A i \in 1 .. Len(partial) : ~partial[i].ends

\* What Split works on.
Splits == [lines : Seq(LineRecords), partial : {p \in Seq(Parts) : Unfinished(p)}]

\* Pieces alternate, and the two pieces of a line are of that line.
IsLog(c) ==
  /\ c \in Seq(Parts)
  /\ \A i \in 1 .. Len(c) : c[i].ends <=> i % 2 = 0
  /\ \A i \in 1 .. Len(c) : i % 2 = 0 => c[i].line = c[i - 1].line

\* A piece keeps the types of what is emitted and what is left over.
LEMMA SplitTyped ==
  ASSUME NEW parts \in Splits, NEW piece \in Parts
  PROVE  Split(parts, piece) \in Splits
<1> DEFINE line == Append(parts.partial, piece)
<1>1. /\ parts.lines \in Seq(LineRecords) /\ parts.partial \in Seq(Parts)
      /\ Unfinished(parts.partial)
      /\ piece.line \in 1 .. MaxPieces /\ piece.ends \in BOOLEAN
  BY DEF Splits, Parts
<1>2. line \in Seq(Parts) /\ Len(line) >= 1
  BY <1>1
<1>3. line[1] \in Parts
  BY <1>2
<1>4. Received(line) \in LineRecords
  BY <1>3 DEF Received, LineRecords, Parts
<1>5. Emitted(parts.lines, line) \in Seq(LineRecords)
  BY <1>1, <1>4 DEF Emitted
<1>6. CASE piece.ends
  <2>1. <<>> \in {p \in Seq(Parts) : Unfinished(p)}
    BY DEF Unfinished
  <2> HIDE DEF line
  <2> QED
    BY <1>5, <1>6, <2>1 DEF Split, Splits, line
<1>7. CASE ~piece.ends
  <2>1. Unfinished(line)
    BY <1>1, <1>7 DEF Unfinished
  <2> QED
    BY <1>1, <1>2, <1>7, <2>1 DEF Split, Splits
<1> QED
  BY <1>1, <1>6, <1>7

\* FoldLeft goes through a sequence of intermediate results.
LEMMA SplitRuns ==
  ASSUME NEW chunk \in Seq(Parts), NEW start \in Splits
  PROVE  \E h \in [0 .. Len(chunk) -> Splits] :
           /\ h[0] = start
           /\ \A k \in 1 .. Len(chunk) : h[k] = Split(h[k - 1], chunk[k])
           /\ h[Len(chunk)] = FoldLeft(Split, start, chunk)
<1> DEFINE n == Len(chunk)
           g == [p \in Splits \X (1 .. n) |-> Split(p[1], chunk[p[2]])]
           Runs(it) == it = [t \in SUBSET DOMAIN chunk |->
                               IF t = {} THEN start ELSE Split(it[t \ {Max(t)}], chunk[Max(t)])]
           run == CHOOSE it : Runs(it)
           h == [k \in 0 .. n |-> run[1 .. k]]
<1>1. n \in Nat /\ DOMAIN chunk = 1 .. n /\ \A i \in 1 .. n : chunk[i] \in Parts
  OBVIOUS
<1>2. FoldLeft(Split, start, chunk) = run[DOMAIN chunk]
  BY Zenon DEF FoldLeft, MapThenFoldSet
<1>3. g \in [Splits \X (1 .. n) -> Splits]
  BY <1>1, SplitTyped
<1>4. PICK it : IsFold(it, Splits, start, n, g)
  <2>1. n \in Nat /\ start \in Splits
    OBVIOUS
  <2> HIDE DEF n, g
  <2> QED
    BY <1>3, <2>1, FoldExists
<1>5. \A t \in SUBSET (1 .. n) : t # {} => Max(t) \in t
  BY <1>1, MaxIn
<1>6. Runs(it)
  <2>1. ASSUME NEW t \in SUBSET (1 .. n)
        PROVE  it[t] = IF t = {} THEN start ELSE Split(it[t \ {Max(t)}], chunk[Max(t)])
    <3>1. CASE t = {}
      BY <1>4, <3>1 DEF IsFold
    <3>2. CASE t # {}
      <4>1. Max(t) \in 1 .. n /\ it[t \ {Max(t)}] \in Splits
        BY <1>4, <1>5, <3>2 DEF IsFold
      <4>2. g[it[t \ {Max(t)}], Max(t)] = Split(it[t \ {Max(t)}], chunk[Max(t)])
        BY <4>1
      <4> QED
        BY <1>4, <3>2, <4>2 DEF IsFold
    <3> QED
      BY <3>1, <3>2
  <2> QED
    BY <1>1, <1>4, <2>1 DEF IsFold
<1>7. Runs(run)
  BY <1>6
<1>8. h[0] = start
  <2>1. 1 .. 0 = {} /\ {} \in SUBSET DOMAIN chunk
    OBVIOUS
  <2>2. run[{}] = start
    BY <1>7, <2>1
  <2> QED
    BY <1>1, <2>1, <2>2
<1>9. ASSUME NEW k \in 1 .. n
      PROVE  h[k] = Split(h[k - 1], chunk[k])
  <2>1. /\ 1 .. k \in SUBSET (1 .. n) /\ k \in 1 .. k
        /\ (1 .. k) \ {k} = 1 .. k - 1 /\ k \in 0 .. n /\ k - 1 \in 0 .. n /\ k \in Nat
    BY <1>1
  <2>2. Max(1 .. k) = k
    BY <2>1, MaxIs
  <2>3. run[1 .. k] = Split(run[(1 .. k) \ {Max(1 .. k)}], chunk[Max(1 .. k)])
    BY <1>1, <1>7, <2>1
  <2> HIDE DEF n, run
  <2> QED
    BY <2>1, <2>2, <2>3
<1>10. h[n] = FoldLeft(Split, start, chunk)
  BY <1>1, <1>2
<1>11. \A k \in 0 .. n : h[k] \in Splits
  <2> DEFINE T == {k \in 0 .. n : h[k] \in Splits}
  <2>1. 0 \in T
    BY <1>1, <1>8
  <2>2. \A k \in 1 .. n : k - 1 \in T => k \in T
    <3> HIDE DEF h
    <3> QED
      BY <1>1, <1>9, SplitTyped
  <2>3. 0 .. n \subseteq T
    <3> HIDE DEF T
    <3> QED
      BY <1>1, <2>1, <2>2, Induction
  <2> QED
    BY <2>3
<1>12. h \in [0 .. n -> Splits]
  BY <1>11
<1> HIDE DEF h
<1> QED
  BY <1>8, <1>9, <1>10, <1>12

\* Whatever is read, what is emitted and what is left over have their types.
LEMMA SplitAllTyped ==
  ASSUME NEW chunk \in Seq(Parts), NEW start \in Splits
  PROVE  FoldLeft(Split, start, chunk) \in Splits
<1>1. PICK h \in [0 .. Len(chunk) -> Splits] : h[Len(chunk)] = FoldLeft(Split, start, chunk)
  BY SplitRuns
<1>2. Len(chunk) \in 0 .. Len(chunk)
  OBVIOUS
<1> QED
  BY <1>1, <1>2

\* The piece before an odd one ends a line, the one before an even one begins it.
LEMMA Halves ==
  ASSUME NEW p \in Nat \ {0}
  PROVE  /\ p \div 2 \in Nat
         /\ p % 2 = 1 => (p - 1) % 2 = 0 /\ (p - 1) \div 2 = p \div 2 /\ p = 2 * (p \div 2) + 1
         /\ p % 2 = 0 => /\ (p - 1) % 2 = 1 /\ (p - 1) \div 2 = p \div 2 - 1
                         /\ p = 2 * (p \div 2)
         /\ p % 2 = 0 \/ p % 2 = 1
OBVIOUS

\* Where a read from an offset with an unfinished line has come to at piece p.
FirstLine(offset, partial) ==
  IF partial = <<>> THEN (offset + 1) \div 2 ELSE offset \div 2

LeftOver(log, offset, partial, p) ==
  IF p % 2 = 0 THEN <<>> ELSE IF p = offset THEN partial ELSE <<log[p]>>

Reached(log, offset, partial, p) ==
  [lines |-> Lines(log, FirstLine(offset, partial), p \div 2),
   partial |-> LeftOver(log, offset, partial, p)]

\* Appending to nothing, and to one piece.
LEMMA AppendSmall ==
  ASSUME NEW e, NEW f
  PROVE  Append(<<>>, e) = <<e>> /\ Append(<<e>>, f) = <<e, f>>
<1>1. <<>> \in Seq({e}) /\ <<e>> \in Seq({e, f}) /\ Len(<<>>) = 0 /\ Len(<<e>>) = 1
  OBVIOUS
<1>2. /\ Append(<<>>, e) \in Seq({e}) /\ Len(Append(<<>>, e)) = 1 /\ Append(<<>>, e)[1] = e
  BY <1>1, AppendProperties
<1>3. /\ Append(<<e>>, f) \in Seq({e, f}) /\ Len(Append(<<e>>, f)) = 2
      /\ Append(<<e>>, f)[1] = e /\ Append(<<e>>, f)[2] = f
  BY <1>1, AppendProperties
<1>4. Append(<<>>, e) = <<e>>
  BY <1>2
<1>5. Append(<<e>>, f) = <<e, f>>
  <2>1. /\ <<e, f>> \in Seq({e, f}) /\ Len(<<e, f>>) = 2
        /\ <<e, f>>[1] = e /\ <<e, f>>[2] = f
    OBVIOUS
  <2>2. \A i \in 1 .. 2 : i = 1 \/ i = 2
    OBVIOUS
  <2>3. \A i \in 1 .. 2 : Append(<<e>>, f)[i] = <<e, f>>[i]
    BY <1>3, <2>1, <2>2
  <2> QED
    BY <1>3, <2>1, <2>3, SeqEqual
<1> QED
  BY <1>4, <1>5

\* The lines of a file up to one more line.
LEMMA OneMoreLine ==
  ASSUME NEW log, NEW from \in Nat, NEW to \in Nat, from < to
  PROVE  Lines(log, from, to) =
           Append(Lines(log, from, to - 1), [line |-> log[2 * to].line, whole |-> TRUE])
<1> DEFINE m == to - from
<1>1. m \in Nat \ {0} /\ from + m = to /\ (to - 1) - from = m - 1
  OBVIOUS
<1>2. /\ Lines(log, from, to) =
           [i \in 1 .. m |-> [line |-> log[2 * (from + i)].line, whole |-> TRUE]]
      /\ Lines(log, from, to - 1) =
           [i \in 1 .. m - 1 |-> [line |-> log[2 * (from + i)].line, whole |-> TRUE]]
  BY <1>1 DEF Lines
<1> DEFINE all == Lines(log, from, to)
           short == Lines(log, from, to - 1)
           new == [line |-> log[2 * to].line, whole |-> TRUE]
           S == {all[i] : i \in 1 .. m}
<1>3. all[m] = new /\ m \in 1 .. m
  BY <1>1, <1>2
<1> HIDE DEF all, short, m
<1>4. \A i \in 1 .. m - 1 : i \in 1 .. m /\ all[i] = short[i]
  <2> TAKE i \in 1 .. m - 1
  <2>1. i \in 1 .. m
    BY <1>1
  <2>2. all[i] = [line |-> log[2 * (from + i)].line, whole |-> TRUE]
    BY <1>2, <2>1 DEF all
  <2>3. short[i] = [line |-> log[2 * (from + i)].line, whole |-> TRUE]
    BY <1>2 DEF short
  <2> QED
    BY <2>1, <2>2, <2>3
<1>5. all \in Seq(S) /\ Len(all) = m
  <2>1. DOMAIN all = 1 .. m /\ all = [i \in 1 .. m |-> all[i]]
    BY <1>2 DEF all
  <2>2. all \in [1 .. m -> S]
    BY <2>1
  <2> QED
    BY <1>1, <2>2
<1>6. short \in Seq(S) /\ Len(short) = m - 1
  <2>1. DOMAIN short = 1 .. m - 1 /\ short = [i \in 1 .. m - 1 |-> short[i]]
    BY <1>2 DEF short
  <2>2. short \in [1 .. m - 1 -> S]
    BY <1>4, <2>1
  <2> QED
    BY <1>1, <2>2
<1>7. new \in S
  BY <1>3
<1> HIDE DEF m, all, short, new, S
<1>8. /\ Append(short, new) \in Seq(S) /\ Len(Append(short, new)) = m
      /\ \A i \in 1 .. m - 1 : Append(short, new)[i] = short[i]
      /\ Append(short, new)[m] = new
  BY <1>1, <1>6, <1>7, AppendProperties
<1>9. \A i \in 1 .. m : Append(short, new)[i] = all[i]
  BY <1>1, <1>3, <1>4, <1>8
<1>10. Append(short, new) = all
  BY <1>5, <1>8, <1>9, SeqEqual
<1> QED
  BY <1>10 DEF all, short, new

\* There are no lines from one on up to an earlier one.
LEMMA NoLines ==
  ASSUME NEW log, NEW from \in Nat, NEW to \in Nat, to <= from
  PROVE  Lines(log, from, to) = <<>>
BY DEF Lines

\* One more piece of a log, once a read has come to the piece before it.
LEMMA SplitsPiece ==
  ASSUME NEW log, IsLog(log), NEW offset \in 0 .. Len(log), NEW partial,
         \/ partial = <<>>
         \/ partial = <<log[offset]>> /\ offset % 2 = 1,
         NEW p \in offset + 1 .. Len(log)
  PROVE  Split(Reached(log, offset, partial, p - 1), log[p]) = Reached(log, offset, partial, p)
<1> DEFINE half == p \div 2
           from == FirstLine(offset, partial)
           before == LeftOver(log, offset, partial, p - 1)
           after == LeftOver(log, offset, partial, p)
           line == Append(before, log[p])
<1>1. /\ log \in Seq(Parts) /\ Len(log) \in Nat /\ offset \in Nat
      /\ \A i \in 1 .. Len(log) : log[i] \in Parts /\ (log[i].ends <=> i % 2 = 0)
      /\ \A i \in 1 .. Len(log) : i % 2 = 0 => log[i].line = log[i - 1].line
  BY DEF IsLog
<1>2. /\ p \in 1 .. Len(log) /\ p \in Nat \ {0} /\ p # offset /\ offset <= p - 1
      /\ (log[p].ends <=> p % 2 = 0)
  BY <1>1
<1>3. CASE p % 2 = 1
  <2>1. (p - 1) % 2 = 0 /\ (p - 1) \div 2 = half /\ p % 2 # 0
    BY <1>2, <1>3, Halves
  <2>2. before = <<>> /\ after = <<log[p]>> /\ ~log[p].ends
    BY <1>2, <2>1 DEF LeftOver
  <2>3. line = <<log[p]>>
    BY <2>2, AppendSmall
  <2>4. /\ Reached(log, offset, partial, p - 1) = [lines |-> Lines(log, from, half), partial |-> before]
        /\ Reached(log, offset, partial, p) = [lines |-> Lines(log, from, half), partial |-> after]
    BY <2>1 DEF Reached
  <2> HIDE DEF half, from, before, after
  <2> QED
    BY <2>2, <2>3, <2>4 DEF Split
<1>4. CASE p % 2 = 0
  <2>1. (p - 1) % 2 = 1 /\ (p - 1) \div 2 = half - 1 /\ p = 2 * half /\ half \in Nat \ {0}
    BY <1>2, <1>4, Halves
  <2>2. after = <<>> /\ log[p].ends
    BY <1>2, <1>4 DEF LeftOver
  <2>3. /\ Reached(log, offset, partial, p - 1) = [lines |-> Lines(log, from, half - 1), partial |-> before]
        /\ Reached(log, offset, partial, p) = [lines |-> Lines(log, from, half), partial |-> after]
    BY <2>1 DEF Reached
  <2>4. CASE p - 1 = offset /\ partial = <<>>
    <3>1. before = <<>>
      BY <2>1, <2>4 DEF LeftOver
    <3>2. line = <<log[p]>>
      BY <3>1, AppendSmall
    <3>3. ~IsValid(line)
      BY <2>2, <3>2 DEF IsValid
    <3>4. from = half
      BY <1>2, <2>4 DEF FirstLine
    <3>5. Lines(log, from, half - 1) = <<>> /\ Lines(log, from, half) = <<>>
      BY <2>1, <3>4, NoLines
    <3> HIDE DEF half, from, before, after
    <3> QED
      BY <2>2, <2>3, <3>3, <3>5 DEF Split, Emitted
  <2>5. CASE ~(p - 1 = offset /\ partial = <<>>)
    <3>1. before = <<log[p - 1]>>
      BY <2>1, <2>5 DEF LeftOver
    <3>2. p - 1 \in 1 .. Len(log) /\ ~log[p - 1].ends /\ log[p].line = log[p - 1].line
      <4>1. p - 1 \in 1 .. Len(log) /\ (p - 1) % 2 # 0
        BY <1>2, <2>1
      <4> QED
        BY <1>1, <1>2, <1>4, <4>1
    <3>3. line = <<log[p - 1], log[p]>>
      BY <3>1, AppendSmall
    <3>4. IsValid(line) /\ Received(line) = [line |-> log[p].line, whole |-> TRUE]
      <4> HIDE DEF line
      <4>1. Len(line) = 2 /\ line[1] = log[p - 1] /\ line[2] = log[p]
        BY <3>3
      <4> QED
        BY <3>2, <4>1 DEF IsValid, Received
    <3>5. from \in Nat /\ from < half
      <4>1. CASE partial = <<>>
        <5>1. offset < p - 1 /\ from = (offset + 1) \div 2
          BY <1>1, <1>2, <2>5, <4>1 DEF FirstLine
        <5> QED
          BY <1>1, <1>2, <2>1, <5>1
      <4>2. CASE partial # <<>>
        <5>1. offset % 2 = 1 /\ from = offset \div 2
          BY <4>2 DEF FirstLine
        <5> QED
          BY <1>1, <1>2, <2>1, <5>1
      <4> QED
        BY <4>1, <4>2
    <3>6. Lines(log, from, half) =
            Append(Lines(log, from, half - 1), [line |-> log[p].line, whole |-> TRUE])
      <4> HIDE DEF half, from
      <4> QED
        BY <2>1, <3>5, OneMoreLine
    <3> HIDE DEF half, from, before, after
    <3>7. Split(Reached(log, offset, partial, p - 1), log[p])
            = [lines |-> Emitted(Lines(log, from, half - 1), line), partial |-> <<>>]
      BY <2>2, <2>3 DEF Split
    <3>8. Emitted(Lines(log, from, half - 1), line) = Lines(log, from, half)
      BY <3>4, <3>6 DEF Emitted
    <3> QED
      BY <2>2, <2>3, <3>7, <3>8
  <2> QED
    BY <2>4, <2>5
<1> QED
  BY <1>2, <1>3, <1>4, Halves

\* Reading a log from an offset, with the unfinished line before it, emits
\* the lines from the next one on, and leaves the line that is unfinished now.
LEMMA SplitsLog ==
  ASSUME NEW log, IsLog(log), NEW offset \in 0 .. Len(log), NEW partial,
         \/ partial = <<>>
         \/ partial = <<log[offset]>> /\ offset % 2 = 1
  PROVE  FoldLeft(Split, [lines |-> <<>>, partial |-> partial],
                  SubSeq(log, offset + 1, Len(log))) = Reached(log, offset, partial, Len(log))
<1> DEFINE chunk == SubSeq(log, offset + 1, Len(log))
           start == [lines |-> <<>>, partial |-> partial]
           n == Len(chunk)
<1>1. /\ log \in Seq(Parts) /\ Len(log) \in Nat /\ offset \in Nat
      /\ \A i \in 1 .. Len(log) : log[i] \in Parts /\ (log[i].ends <=> i % 2 = 0)
  BY DEF IsLog
<1>2. /\ chunk \in Seq(Parts) /\ n = Len(log) - offset /\ n \in Nat /\ n \in 0 .. n
      /\ \A k \in 1 .. n : chunk[k] = log[offset + k] /\ offset + k \in offset + 1 .. Len(log)
      /\ offset + n = Len(log)
  BY <1>1
<1>3. partial \in Seq(Parts) /\ Unfinished(partial)
  <2>1. CASE partial = <<>>
    BY <2>1 DEF Unfinished
  <2>2. CASE partial = <<log[offset]>> /\ offset % 2 = 1
    <3>1. offset \in 1 .. Len(log)
      BY <1>1, <2>2
    <3> QED
      BY <1>1, <2>2, <3>1 DEF Unfinished
  <2> QED
    BY <2>1, <2>2
<1>4. start \in Splits
  BY <1>3 DEF Splits
<1>5. PICK h \in [0 .. n -> Splits] :
        /\ h[0] = start
        /\ \A k \in 1 .. n : h[k] = Split(h[k - 1], chunk[k])
        /\ h[n] = FoldLeft(Split, start, chunk)
  <2> HIDE DEF start, chunk
  <2> QED
    BY <1>2, <1>4, SplitRuns
<1> DEFINE T == {k \in 0 .. n : h[k] = Reached(log, offset, partial, offset + k)}
<1>6. 0 \in T
  <2>1. FirstLine(offset, partial) \in Nat /\ offset \div 2 <= FirstLine(offset, partial)
    BY <1>1 DEF FirstLine
  <2>2. Lines(log, FirstLine(offset, partial), offset \div 2) = <<>>
    BY <1>1, <2>1, NoLines
  <2>3. LeftOver(log, offset, partial, offset) = partial
    BY <1>1 DEF LeftOver
  <2>4. offset + 0 = offset /\ 0 \in 0 .. n
    BY <1>1, <1>2
  <2> QED
    BY <1>5, <2>2, <2>3, <2>4 DEF Reached
<1>7. ASSUME NEW k \in 1 .. n, k - 1 \in T
      PROVE  k \in T
  <2>1. /\ offset + (k - 1) = (offset + k) - 1 /\ k \in 0 .. n
        /\ h[k - 1] = Reached(log, offset, partial, offset + (k - 1))
        /\ h[k] = Split(h[k - 1], log[offset + k])
        /\ offset + k \in offset + 1 .. Len(log)
    BY <1>1, <1>2, <1>5, <1>7
  <2>2. Split(Reached(log, offset, partial, (offset + k) - 1), log[offset + k])
          = Reached(log, offset, partial, offset + k)
    BY <2>1, SplitsPiece
  <2> QED
    BY <2>1, <2>2
<1>8. 0 .. n \subseteq T
  <2> HIDE DEF T
  <2> QED
    BY <1>2, <1>6, <1>7, Induction
<1>9. h[n] = Reached(log, offset, partial, offset + n)
  BY <1>2, <1>8
<1> HIDE DEF n, chunk, start
<1> QED
  BY <1>2, <1>5, <1>9 DEF chunk, start

-----------------------------------------------------------------------------
(* The invariant. *)

\* The events still to be handled.
Pending == batch \o queue

Scanned(n) == phase \in {"scanning", "running"} /\ n \notin unscanned

Started(n) == (base[n] + 1) \div 2

Types ==
  /\ phase \in {"off", "watching", "scanning", "running"}
  /\ unscanned \subseteq Names
  /\ queue \in Seq(Events) /\ batch \in Seq(Events)
  /\ overflowed \in BOOLEAN
  /\ pieces \in 0 .. MaxPieces
  /\ replaced \in 0 .. MaxReplaced
  /\ disk \in [Names -> {None} \cup Seq(Parts)]
  /\ files \in [Names -> {None} \cup Entry]
  /\ \A n \in Names : files[n] # None => Unfinished(files[n].partial)
  /\ delivered \in [Names -> Seq(LineRecords)]
  /\ base \in [Names -> Nat]

Phases ==
  /\ phase # "running" => batch = <<>>
  /\ phase = "off" => queue = <<>>
  /\ phase = "running" => unscanned = {}

\* No event was lost that drops an entry.
Told == replaced = 0 \/ ~overflowed

Log(n) == disk[n] # None =>
  IsLog(disk[n]) /\ Len(disk[n]) <= pieces /\ base[n] <= Len(disk[n])

\* A log that is there was created after it was last deleted.
CreatedLast(n) == Told /\ disk[n] # None => Recreates(Pending, n)

\* m_files holds an entry of the log that is there now.
Current(n) ==
  Told /\ Scanned(n) /\ disk[n] # None /\ ~Clears(Pending, n) /\ files[n] # None

\* An entry is right about its log.
Fits(file, log, start) ==
  /\ file.offset \in start .. Len(log)
  /\ \/ file.partial = <<>> /\ (file.offset % 2 = 0 \/ file.offset = start)
     \/ file.partial = <<log[file.offset]>> /\ file.offset % 2 = 1

EntryFits(n) == Current(n) => Fits(files[n], disk[n], base[n])

\* What was read of a log was delivered.
Delivers(seen, log, from, to) ==
  \A j \in from + 1 .. to : [line |-> log[2 * j].line, whole |-> TRUE] \in Range(seen)

ReadIsDelivered(n) ==
  Current(n) => Delivers(delivered[n], disk[n], Started(n), files[n].offset \div 2)

\* Nothing of a log has to be read: no more is there than when tailing began, or
\* it was renamed and not written to since.
OwesNothing(n) == Len(disk[n]) = base[n] \/ n \in moved

\* What was not read of it will be.
RestWillBeRead(n) ==
  ~overflowed /\ phase # "off" /\ disk[n] # None =>
    \/ Reads(Pending, n)
    \/ Clears(Pending, n) /\ OwesNothing(n)
    \/ /\ ~Clears(Pending, n)
       /\ Scanned(n) => IF files[n] = None THEN OwesNothing(n)
                        ELSE files[n].offset = Len(disk[n])

\* Nothing was heard of a log, or read of it.
Untouched(n) ==
  delivered[n] = <<>> /\ files[n] = None /\ ~Mentions(Pending, n) /\ n \notin unscanned

ReadSoFar(n) ==
  IF files[n] = None THEN base[n] = 0 /\ delivered[n] = <<>>
  ELSE /\ delivered[n] = Lines(disk[n], Started(n), files[n].offset \div 2)
       /\ files[n].partial # <<>> => base[n] < files[n].offset

\* Without deletions and moves, logs are read once.
ReadOnce(n) ==
  replaced = 0 =>
    /\ CreatesFirst(Pending, n)
    /\ disk[n] = None => Untouched(n)
    /\ Clears(Pending, n) => delivered[n] = <<>> /\ base[n] = 0
    /\ phase # "running" => delivered[n] = <<>>
    /\ disk[n] # None /\ Scanned(n) /\ ~Clears(Pending, n) => ReadSoFar(n)

NoDeletions == replaced = 0 => ~Deletes(Pending)

Safe(n) ==
  /\ Log(n) /\ CreatedLast(n) /\ EntryFits(n)
  /\ ReadIsDelivered(n) /\ RestWillBeRead(n) /\ ReadOnce(n)

IInv == Types /\ Phases /\ NoDeletions /\ \A n \in Names : Safe(n)

\* Nothing changed about n in what is pending.
SameFor(q, p, n) ==
  /\ Clears(q, n) <=> Clears(p, n)
  /\ Reads(q, n) <=> Reads(p, n)
  /\ Recreates(p, n) => Recreates(q, n)
  /\ Mentions(q, n) => Mentions(p, n)
  /\ CreatesFirst(p, n) => CreatesFirst(q, n)

\* A log that a step does nothing to, and no event of which it queues or handles,
\* stays safe.
LEMMA Unaffected ==
  ASSUME NEW n \in Names, Safe(n), Types, Types', SameFor(Pending', Pending, n),
         disk'[n] = disk[n], files'[n] = files[n], delivered'[n] = delivered[n],
         base'[n] = base[n], n \in moved => n \in moved', pieces <= pieces',
         phase' # "off" => phase # "off", phase' # "running" => phase # "running",
         Scanned(n)' => Scanned(n), n \in unscanned' => n \in unscanned,
         overflowed => overflowed', replaced' = 0 => replaced = 0
  PROVE  Safe(n)'
<1>1. Told' => Told
  BY DEF Told
<1>2. Started(n)' = Started(n)
  BY DEF Started
<1>3. Current(n)' => Current(n)
  BY <1>1 DEF Current, SameFor
<1>4. Log(n)'
  <2> SUFFICES ASSUME disk'[n] # None
               PROVE  IsLog(disk'[n]) /\ Len(disk'[n]) <= pieces' /\ base'[n] <= Len(disk'[n])
    BY DEF Log
  <2>1. IsLog(disk[n]) /\ Len(disk[n]) <= pieces /\ base[n] <= Len(disk[n])
    BY DEF Safe, Log
  <2>2. Len(disk[n]) \in Nat /\ pieces \in Nat /\ pieces' \in Nat
    BY <2>1 DEF IsLog, Types
  <2> QED
    BY <2>1, <2>2
<1>5. CreatedLast(n)'
  BY <1>1 DEF CreatedLast, Safe, SameFor
<1>6. EntryFits(n)'
  BY <1>3 DEF EntryFits, Safe
<1>7. ReadIsDelivered(n)'
  BY <1>2, <1>3 DEF ReadIsDelivered, Safe
<1>8. RestWillBeRead(n)'
  BY DEF RestWillBeRead, OwesNothing, Safe, SameFor
<1>9. ReadOnce(n)'
  <2>1. Untouched(n) => Untouched(n)'
    BY DEF Untouched, SameFor
  <2>2. ReadSoFar(n) => ReadSoFar(n)'
    BY <1>2 DEF ReadSoFar
  <2> QED
    BY <2>1, <2>2 DEF ReadOnce, Safe, SameFor
<1> QED
  BY <1>4, <1>5, <1>6, <1>7, <1>8, <1>9 DEF Safe

\* What is pending did not change.
LEMMA SamePending ==
  ASSUME NEW n, Pending' = Pending
  PROVE  SameFor(Pending', Pending, n)
BY DEF SameFor

\* Nothing is pending.
LEMMA NothingPending ==
  ASSUME NEW n
  PROVE  /\ ~Clears(<<>>, n) /\ ~Reads(<<>>, n) /\ Recreates(<<>>, n) /\ ~Mentions(<<>>, n)
         /\ CreatesFirst(<<>>, n) /\ ~Deletes(<<>>)
BY DEF Clears, Reads, Recreates, Mentions, CreatesFirst, Deletes

\* Pending events are events.
LEMMA PendingIs ==
  ASSUME Types
  PROVE  /\ Pending \in Seq(Events)
         /\ batch = <<>> => Pending = queue
         /\ queue = <<>> => Pending = batch
BY DEF Types, Pending

\* What the kernel does with an event, behind what was read of its queue.
LEMMA QueuedIs ==
  ASSUME NEW b \in Seq(Events), NEW k \in [queue : Seq(Events), overflowed : BOOLEAN],
         NEW e \in Events
  PROVE  /\ Queued(k, e) \in [queue : Seq(Events), overflowed : BOOLEAN]
         /\ k.overflowed => Queued(k, e).overflowed
         /\ \/ Follows(b \o Queued(k, e).queue, b \o k.queue, e)
            \/ Queued(k, e).overflowed /\ Queued(k, e).queue = k.queue
<1>1. CASE Merged(k.queue, e)
  <2>1. Queued(k, e) = k
    BY <1>1 DEF Queued
  <2>2. k.queue # <<>> /\ k.queue[Len(k.queue)] = e /\ k.queue \in Seq(Events)
    BY <1>1 DEF Merged, Last
  <2>3. b \o k.queue # <<>> /\ (b \o k.queue)[Len(b \o k.queue)] = e
    BY <2>2
  <2> QED
    BY <2>1, <2>3 DEF Follows
<1>2. CASE ~Merged(k.queue, e) /\ Len(k.queue) >= QueueMax
  <2>1. Queued(k, e) = [k EXCEPT !.overflowed = TRUE]
    BY <1>2 DEF Queued
  <2> QED
    BY <2>1
<1>3. CASE ~Merged(k.queue, e) /\ ~(Len(k.queue) >= QueueMax)
  <2>1. Queued(k, e) = [k EXCEPT !.queue = Append(@, e)]
    BY <1>3 DEF Queued
  <2>2. b \o Append(k.queue, e) = Append(b \o k.queue, e) /\ Append(k.queue, e) \in Seq(Events)
    OBVIOUS
  <2>3. /\ Queued(k, e).queue = Append(k.queue, e) /\ Queued(k, e).overflowed = k.overflowed
        /\ Queued(k, e) \in [queue : Seq(Events), overflowed : BOOLEAN]
    BY <2>1, <2>2
  <2> QED
    BY <2>2, <2>3 DEF Follows
<1> QED
  BY <1>1, <1>2, <1>3

\* What notifying the kernel of one event does.
LEMMA Notified ==
  ASSUME Types, Phases, NEW e \in Events, Notify(Queued(Kernel, e)),
         phase' = phase, batch' = batch
  PROVE  /\ queue' \in Seq(Events) /\ overflowed' \in BOOLEAN /\ (overflowed => overflowed')
         /\ phase = "off" => queue' = <<>> /\ Pending' = <<>> /\ Pending = <<>>
         /\ phase # "off" => \/ Follows(Pending', Pending, e)
                             \/ overflowed' /\ Pending' = Pending
<1>1. queue \in Seq(Events) /\ batch \in Seq(Events) /\ overflowed \in BOOLEAN
  BY DEF Types
<1>2. CASE phase = "off"
  <2>1. queue = <<>> /\ batch = <<>> /\ queue' = queue /\ overflowed' = overflowed
    BY <1>2 DEF Phases, Notify
  <2> QED
    BY <1>1, <1>2, <2>1 DEF Pending
<1>3. CASE phase # "off"
  <2> DEFINE k == Queued(Kernel, e)
  <2>1. queue' = k.queue /\ overflowed' = k.overflowed
    BY <1>3 DEF Notify
  <2>2. /\ Kernel \in [queue : Seq(Events), overflowed : BOOLEAN]
        /\ Kernel.queue = queue /\ Kernel.overflowed = overflowed
    BY <1>1 DEF Kernel
  <2> HIDE DEF k
  <2>3. /\ k \in [queue : Seq(Events), overflowed : BOOLEAN]
        /\ overflowed => k.overflowed
        /\ \/ Follows(batch \o k.queue, batch \o queue, e)
           \/ k.overflowed /\ k.queue = queue
    BY <1>1, <2>2, QueuedIs DEF k
  <2> QED
    BY <1>1, <1>3, <2>1, <2>3 DEF Pending
<1> QED
  BY <1>2, <1>3

-----------------------------------------------------------------------------
(* Starting. *)

\* The invariant holds before the daemon starts.
LEMMA InitSafe == Init => IInv
<1> SUFFICES ASSUME Init PROVE IInv
  OBVIOUS
<1> USE WatcherAssumption, NoneAssumption
<1>1. Types
  <2>1. <<>> \in Seq(Events) /\ <<>> \in Seq(Parts) /\ <<>> \in Seq(LineRecords)
    OBVIOUS
  <2>2. disk \in [Names -> {None} \cup Seq(Parts)] /\ files \in [Names -> {None} \cup Entry]
    BY <2>1 DEF Init
  <2>3. \A n \in Names : files[n] # None => Unfinished(files[n].partial)
    BY DEF Init
  <2>4. delivered \in [Names -> Seq(LineRecords)] /\ base \in [Names -> Nat]
    BY <2>1 DEF Init
  <2>5. pieces \in 0 .. MaxPieces /\ replaced \in 0 .. MaxReplaced
    BY DEF Init
  <2>6. queue \in Seq(Events) /\ batch \in Seq(Events)
    BY <2>1 DEF Init
  <2> QED
    BY <2>2, <2>3, <2>4, <2>5, <2>6 DEF Init, Types
<1>2. Phases
  BY DEF Init, Phases
<1>3. Pending = <<>>
  BY DEF Init, Pending
<1>4. NoDeletions
  BY <1>3, NothingPending DEF NoDeletions
<1>5. ASSUME NEW n \in Names PROVE Safe(n)
  <2>1. ~Scanned(n)
    BY DEF Init, Scanned
  <2>2. Log(n)
    <3> SUFFICES ASSUME disk[n] # None
                 PROVE  IsLog(disk[n]) /\ Len(disk[n]) <= pieces /\ base[n] <= Len(disk[n])
      BY DEF Log
    <3>1. disk[n] = <<>> /\ pieces = 0 /\ base[n] = 0
      BY DEF Init
    <3>2. Len(<<>>) = 0 /\ IsLog(<<>>)
      BY DEF IsLog
    <3> QED
      BY <3>1, <3>2
  <2>3. CreatedLast(n)
    BY <1>3, NothingPending DEF CreatedLast
  <2>4. EntryFits(n) /\ ReadIsDelivered(n)
    BY <2>1 DEF EntryFits, ReadIsDelivered, Current
  <2>5. RestWillBeRead(n)
    BY DEF RestWillBeRead, Init
  <2>6. ReadOnce(n)
    BY <1>3, <2>1, NothingPending DEF ReadOnce, Init, Untouched
  <2> QED
    BY <2>2, <2>3, <2>4, <2>5, <2>6 DEF Safe
<1> QED
  BY <1>1, <1>2, <1>4, <1>5 DEF IInv

\* Nothing changes.
LEMMA StutterSafe == IInv /\ UNCHANGED vars => IInv'
<1> SUFFICES ASSUME IInv, UNCHANGED vars PROVE IInv'
  OBVIOUS
<1> USE DEF vars, daemonVars
<1>1. Types' /\ Phases'
  BY DEF IInv, Types, Phases
<1>2. Pending' = Pending
  BY DEF Pending
<1>3. NoDeletions'
  BY <1>2 DEF IInv, NoDeletions
<1>4. ASSUME NEW n \in Names PROVE Safe(n)'
  <2>1. pieces <= pieces' /\ (Scanned(n)' => Scanned(n))
    BY DEF IInv, Types, Scanned
  <2> QED
    BY <1>1, <1>2, <2>1, SamePending, Unaffected DEF IInv
<1> QED
  BY <1>1, <1>3, <1>4 DEF IInv

\* Nothing is pending when the watch is put in place.
LEMMA StartWatchSafe == IInv /\ StartWatch => IInv'
<1> SUFFICES ASSUME IInv, StartWatch PROVE IInv'
  OBVIOUS
<1>1. Types' /\ Phases'
  BY DEF IInv, Types, Phases, StartWatch
<1>2. Pending' = <<>> /\ Pending = <<>>
  BY DEF IInv, Types, Phases, StartWatch, Pending
<1>3. NoDeletions'
  BY <1>2, NothingPending DEF NoDeletions
<1>4. ASSUME NEW n \in Names PROVE Safe(n)'
  <2>1. ~Scanned(n)' /\ ~Current(n)'
    BY DEF StartWatch, Scanned, Current
  <2>2. Log(n)'
    BY DEF IInv, Safe, Log, StartWatch
  <2>3. CreatedLast(n)'
    BY <1>2, NothingPending DEF CreatedLast
  <2>4. EntryFits(n)' /\ ReadIsDelivered(n)'
    BY <2>1 DEF EntryFits, ReadIsDelivered
  <2>5. RestWillBeRead(n)'
    BY <1>2, <2>1, NothingPending DEF RestWillBeRead
  <2>6. ReadOnce(n)'
    BY <1>2, <2>1, NothingPending DEF IInv, Safe, ReadOnce, StartWatch, Untouched
  <2> QED
    BY <2>2, <2>3, <2>4, <2>5, <2>6 DEF Safe
<1> QED
  BY <1>1, <1>3, <1>4 DEF IInv

\* What was created since the watch is in the list or not there.
LEMMA ListFilesSafe == IInv /\ ListFiles => IInv'
<1> SUFFICES ASSUME IInv, ListFiles PROVE IInv'
  OBVIOUS
<1>1. Types' /\ Phases'
  BY DEF IInv, Types, Phases, ListFiles
<1>2. Pending' = Pending
  BY DEF ListFiles, Pending
<1>3. NoDeletions'
  BY <1>2 DEF IInv, NoDeletions, ListFiles
<1>4. ASSUME NEW n \in Names PROVE Safe(n)'
  <2>1. disk'[n] # None => n \in unscanned' /\ ~Scanned(n)'
    BY DEF ListFiles, Scanned
  <2>2. Log(n)'
    BY DEF IInv, Safe, Log, ListFiles
  <2>3. CreatedLast(n)'
    BY <1>2 DEF IInv, Safe, CreatedLast, ListFiles, Told
  <2>4. EntryFits(n)' /\ ReadIsDelivered(n)'
    BY <2>1 DEF EntryFits, ReadIsDelivered, Current
  <2>5. RestWillBeRead(n)'
    <3>1. RestWillBeRead(n)
      BY DEF IInv, Safe
    <3> QED
      BY <1>2, <2>1, <3>1 DEF RestWillBeRead, OwesNothing, ListFiles
  <2>6. ReadOnce(n)'
    BY <1>2, <2>1 DEF IInv, Safe, ReadOnce, ListFiles, Untouched
  <2> QED
    BY <2>2, <2>3, <2>4, <2>5, <2>6 DEF Safe
<1> QED
  BY <1>1, <1>3, <1>4 DEF IInv

\* Every file in the list was scanned.
LEMMA StartDoneSafe == IInv /\ StartDone => IInv'
<1> SUFFICES ASSUME IInv, StartDone PROVE IInv'
  OBVIOUS
<1>1. Types' /\ Phases'
  BY DEF IInv, Types, Phases, StartDone
<1>2. Pending' = Pending
  BY DEF StartDone, Pending
<1>3. NoDeletions'
  BY <1>2 DEF IInv, NoDeletions, StartDone
<1>4. ASSUME NEW n \in Names PROVE Safe(n)'
  <2>1. pieces <= pieces' /\ (Scanned(n)' => Scanned(n))
    BY DEF IInv, Types, Scanned, StartDone
  <2> QED
    BY <1>1, <1>2, <2>1, SamePending, Unaffected DEF IInv, StartDone
<1> QED
  BY <1>1, <1>3, <1>4 DEF IInv

\* Draining the queue leaves what is pending as it is.
LEMMA OnReadyReadSafe == IInv /\ OnReadyRead => IInv'
<1> SUFFICES ASSUME IInv, OnReadyRead PROVE IInv'
  OBVIOUS
<1>1. Types' /\ Phases'
  BY DEF IInv, Types, Phases, OnReadyRead
<1>2. Pending' = Pending
  BY DEF OnReadyRead, Pending, IInv, Types
<1>3. NoDeletions'
  BY <1>2 DEF IInv, NoDeletions, OnReadyRead
<1>4. ASSUME NEW n \in Names PROVE Safe(n)'
  <2>1. pieces <= pieces' /\ (Scanned(n)' => Scanned(n))
    BY DEF IInv, Types, Scanned, OnReadyRead
  <2> QED
    BY <1>1, <1>2, <2>1, SamePending, Unaffected DEF IInv, OnReadyRead
<1> QED
  BY <1>1, <1>3, <1>4 DEF IInv

\* The size taken of a log counts as read, unless its creation is pending.
LEMMA ScanFileSafe == ASSUME IInv, NEW n \in Names, ScanFile(n) PROVE IInv'
<1> DEFINE size == IF disk[n] = None THEN 0 ELSE Len(disk[n])
           entry == [offset |-> size, partial |-> <<>>]
           created == Event(n, "created") \in Range(queue)
<1>1. /\ files' = [files EXCEPT ![n] = entry]
      /\ base' = IF created THEN base ELSE [base EXCEPT ![n] = size]
      /\ unscanned' = unscanned \ {n} /\ n \in unscanned /\ phase = "scanning"
      /\ UNCHANGED <<disk, queue, overflowed, phase, batch, delivered, moved, pieces, replaced>>
  BY DEF ScanFile
<1>2. Types /\ Phases /\ Safe(n) /\ NoDeletions
  BY DEF IInv
<1>3. size \in 0 .. MaxPieces
  BY <1>2, WatcherAssumption DEF Types, Safe, Log, IsLog
<1>4. entry \in Entry /\ entry # None /\ Unfinished(entry.partial)
  <2> HIDE DEF size
  <2>1. entry \in Entry
    BY <1>3 DEF Entry
  <2>2. entry # None
    BY <2>1, NoneAssumption
  <2> QED
    BY <2>1, <2>2 DEF Unfinished
<1>5. Types' /\ Phases'
  <2>1. base' \in [Names -> Nat] /\ files' \in [Names -> {None} \cup Entry]
    BY <1>1, <1>2, <1>3, <1>4 DEF Types
  <2>2. \A k \in Names : files'[k] # None => Unfinished(files'[k].partial)
    <3> HIDE DEF entry
    <3> QED
      BY <1>1, <1>2, <1>4 DEF Types
  <2>3. unscanned' \subseteq Names
    BY <1>1, <1>2 DEF Types
  <2> HIDE DEF size, entry, created
  <2> QED
    BY <1>1, <1>2, <2>1, <2>2, <2>3 DEF Types, Phases
<1>6. Pending' = Pending /\ Pending = queue /\ Pending \in Seq(Events)
  BY <1>1, <1>2, PendingIs DEF Pending, Phases
<1>7. NoDeletions'
  BY <1>1, <1>2, <1>6 DEF NoDeletions
<1>8. ASSUME NEW k \in Names, k # n PROVE Safe(k)'
  <2>1. /\ disk'[k] = disk[k] /\ files'[k] = files[k] /\ delivered'[k] = delivered[k]
        /\ base'[k] = base[k] /\ pieces <= pieces' /\ (k \in unscanned' => k \in unscanned)
    BY <1>1, <1>2, <1>8 DEF Types
  <2>2. Scanned(k)' => Scanned(k)
    BY <1>1, <1>8 DEF Scanned
  <2> HIDE DEF size, entry, created
  <2> QED
    BY <1>1, <1>2, <1>5, <1>6, <2>1, <2>2, SamePending, Unaffected DEF IInv
<1>9. files'[n] = entry /\ base'[n] = IF created THEN base[n] ELSE size
  BY <1>1, <1>2 DEF Types
<1>10. CASE created
  <2>1. Clears(Pending, n)
    <3>1. PICK i \in 1 .. Len(queue) : queue[i] = Event(n, "created")
      <4>1. queue \in Seq(Events)
        BY <1>2 DEF Types
      <4> QED
        BY <1>10, <4>1, RangeOfSeq, RangeEquality
    <3> QED
      BY <1>6, <3>1 DEF Clears, Forgets, Event
  <2>2. ~Current(n)' /\ base'[n] = base[n]
    BY <1>6, <1>9, <1>10, <2>1 DEF Current
  <2>3. Log(n)'
    BY <1>1, <1>2, <2>2 DEF Safe, Log
  <2>4. CreatedLast(n)'
    BY <1>1, <1>2, <1>6 DEF Safe, CreatedLast, Told
  <2>5. EntryFits(n)' /\ ReadIsDelivered(n)'
    BY <2>2 DEF EntryFits, ReadIsDelivered
  <2>6. RestWillBeRead(n)'
    BY <1>1, <1>2, <1>6, <2>1, <2>2 DEF Safe, RestWillBeRead, OwesNothing
  <2>7. ReadOnce(n)'
    <3>1. replaced = 0 => disk[n] # None
      BY <1>1, <1>2 DEF Safe, ReadOnce, Untouched
    <3> QED
      BY <1>1, <1>2, <1>6, <2>1, <2>2, <3>1 DEF Safe, ReadOnce
  <2>8. Safe(n)'
    BY <2>3, <2>4, <2>5, <2>6, <2>7 DEF Safe
  <2> QED
    BY <1>5, <1>7, <1>8, <2>8 DEF IInv
<1>11. CASE ~created
  <2>1. Told /\ disk[n] # None => ~Clears(Pending, n)
    <3> SUFFICES ASSUME Told, disk[n] # None, NEW i \in 1 .. Len(queue), Forgets(queue[i], n)
                 PROVE  FALSE
      BY <1>6 DEF Clears
    <3>1. Recreates(queue, n)
      BY <1>2, <1>6 DEF Safe, CreatedLast
    <3>2. queue[i] \in Events
      BY <1>2 DEF Types
    <3>3. queue[i] = Event(n, "created") \/ queue[i] = Event(n, "deleted")
      BY <3>2, EventsAre DEF Forgets
    <3>4. \E j \in 1 .. Len(queue) : queue[j] = Event(n, "created")
      <4>1. CASE queue[i] = Event(n, "deleted")
        <5>1. PICK j \in i + 1 .. Len(queue) : queue[j] = Event(n, "created")
          BY <3>1, <4>1 DEF Recreates
        <5>2. j \in 1 .. Len(queue)
          BY <1>2 DEF Types
        <5> QED
          BY <5>1, <5>2
      <4> QED
        BY <3>3, <4>1
    <3> QED
      BY <1>2, <1>11, <3>4 DEF Types, Range
  <2>2. base'[n] = size /\ Started(n)' = (size + 1) \div 2
    BY <1>9, <1>11 DEF Started
  <2>3. disk[n] # None => size = Len(disk[n])
    OBVIOUS
  <2>4. Log(n)'
    BY <1>1, <1>2, <1>3, <2>2, <2>3 DEF Safe, Log
  <2>5. CreatedLast(n)'
    BY <1>1, <1>2, <1>6 DEF Safe, CreatedLast, Told
  <2>6. EntryFits(n)'
    <3> SUFFICES ASSUME disk[n] # None PROVE Fits(entry, disk[n], size)
      BY <1>1, <1>9, <2>2 DEF EntryFits, Current
    <3> QED
      BY <1>3, <2>3 DEF Fits
  <2>7. ReadIsDelivered(n)'
    <3> HIDE DEF size
    <3>1. (size + 1) \div 2 + 1 .. size \div 2 = {}
      BY <1>3
    <3> QED
      BY <1>9, <2>2, <3>1 DEF ReadIsDelivered, Delivers
  <2>8. RestWillBeRead(n)'
    BY <1>1, <1>4, <1>6, <1>9, <2>1, <2>3 DEF RestWillBeRead, OwesNothing, Told
  <2>9. ReadOnce(n)'
    <3>1. Lines(disk[n], (size + 1) \div 2, size \div 2) = <<>>
      <4> HIDE DEF size
      <4>1. size \div 2 \in Nat /\ (size + 1) \div 2 \in Nat /\ size \div 2 <= (size + 1) \div 2
        BY <1>3
      <4> QED
        BY <4>1, NoLines
    <3>2. replaced = 0 => disk[n] # None /\ delivered[n] = <<>> /\ CreatesFirst(Pending, n)
      BY <1>1, <1>2 DEF Safe, ReadOnce, Untouched
    <3>3. replaced = 0 => ~Clears(Pending, n)
      BY <2>1, <3>2 DEF Told
    <3>4. replaced = 0 => ReadSoFar(n)'
      <4> SUFFICES ASSUME replaced = 0 PROVE ReadSoFar(n)'
        OBVIOUS
      <4>1. files'[n] # None /\ files'[n].offset = size /\ files'[n].partial = <<>>
        BY <1>4, <1>9
      <4> HIDE DEF size, entry
      <4> QED
        BY <1>1, <2>2, <3>1, <3>2, <4>1 DEF ReadSoFar
    <3> QED
      BY <1>1, <1>6, <3>2, <3>3, <3>4 DEF ReadOnce
  <2>10. Safe(n)'
    BY <2>4, <2>5, <2>6, <2>7, <2>8, <2>9 DEF Safe
  <2> QED
    BY <1>5, <1>7, <1>8, <2>10 DEF IInv
<1> QED
  BY <1>10, <1>11

-----------------------------------------------------------------------------
(* Handling events. *)

\* Where handling an event leaves the daemon but for the entry and the lines
\* of the log it is about.
LEMMA HandledEvent ==
  ASSUME IInv, HandleEvent
  PROVE  /\ Pending \in Seq(Events) /\ Pending # <<>> /\ Pending' = Tail(Pending)
         /\ Head(Pending) \in Events /\ Head(Pending) = Head(batch)
         /\ batch' \in Seq(Events) /\ phase = "running" /\ unscanned = {}
         /\ Phases' /\ NoDeletions'
         /\ \A n \in Names : Head(Pending).name # n => SameFor(Pending', Pending, n)
         /\ UNCHANGED <<disk, queue, overflowed, phase, unscanned, base, moved, pieces, replaced>>
<1>1. /\ batch # <<>> /\ batch' = Tail(batch)
      /\ UNCHANGED <<disk, queue, overflowed, phase, unscanned, base, moved, pieces, replaced>>
  BY DEF HandleEvent
<1>2. batch \in Seq(Events) /\ queue \in Seq(Events) /\ phase = "running" /\ unscanned = {}
  BY <1>1 DEF IInv, Types, Phases
<1>3. /\ Pending \in Seq(Events) /\ Pending # <<>>
      /\ Head(Pending) = Head(batch) /\ Pending' = Tail(Pending)
      /\ batch' \in Seq(Events)
  BY <1>1, <1>2 DEF Pending
<1>4. Head(Pending) \in Events
  BY <1>3, PendingHandled
<1>5. Phases'
  BY <1>1, <1>2 DEF Phases
<1>6. NoDeletions'
  BY <1>1, <1>3, PendingHandled DEF IInv, NoDeletions
<1>7. ASSUME NEW n \in Names, Head(Pending).name # n
      PROVE  SameFor(Pending', Pending, n)
  <2>1. Head(Pending) # Event(n, "modified") /\ ~Forgets(Head(Pending), n)
    BY <1>7 DEF Event, Forgets
  <2> QED
    BY <1>3, <2>1, PendingHandled DEF SameFor
<1> QED
  BY <1>1, <1>2, <1>3, <1>4, <1>5, <1>6, <1>7

\* The other logs are not affected.
LEMMA OthersSafe ==
  ASSUME IInv, HandleEvent, Types', NEW k \in Names, Head(batch).name # k,
         files'[k] = files[k], delivered'[k] = delivered[k]
  PROVE  Safe(k)'
<1>1. /\ UNCHANGED <<disk, overflowed, phase, unscanned, base, moved, pieces, replaced>>
      /\ SameFor(Pending', Pending, k)
  BY HandledEvent
<1>2. pieces <= pieces' /\ (Scanned(k)' => Scanned(k))
  BY <1>1 DEF IInv, Types, Scanned
<1> QED
  BY <1>1, <1>2, Unaffected DEF IInv

\* Dropping the entry of a log: what it holds past its start is still to be read.
LEMMA ForgetSafe ==
  ASSUME IInv, HandleEvent, NEW n \in Names, Head(batch).name = n,
         Head(batch).kind # "modified", Forget(n)
  PROVE  IInv'
<1>1. /\ Pending \in Seq(Events) /\ Pending # <<>> /\ Pending' = Tail(Pending)
      /\ Head(Pending) = Head(batch) /\ Head(Pending) \in Events
      /\ batch' \in Seq(Events) /\ phase = "running" /\ unscanned = {} /\ Phases' /\ NoDeletions'
      /\ UNCHANGED <<disk, queue, overflowed, phase, unscanned, base, moved, pieces, replaced>>
  BY HandledEvent
<1>2. files' = [files EXCEPT ![n] = None] /\ delivered' = delivered
  BY DEF Forget
<1>3. Types
  BY DEF IInv
<1>4. Types'
  BY <1>1, <1>2, <1>3 DEF Types
<1>5. files'[n] = None /\ \A k \in Names \ {n} : files'[k] = files[k]
  BY <1>2, <1>3 DEF Types
<1>6. \A k \in Names \ {n} : Safe(k)'
  BY <1>2, <1>4, <1>5, OthersSafe
<1>7. Clears(Pending, n) /\ (Reads(Pending, n) => Reads(Pending', n))
  <2>1. Forgets(Head(Pending), n) /\ Head(Pending) # Event(n, "modified")
    BY <1>1 DEF Forgets, Event
  <2> QED
    BY <1>1, <2>1, PendingHandled
<1>8. Safe(n)'
  <2>1. Safe(n)
    BY DEF IInv
  <2>2. ~Current(n)'
    BY <1>5 DEF Current
  <2>3. Log(n)'
    BY <1>1, <2>1 DEF Safe, Log
  <2>4. CreatedLast(n)'
    BY <1>1, <2>1, PendingHandled DEF Safe, CreatedLast, Told
  <2>5. EntryFits(n)' /\ ReadIsDelivered(n)'
    BY <2>2 DEF EntryFits, ReadIsDelivered
  <2>6. RestWillBeRead(n)'
    BY <1>1, <1>5, <1>7, <2>1 DEF Safe, RestWillBeRead, OwesNothing
  <2>7. ReadOnce(n)'
    <3>1. CreatesFirst(Pending, n) => CreatesFirst(Pending', n)
      BY <1>1, PendingHandled
    <3>2. Mentions(Pending, n)
      BY <1>1, PendingHandled
    <3> QED
      BY <1>1, <1>2, <1>5, <1>7, <2>1, <3>1, <3>2 DEF Safe, ReadOnce, Untouched, ReadSoFar
  <2> QED
    BY <2>3, <2>4, <2>5, <2>6, <2>7 DEF Safe
<1> QED
  BY <1>1, <1>4, <1>6, <1>8 DEF IInv

\* What a read of a log leaves, whatever was known of it.
LEMMA ReadTyped ==
  ASSUME Types, NEW n \in Names, Log(n), ReadNewData(n)
  PROVE  /\ files' \in [Names -> {None} \cup Entry]
         /\ \A k \in Names : files'[k] # None => Unfinished(files'[k].partial)
         /\ delivered' \in [Names -> Seq(LineRecords)]
         /\ \A k \in Names \ {n} : files'[k] = files[k] /\ delivered'[k] = delivered[k]
<1> DEFINE known == IF files[n] = None THEN NewEntry ELSE files[n]
           size == Len(disk[n])
           file == Truncated(known, size)
           chunk == SubSeq(disk[n], file.offset + 1, size)
           start == [lines |-> <<>>, partial |-> file.partial]
           parts == FoldLeft(Split, start, chunk)
           read == [offset |-> size, partial |-> parts.partial]
<1>1. NewEntry \in Entry /\ Unfinished(NewEntry.partial)
  BY WatcherAssumption DEF NewEntry, Entry, Unfinished
<1>2. known \in Entry /\ Unfinished(known.partial)
  BY <1>1 DEF Types
<1>3. CASE disk[n] = None
  <2>1. files' = [files EXCEPT ![n] = known] /\ delivered' = delivered
    BY <1>3 DEF ReadNewData
  <2> HIDE DEF known
  <2> QED
    BY <1>2, <2>1 DEF Types
<1>4. CASE disk[n] # None
  <2>1. /\ files' = [files EXCEPT ![n] = read]
        /\ delivered' = [delivered EXCEPT ![n] = @ \o parts.lines]
    BY <1>4 DEF ReadNewData
  <2>2. disk[n] \in Seq(Parts) /\ size \in 0 .. MaxPieces
    BY <1>4, WatcherAssumption DEF Types, Log, IsLog
  <2>3. file \in Entry /\ Unfinished(file.partial)
    BY <1>1, <1>2 DEF Truncated
  <2> HIDE DEF known, size, file
  <2>4. chunk \in Seq(Parts)
    BY <2>2, <2>3 DEF size, Entry
  <2>5. start \in Splits
    BY <2>3 DEF Splits, Entry
  <2> HIDE DEF chunk, start
  <2>6. parts \in Splits
    BY <2>4, <2>5, SplitAllTyped
  <2>7. parts.lines \in Seq(LineRecords) /\ read \in Entry /\ Unfinished(read.partial)
    BY <2>2, <2>6 DEF Splits, Entry
  <2>8. delivered[n] \o parts.lines \in Seq(LineRecords)
    BY <2>7 DEF Types
  <2> HIDE DEF parts, read
  <2> QED
    BY <2>1, <2>7, <2>8 DEF Types
<1> QED
  BY <1>3, <1>4

\* What a read of a log leaves, when what was known of it is right.
LEMMA ReadIs ==
  ASSUME Types, NEW n \in Names, Log(n), ReadNewData(n), disk[n] # None,
         NEW known, known = (IF files[n] = None THEN NewEntry ELSE files[n]),
         known.offset \in 0 .. Len(disk[n]),
         \/ known.partial = <<>>
         \/ known.partial = <<disk[n][known.offset]>> /\ known.offset % 2 = 1
  PROVE  /\ files'[n] = [offset |-> Len(disk[n]),
                         partial |-> LeftOver(disk[n], known.offset, known.partial, Len(disk[n]))]
         /\ delivered'[n] = delivered[n] \o
              Lines(disk[n], FirstLine(known.offset, known.partial), Len(disk[n]) \div 2)
<1> DEFINE parts == FoldLeft(Split, [lines |-> <<>>, partial |-> known.partial],
                             SubSeq(disk[n], known.offset + 1, Len(disk[n])))
<1>1. Truncated(known, Len(disk[n])) = known
  BY DEF Truncated, Log, IsLog
<1>2. /\ files' = [files EXCEPT ![n] = [offset |-> Len(disk[n]), partial |-> parts.partial]]
      /\ delivered' = [delivered EXCEPT ![n] = @ \o parts.lines]
  BY <1>1 DEF ReadNewData
<1>3. parts = Reached(disk[n], known.offset, known.partial, Len(disk[n]))
  BY SplitsLog DEF Log
<1> HIDE DEF parts
<1>4. /\ parts.partial = LeftOver(disk[n], known.offset, known.partial, Len(disk[n]))
      /\ parts.lines = Lines(disk[n], FirstLine(known.offset, known.partial), Len(disk[n]) \div 2)
  BY <1>3 DEF Reached
<1> QED
  BY <1>2, <1>4 DEF Types

\* Lines, one by one.
LEMMA LinesAre ==
  ASSUME NEW log, NEW from \in Nat, NEW to \in Nat
  PROVE  /\ Len(Lines(log, from, to)) = IF from <= to THEN to - from ELSE 0
         /\ \A i \in 1 .. to - from :
              Lines(log, from, to)[i] = [line |-> log[2 * (from + i)].line, whole |-> TRUE]
         /\ DOMAIN Lines(log, from, to) = 1 .. to - from
         /\ Lines(log, from, to) \in Seq({[line |-> log[2 * j].line, whole |-> TRUE] : j \in from + 1 .. to})
         /\ Range(Lines(log, from, to)) = {[line |-> log[2 * j].line, whole |-> TRUE] : j \in from + 1 .. to}
<1> DEFINE S == {[line |-> log[2 * j].line, whole |-> TRUE] : j \in from + 1 .. to}
           new(i) == [line |-> log[2 * (from + i)].line, whole |-> TRUE]
           lines == Lines(log, from, to)
<1>1. lines = [i \in 1 .. to - from |-> new(i)]
  BY DEF Lines
<1>2. ASSUME NEW i \in 1 .. to - from PROVE new(i) \in S
  <2>1. from + i \in from + 1 .. to
    OBVIOUS
  <2> QED
    BY <2>1
<1>3. \A j \in from + 1 .. to : j - from \in 1 .. to - from /\ from + (j - from) = j
  OBVIOUS
<1>4. DOMAIN lines = 1 .. to - from /\ \A i \in 1 .. to - from : lines[i] = new(i)
  BY <1>1
<1>5. lines \in [1 .. to - from -> S]
  BY <1>1, <1>2
<1> HIDE DEF lines
<1>6. S = {lines[i] : i \in 1 .. to - from}
  <2>1. ASSUME NEW j \in from + 1 .. to
        PROVE  lines[j - from] = [line |-> log[2 * j].line, whole |-> TRUE]
    BY <1>3, <1>4
  <2>2. S \subseteq {lines[i] : i \in 1 .. to - from}
    <3> SUFFICES ASSUME NEW j \in from + 1 .. to
                 PROVE  [line |-> log[2 * j].line, whole |-> TRUE] \in {lines[i] : i \in 1 .. to - from}
      OBVIOUS
    <3> QED
      BY <1>3, <2>1
  <2>3. {lines[i] : i \in 1 .. to - from} \subseteq S
    <3> HIDE DEF S
    <3> QED
      BY <1>5
  <2> QED
    BY <2>2, <2>3
<1> HIDE DEF S
<1>7. lines \in Seq(S) /\ Len(lines) = IF from <= to THEN to - from ELSE 0
  <2>1. CASE from <= to
    <3>1. to - from \in Nat
      BY <2>1
    <3> QED
      BY <1>5, <2>1, <3>1
  <2>2. CASE ~(from <= to)
    <3>1. 1 .. to - from = {}
      BY <2>2
    <3>2. lines = <<>>
      BY <1>4, <3>1
    <3> QED
      BY <2>2, <3>2
  <2> QED
    BY <2>1, <2>2
<1>8. Range(lines) = S
  BY <1>4, <1>6 DEF Range
<1> QED
  BY <1>4, <1>7, <1>8 DEF lines, S

\* A line is among the lines.
LEMMA LinesHold ==
  ASSUME NEW log, NEW from \in Nat, NEW to \in Nat, NEW j \in from + 1 .. to
  PROVE  [line |-> log[2 * j].line, whole |-> TRUE] \in Range(Lines(log, from, to))
<1> DEFINE i == j - from
<1>1. i \in 1 .. to - from /\ from + i = j
  OBVIOUS
<1> HIDE DEF i
<1>2. /\ DOMAIN Lines(log, from, to) = 1 .. to - from
      /\ Lines(log, from, to)[i] = [line |-> log[2 * (from + i)].line, whole |-> TRUE]
  BY <1>1, LinesAre, Zenon
<1> QED
  BY <1>1, <1>2 DEF Range

\* Nothing else is.
LEMMA LinesOnly ==
  ASSUME NEW log, NEW from \in Nat, NEW to \in Nat, NEW e \in Range(Lines(log, from, to))
  PROVE  \E j \in from + 1 .. to : e = [line |-> log[2 * j].line, whole |-> TRUE]
<1>1. DOMAIN Lines(log, from, to) = 1 .. to - from
  BY LinesAre, Zenon
<1>2. PICK i \in 1 .. to - from : e = Lines(log, from, to)[i]
  BY <1>1 DEF Range
<1>3. e = [line |-> log[2 * (from + i)].line, whole |-> TRUE]
  BY <1>2, LinesAre, Zenon
<1>4. from + i \in from + 1 .. to
  OBVIOUS
<1> QED
  BY <1>3, <1>4

\* Lines up to one, and from there on.
LEMMA LinesJoin ==
  ASSUME NEW log, NEW from \in Nat, NEW mid \in Nat, NEW to \in Nat, from <= mid, mid <= to
  PROVE  Lines(log, from, mid) \o Lines(log, mid, to) = Lines(log, from, to)
<1> DEFINE one == Lines(log, from, mid)
           two == Lines(log, mid, to)
           all == Lines(log, from, to)
           S == Range(one) \cup Range(two) \cup Range(all)
<1>1. Len(one) = mid - from /\ Len(two) = to - mid /\ Len(all) = to - from
  <2>1. Len(one) = mid - from
    BY LinesAre
  <2>2. Len(two) = to - mid
    BY LinesAre
  <2>3. from <= to
    OBVIOUS
  <2>4. Len(all) = to - from
    BY <2>3, LinesAre
  <2> QED
    BY <2>1, <2>2, <2>4
<1>2. one \in Seq(S) /\ two \in Seq(S) /\ all \in Seq(S)
  <2>1. one \in Seq(Range(one))
    BY LinesAre, Zenon
  <2>2. two \in Seq(Range(two))
    BY LinesAre, Zenon
  <2>3. all \in Seq(Range(all))
    BY LinesAre, Zenon
  <2> HIDE DEF one, two, all
  <2> QED
    BY <2>1, <2>2, <2>3, SeqMonotonic
<1>3. ASSUME NEW i \in 1 .. mid - from PROVE one[i] = all[i]
  <2>1. i \in 1 .. to - from
    OBVIOUS
  <2>2. one[i] = [line |-> log[2 * (from + i)].line, whole |-> TRUE]
    BY LinesAre
  <2>3. all[i] = [line |-> log[2 * (from + i)].line, whole |-> TRUE]
    BY <2>1, LinesAre
  <2> QED
    BY <2>2, <2>3
<1>4. ASSUME NEW i \in 1 .. to - from, i > mid - from PROVE two[i - (mid - from)] = all[i]
  <2> DEFINE k == i - (mid - from)
  <2>1. k \in 1 .. to - mid /\ mid + k = from + i
    BY <1>4
  <2>2. all[i] = [line |-> log[2 * (from + i)].line, whole |-> TRUE]
    BY LinesAre
  <2> HIDE DEF k
  <2>3. two[k] = [line |-> log[2 * (mid + k)].line, whole |-> TRUE]
    BY <2>1, LinesAre
  <2> QED
    BY <2>1, <2>2, <2>3 DEF k
<1> HIDE DEF one, two, all, S
<1>5. /\ one \o two \in Seq(S) /\ Len(one \o two) = to - from
      /\ \A i \in 1 .. to - from :
           (one \o two)[i] = IF i <= mid - from THEN one[i] ELSE two[i - (mid - from)]
  <2>1. (mid - from) + (to - mid) = to - from
    OBVIOUS
  <2>2. /\ one \o two \in Seq(S) /\ Len(one \o two) = Len(one) + Len(two)
        /\ \A i \in 1 .. Len(one) + Len(two) :
             (one \o two)[i] = IF i <= Len(one) THEN one[i] ELSE two[i - Len(one)]
    BY <1>2, ConcatProperties, Zenon
  <2> QED
    BY <1>1, <2>1, <2>2, Zenon
<1>6. \A i \in 1 .. to - from : (one \o two)[i] = all[i]
  <2> TAKE i \in 1 .. to - from
  <2>1. i <= mid - from => i \in 1 .. mid - from
    OBVIOUS
  <2> QED
    BY <1>3, <1>4, <1>5, <2>1
<1> QED
  BY <1>1, <1>2, <1>5, <1>6, SeqEqual DEF one, two, all

\* How many lines end before a piece.
LEMMA Halving ==
  ASSUME NEW start \in Nat, NEW offset \in Nat, NEW size \in Nat, start <= offset, offset <= size
  PROVE  /\ (start + 1) \div 2 \in Nat /\ offset \div 2 \in Nat /\ (offset + 1) \div 2 \in Nat
         /\ size \div 2 \in Nat /\ offset \div 2 <= size \div 2
         /\ offset % 2 = 0 => /\ (offset + 1) \div 2 = offset \div 2
                              /\ (start + 1) \div 2 <= offset \div 2
         /\ start < offset => (start + 1) \div 2 <= offset \div 2
         /\ offset % 2 \in {0, 1}
<1>1. PICK h \in Nat : offset = 2 * h \/ offset = 2 * h + 1
  <2>1. offset \div 2 \in Nat /\ (offset = 2 * (offset \div 2) \/ offset = 2 * (offset \div 2) + 1)
    OBVIOUS
  <2> QED
    BY <2>1
<1> QED
  BY <1>1

\* A log whose entry is current is read from where its lines were last settled.
LEMMA KnownFits ==
  ASSUME IInv, HandleEvent, NEW n \in Names, Head(batch) = Event(n, "modified"),
         Told, disk[n] # None, ~Clears(Pending', n),
         NEW known, known = IF files[n] = None THEN NewEntry ELSE files[n]
  PROVE  /\ known.offset \in 0 .. Len(disk[n]) /\ base[n] \in Nat /\ Len(disk[n]) \in Nat
         /\ \/ known.partial = <<>>
            \/ known.partial = <<disk[n][known.offset]>> /\ known.offset % 2 = 1
         /\ files[n] = None => known.offset = 0 /\ known.partial = <<>>
         /\ files[n] # None => /\ known = files[n] /\ Current(n) /\ base[n] <= known.offset
                               /\ known.partial = <<>> => \/ known.offset % 2 = 0
                                                          \/ known.offset = base[n]
         /\ ~Clears(Pending, n) /\ Scanned(n)
<1>1. Len(disk[n]) \in Nat /\ base[n] \in Nat
  BY DEF IInv, Types, Safe, Log, IsLog
<1>2. ~Clears(Pending, n)
  <2>1. ~Forgets(Head(Pending), n)
    BY HandledEvent DEF Forgets, Event
  <2> QED
    BY <2>1, HandledEvent, PendingHandled
<1>3. Scanned(n)
  BY HandledEvent DEF Scanned
<1>4. CASE files[n] = None
  BY <1>1, <1>2, <1>3, <1>4 DEF NewEntry
<1>5. CASE files[n] # None
  <2>1. Current(n)
    BY <1>2, <1>3, <1>5 DEF Current
  <2>2. Fits(files[n], disk[n], base[n])
    BY <2>1 DEF IInv, Safe, EntryFits
  <2>3. known = files[n] /\ known.offset \in base[n] .. Len(disk[n])
    BY <1>5, <2>2 DEF Fits
  <2>4. /\ known.offset \in 0 .. Len(disk[n]) /\ base[n] <= known.offset
    BY <1>1, <2>3
  <2>5. /\ \/ known.partial = <<>>
           \/ known.partial = <<disk[n][known.offset]>> /\ known.offset % 2 = 1
        /\ known.partial = <<>> => known.offset % 2 = 0 \/ known.offset = base[n]
    <3>1. \A x : <<x>> # <<>>
      OBVIOUS
    <3>2. \/ known.partial = <<>> /\ (known.offset % 2 = 0 \/ known.offset = base[n])
          \/ known.partial = <<disk[n][known.offset]>> /\ known.offset % 2 = 1
      BY <2>2, <2>3 DEF Fits
    <3> QED
      BY <3>1, <3>2
  <2> QED
    BY <1>1, <1>2, <1>3, <1>5, <2>1, <2>3, <2>4, <2>5
<1> QED
  BY <1>4, <1>5

\* Reading a log: all of it past its start is then delivered.
LEMMA ReadDelivers ==
  ASSUME IInv, HandleEvent, NEW n \in Names, Head(batch) = Event(n, "modified"),
         ReadNewData(n), Told, disk[n] # None, ~Clears(Pending', n)
  PROVE  /\ EntryFits(n)' /\ ReadIsDelivered(n)'
         /\ files'[n] # None /\ files'[n].offset = Len(disk[n])
         /\ replaced = 0 => /\ delivered'[n] = Lines(disk[n], Started(n), Len(disk[n]) \div 2)
                            /\ files'[n].partial # <<>> => base[n] < Len(disk[n])
                            /\ \E k \in Nat : delivered'[n] = delivered[n] \o Lines(disk[n], k, Len(disk[n]) \div 2)
<1> DEFINE known == IF files[n] = None THEN NewEntry ELSE files[n]
           log == disk[n]
           start == base[n]
           size == Len(log)
           offset == known.offset
           partial == known.partial
           first == FirstLine(offset, partial)
           left == LeftOver(log, offset, partial, size)
           half == size \div 2
<1>1. Types /\ Log(n)
  BY DEF IInv, Safe
<1>2. /\ offset \in 0 .. size /\ start \in Nat /\ size \in Nat
      /\ partial = <<>> \/ (partial = <<log[offset]>> /\ offset % 2 = 1)
      /\ files[n] = None => offset = 0 /\ partial = <<>>
      /\ files[n] # None => /\ known = files[n] /\ Current(n) /\ start <= offset
                            /\ partial = <<>> => offset % 2 = 0 \/ offset = start
      /\ ~Clears(Pending, n) /\ Scanned(n)
  BY KnownFits
<1>3. /\ files'[n] = [offset |-> size, partial |-> left]
      /\ delivered'[n] = delivered[n] \o Lines(log, first, half)
  <2> HIDE DEF known
  <2>1. known = IF files[n] = None THEN NewEntry ELSE files[n]
    BY DEF known
  <2> QED
    BY <1>1, <1>2, <2>1, ReadIs
<1>4. /\ Started(n) = (start + 1) \div 2 /\ start <= size
      /\ UNCHANGED <<disk, base, moved, replaced>> /\ Started(n)' = Started(n)
  <2>1. UNCHANGED <<disk, base, moved, replaced>>
    BY HandledEvent
  <2> QED
    BY <1>1, <2>1 DEF Started, Log
<1>5. files'[n] # None
  <2>1. files'[n] \in {None} \cup Entry /\ left \in Seq(Parts)
    <3>1. partial \in Seq(Parts)
      BY <1>1 DEF Types, Entry, NewEntry
    <3>2. left = <<>> \/ left = partial \/ (size % 2 # 0 /\ left = <<log[size]>>)
      BY DEF LeftOver
    <3>3. size % 2 # 0 => log[size] \in Parts
      <4>1. size \in Nat
        BY <1>2
      <4>2. log \in Seq(Parts)
        BY <1>1 DEF Log, IsLog
      <4>3. size % 2 # 0 => size \in 1 .. size
        <5> HIDE DEF size
        <5> QED
          BY <4>1
      <4> QED
        BY <4>2, <4>3
    <3> HIDE DEF left, partial, log, size
    <3>4. left \in Seq(Parts)
      <4>1. CASE size % 2 # 0 /\ left = <<log[size]>>
        <5>1. \A e \in Parts : <<e>> \in Seq(Parts)
          OBVIOUS
        <5> QED
          BY <3>3, <4>1, <5>1
      <4> QED
        BY <3>1, <3>2, <4>1, EmptySeq
    <3> QED
      BY <1>1, <3>4, ReadTyped
  <2>2. size \in 0 .. MaxPieces
    BY <1>1, <1>2, WatcherAssumption DEF Log, Types
  <2>3. [offset |-> size, partial |-> left] \in Entry
    <3> HIDE DEF left, size
    <3> QED
      BY <2>1, <2>2 DEF Entry
  <2> QED
    BY <1>3, <2>3, NoneAssumption
<1>6. partial = <<>> \/ partial # <<>>
  OBVIOUS
<1> HIDE DEF known, log, start, size, offset, partial, first, left, half
<1>7. /\ first \in Nat /\ offset \div 2 \in Nat /\ half \in Nat /\ Started(n) \in Nat
      /\ offset \div 2 <= half
      /\ first = offset \div 2 \/ (partial = <<>> /\ offset = start /\ first = Started(n))
      /\ files[n] = None => first = 0 /\ offset \div 2 = 0
      /\ files[n] # None /\ (partial # <<>> => start < offset) => Started(n) <= first
      /\ files[n] # None => offset \div 2 <= first
  <2>1. CASE files[n] = None
    <3>1. offset = 0 /\ first = (offset + 1) \div 2
      BY <1>2, <2>1 DEF first, FirstLine
    <3>2. /\ (start + 1) \div 2 \in Nat /\ size \div 2 \in Nat
      BY <1>2
    <3>3. (offset + 1) \div 2 = 0 /\ offset \div 2 = 0
      BY <3>1
    <3> QED
      BY <1>2, <1>4, <2>1, <3>1, <3>2, <3>3 DEF half
  <2>2. CASE files[n] # None
    <3>1. start <= offset /\ offset <= size /\ offset \in Nat
      BY <1>2, <2>2
    <3>2. /\ (start + 1) \div 2 \in Nat /\ offset \div 2 \in Nat /\ (offset + 1) \div 2 \in Nat
          /\ size \div 2 \in Nat /\ offset \div 2 <= size \div 2
          /\ offset % 2 = 0 => /\ (offset + 1) \div 2 = offset \div 2
                               /\ (start + 1) \div 2 <= offset \div 2
          /\ start < offset => (start + 1) \div 2 <= offset \div 2
          /\ offset \div 2 <= (offset + 1) \div 2
      BY <1>2, <3>1, Halving
    <3>3. CASE partial = <<>>
      <4>1. first = (offset + 1) \div 2 /\ (offset % 2 = 0 \/ offset = start)
        BY <1>2, <2>2, <3>3 DEF first, FirstLine
      <4> QED
        BY <1>4, <2>2, <3>2, <3>3, <4>1 DEF half
    <3>4. CASE partial # <<>>
      <4>1. first = offset \div 2
        BY <3>4 DEF first, FirstLine
      <4> QED
        BY <1>4, <2>2, <3>2, <3>4, <4>1 DEF half
    <3> QED
      BY <3>3, <3>4
  <2> QED
    BY <2>1, <2>2
<1>8. first <= half \/ Lines(log, first, half) = <<>>
  BY <1>7, NoLines
<1>9. left = <<>> \/ (size % 2 = 1 /\ left = <<log[size]>>)
  <2>1. size % 2 = 0 \/ size % 2 = 1
    BY <1>2
  <2> QED
    BY <1>2, <2>1 DEF left, LeftOver
<1>10. EntryFits(n)'
  <2> SUFFICES Fits([offset |-> size, partial |-> left], log, start)
    BY <1>3, <1>4 DEF EntryFits, log, start
  <2>1. size \in start .. Len(log)
    BY <1>2, <1>4 DEF size
  <2>2. left = <<>> => size % 2 = 0 \/ size = start
    <3> SUFFICES ASSUME left = <<>>, size % 2 # 0 PROVE size = start
      OBVIOUS
    <3>1. size = offset /\ partial = <<>>
      BY <1>2 DEF left, LeftOver
    <3>2. files[n] # None
      BY <1>2, <3>1
    <3> QED
      BY <1>2, <3>1, <3>2
  <2> QED
    BY <1>9, <2>1, <2>2 DEF Fits
<1>11. ReadIsDelivered(n)'
  <2> SUFFICES ASSUME NEW j \in Started(n) + 1 .. half
               PROVE  [line |-> log[2 * j].line, whole |-> TRUE] \in Range(delivered'[n])
    BY <1>3, <1>4 DEF ReadIsDelivered, Delivers, log, half
  <2> DEFINE item == [line |-> log[2 * j].line, whole |-> TRUE]
             S == LineRecords \cup Range(Lines(log, first, half))
  <2>1. /\ delivered[n] \in Seq(LineRecords)
        /\ Lines(log, first, half) \in Seq(Range(Lines(log, first, half)))
    <3>1. delivered[n] \in Seq(LineRecords)
      BY <1>1 DEF Types
    <3>2. Lines(log, first, half) \in Seq(Range(Lines(log, first, half)))
      BY <1>7, LinesAre, Zenon
    <3> QED
      BY <3>1, <3>2
  <2>2. delivered[n] \in Seq(S) /\ Lines(log, first, half) \in Seq(S)
    BY <2>1, SeqMonotonic
  <2>3. Range(delivered'[n]) = Range(delivered[n]) \cup Range(Lines(log, first, half))
    BY <1>3, <2>2, RangeConcatenation
  <2>4. CASE first < j
    <3>1. j \in first + 1 .. half
      BY <1>7, <2>4
    <3>2. item \in Range(Lines(log, first, half))
      BY <1>7, <3>1, LinesHold
    <3> QED
      BY <2>3, <3>2
  <2>5. CASE ~(first < j)
    <3>1. j \in Nat /\ j >= 1 /\ j <= first /\ j > Started(n)
      BY <1>7, <2>5
    <3>2. files[n] # None /\ first = offset \div 2
      BY <1>7, <3>1
    <3>3. j \in Started(n) + 1 .. offset \div 2
      BY <1>7, <3>1, <3>2
    <3>4. ReadIsDelivered(n) /\ Current(n) /\ files[n].offset = offset
      BY <1>2, <3>2 DEF IInv, Safe, offset
    <3> QED
      BY <2>3, <3>3, <3>4 DEF ReadIsDelivered, Delivers, log
  <2> QED
    BY <2>4, <2>5
<1>12. ASSUME replaced = 0
       PROVE  /\ delivered'[n] = Lines(log, Started(n), half)
              /\ left # <<>> => start < size
  <2>1. ReadSoFar(n)
    BY <1>2, <1>12 DEF IInv, Safe, ReadOnce
  <2>2. CASE files[n] = None
    <3>1. start = 0 /\ delivered[n] = <<>> /\ first = 0
      BY <1>7, <2>1, <2>2 DEF ReadSoFar, start
    <3>2. Started(n) = 0
      BY <1>4, <3>1
    <3>3. Lines(log, first, half) \in Seq(Range(Lines(log, first, half)))
      BY <1>7, LinesAre
    <3>4. delivered'[n] = Lines(log, first, half)
      BY <1>3, <3>1, <3>3, ConcatEmptySeq
    <3>5. left # <<>> => size > 0
      BY <1>2, <1>9
    <3> QED
      BY <3>1, <3>2, <3>4, <3>5
  <2>3. CASE files[n] # None
    <3>1. /\ delivered[n] = Lines(log, Started(n), offset \div 2)
          /\ partial # <<>> => start < offset
      BY <1>2, <2>1, <2>3 DEF ReadSoFar, start, log, partial, offset
    <3>2. delivered'[n] = Lines(log, Started(n), offset \div 2) \o Lines(log, first, half)
      BY <1>3, <3>1
    <3>3. delivered'[n] = Lines(log, Started(n), half)
      <4>1. CASE first = offset \div 2
        <5>1. Started(n) <= first /\ first <= half
          BY <1>7, <2>3, <3>1, <4>1
        <5> QED
          BY <1>7, <3>2, <4>1, <5>1, LinesJoin
      <4>2. CASE first = Started(n)
        <5>1. Lines(log, Started(n), offset \div 2) = <<>>
          BY <1>7, <2>3, <4>2, NoLines
        <5>2. Lines(log, first, half) \in Seq(Range(Lines(log, first, half)))
          BY <1>7, LinesAre
        <5> QED
          BY <3>2, <4>2, <5>1, <5>2, ConcatEmptySeq
      <4> QED
        BY <1>7, <4>1, <4>2
    <3>6. left # <<>> => start < size
      <4> SUFFICES ASSUME left # <<>> PROVE start < size
        OBVIOUS
      <4>1. CASE size = offset
        <5>1. left = partial
          BY <1>9, <4>1 DEF left, LeftOver
        <5> QED
          BY <1>2, <3>1, <4>1, <5>1
      <4>2. CASE size # offset
        BY <1>2, <2>3, <4>2
      <4> QED
        BY <4>1, <4>2
    <3> QED
      BY <3>3, <3>6
  <2> QED
    BY <2>2, <2>3
<1>13. /\ files'[n].offset = size /\ files'[n].partial = left
       /\ \E k \in Nat : delivered'[n] = delivered[n] \o Lines(log, k, half)
  BY <1>3, <1>7
<1> QED
  BY <1>5, <1>10, <1>11, <1>12, <1>13 DEF log, size, half, start

\* handleModify.
LEMMA ReadSafe ==
  ASSUME IInv, HandleEvent, NEW n \in Names, Head(batch) = Event(n, "modified"), ReadNewData(n)
  PROVE  IInv'
<1>1. /\ Pending \in Seq(Events) /\ Pending # <<>> /\ Pending' = Tail(Pending)
      /\ Head(Pending) = Head(batch) /\ Head(Pending) \in Events
      /\ batch' \in Seq(Events) /\ phase = "running" /\ unscanned = {} /\ Phases' /\ NoDeletions'
      /\ UNCHANGED <<disk, queue, overflowed, phase, unscanned, base, moved, pieces, replaced>>
  BY HandledEvent
<1>2. Types /\ Safe(n) /\ Log(n) /\ NoDeletions
  BY DEF IInv, Safe
<1>3. /\ files' \in [Names -> {None} \cup Entry]
      /\ \A k \in Names : files'[k] # None => Unfinished(files'[k].partial)
      /\ delivered' \in [Names -> Seq(LineRecords)]
      /\ \A k \in Names \ {n} : files'[k] = files[k] /\ delivered'[k] = delivered[k]
  BY <1>2, ReadTyped
<1>4. Types'
  BY <1>1, <1>2, <1>3 DEF Types
<1>5. Head(batch).name = n /\ Head(batch).kind = "modified"
  BY DEF Event
<1>6. \A k \in Names \ {n} : Safe(k)'
  BY <1>3, <1>4, <1>5, OthersSafe
<1>7. /\ Clears(Pending, n) <=> Clears(Pending', n)
      /\ Reads(Pending, n) <=> (Reads(Pending', n) \/ ~Clears(Pending', n))
      /\ Recreates(Pending, n) => Recreates(Pending', n)
      /\ CreatesFirst(Pending, n) => CreatesFirst(Pending', n)
      /\ CreatesFirst(Pending, n) /\ ~Deletes(Pending) => ~Clears(Pending', n)
      /\ Mentions(Pending, n)
  <2>1. ~Forgets(Head(Pending), n)
    BY <1>1, <1>5 DEF Forgets
  <2> QED
    BY <1>1, <1>5, <2>1, PendingHandled
<1>8. Log(n)' /\ CreatedLast(n)'
  BY <1>1, <1>2, <1>7 DEF Safe, Log, CreatedLast, Told
<1>9. CASE Told /\ disk[n] # None /\ ~Clears(Pending', n)
  <2>1. /\ EntryFits(n)' /\ ReadIsDelivered(n)'
        /\ files'[n] # None /\ files'[n].offset = Len(disk[n])
        /\ replaced = 0 => /\ delivered'[n] = Lines(disk[n], Started(n), Len(disk[n]) \div 2)
                           /\ files'[n].partial # <<>> => base[n] < Len(disk[n])
    BY <1>9, ReadDelivers
  <2>2. RestWillBeRead(n)'
    BY <1>1, <1>9, <2>1 DEF RestWillBeRead
  <2>3. ReadOnce(n)'
    <3> SUFFICES ASSUME replaced = 0 PROVE ReadOnce(n)'
      BY <1>1 DEF ReadOnce
    <3>1. ReadSoFar(n)'
      BY <1>1, <2>1 DEF ReadSoFar, Started
    <3>2. CreatesFirst(Pending', n)
      BY <1>2, <1>7 DEF Safe, ReadOnce
    <3> QED
      BY <1>1, <1>9, <3>1, <3>2 DEF ReadOnce
  <2>4. Safe(n)'
    BY <1>8, <2>1, <2>2, <2>3 DEF Safe
  <2> QED
    BY <1>1, <1>4, <1>6, <2>4 DEF IInv
<1>10. CASE ~(Told /\ disk[n] # None /\ ~Clears(Pending', n))
  <2>1. ~Current(n)'
    BY <1>1, <1>10 DEF Current, Told
  <2>2. EntryFits(n)' /\ ReadIsDelivered(n)'
    BY <2>1 DEF EntryFits, ReadIsDelivered
  <2>3. RestWillBeRead(n)'
    BY <1>1, <1>2, <1>7, <1>10 DEF Safe, RestWillBeRead, OwesNothing, Told
  <2>4. replaced # 0
    <3> SUFFICES ASSUME replaced = 0 PROVE FALSE
      OBVIOUS
    <3>1. CreatesFirst(Pending, n) /\ ~Deletes(Pending) /\ disk[n] # None
      BY <1>2, <1>7 DEF Safe, ReadOnce, NoDeletions, Untouched
    <3> QED
      BY <1>7, <1>10, <3>1 DEF Told
  <2>5. ReadOnce(n)'
    BY <1>1, <2>4 DEF ReadOnce
  <2>6. Safe(n)'
    BY <1>8, <2>2, <2>3, <2>5 DEF Safe
  <2> QED
    BY <1>1, <1>4, <1>6, <2>6 DEF IInv
<1> QED
  BY <1>9, <1>10

\* onInotifyEvents.
LEMMA HandleEventSafe == IInv /\ HandleEvent => IInv'
<1> SUFFICES ASSUME IInv, HandleEvent PROVE IInv'
  OBVIOUS
<1> DEFINE event == Head(batch)
<1>1. event \in Events
  BY HandledEvent
<1>2. event.name \in Names
  BY <1>1, EventsAre
<1>3. CASE event.kind = "modified"
  <2>1. event = Event(event.name, "modified") /\ ReadNewData(event.name)
    BY <1>1, <1>3, EventsAre DEF HandleEvent
  <2> HIDE DEF event
  <2>2. \A n \in Names : event = Event(n, "modified") /\ ReadNewData(n) => IInv'
    BY ReadSafe DEF event
  <2> QED
    BY <1>2, <2>1, <2>2
<1>4. CASE event.kind # "modified"
  <2>1. Forget(event.name)
    BY <1>4 DEF HandleEvent
  <2> QED
    BY <1>2, <1>4, <2>1, ForgetSafe
<1> QED
  BY <1>3, <1>4

\* What an event of a kind is.
LEMMA EventTyped ==
  ASSUME NEW n \in Names, NEW kind \in Kinds
  PROVE  /\ Event(n, kind) \in Events
         /\ Event(n, kind).name = n /\ Event(n, kind).kind = kind
         /\ \A m, k : Event(n, kind) = Event(m, k) <=> n = m /\ kind = k
         /\ \A m : Forgets(Event(n, kind), m) <=> n = m /\ kind # "modified"
BY DEF Event, Events, Forgets

\* An event of one log changes nothing about another in what is pending.
LEMMA OtherPending ==
  ASSUME IInv, NEW n \in Names, NEW kind \in Kinds, NEW k \in Names, k # n,
         NEW p \in Seq(Events), NEW q, Follows(q, p, Event(n, kind))
  PROVE  SameFor(q, p, k)
BY EventTyped, PendingFollows DEF SameFor

\* The game's step, whatever becomes of its event.
LEMMA GameStep ==
  ASSUME IInv, NEW n \in Names, NEW kind \in Kinds,
         Notify(Queued(Kernel, Event(n, kind))), UNCHANGED daemonVars
  PROVE  /\ queue' \in Seq(Events) /\ overflowed' \in BOOLEAN /\ (overflowed => overflowed')
         /\ Pending \in Seq(Events) /\ Phases'
         /\ phase = "off" => Pending' = <<>> /\ Pending = <<>>
         /\ phase # "off" => \/ Follows(Pending', Pending, Event(n, kind))
                             \/ overflowed' /\ Pending' = Pending
         /\ \A k \in Names \ {n} : SameFor(Pending', Pending, k)
<1>1. Event(n, kind) \in Events
  BY EventTyped
<1>2. /\ queue' \in Seq(Events) /\ overflowed' \in BOOLEAN /\ (overflowed => overflowed')
      /\ phase = "off" => queue' = <<>> /\ Pending' = <<>> /\ Pending = <<>>
      /\ phase # "off" => \/ Follows(Pending', Pending, Event(n, kind))
                          \/ overflowed' /\ Pending' = Pending
  BY <1>1, Notified DEF IInv, daemonVars
<1>3. Pending \in Seq(Events)
  BY PendingIs DEF IInv
<1>4. Phases'
  BY <1>2 DEF IInv, Phases, daemonVars
<1>5. ASSUME NEW k \in Names \ {n} PROVE SameFor(Pending', Pending, k)
  <2>1. CASE Pending' = Pending
    BY <2>1, SamePending
  <2>2. CASE Follows(Pending', Pending, Event(n, kind))
    BY <1>3, <2>2, OtherPending
  <2> QED
    BY <1>2, <2>1, <2>2
<1> QED
  BY <1>2, <1>3, <1>4, <1>5

\* A log that is created is read from its start: an entry of its name is dropped.
LEMMA CreateLogSafe == ASSUME IInv, NEW n \in Names, CreateLog(n) PROVE IInv'
<1> DEFINE e == Event(n, "created")
<1>1. /\ disk[n] = None /\ disk' = [disk EXCEPT ![n] = <<>>]
      /\ base' = [base EXCEPT ![n] = 0]
      /\ moved' = moved \ {n}
      /\ Notify(Queued(Kernel, Event(n, "created")))
      /\ UNCHANGED <<daemonVars, pieces, replaced>>
      /\ UNCHANGED <<phase, unscanned, batch, files, delivered>>
  BY DEF CreateLog, daemonVars
<1>2. /\ queue' \in Seq(Events) /\ overflowed' \in BOOLEAN /\ (overflowed => overflowed')
      /\ Pending \in Seq(Events) /\ Phases'
      /\ phase = "off" => Pending' = <<>> /\ Pending = <<>>
      /\ phase # "off" => \/ Follows(Pending', Pending, e)
                          \/ overflowed' /\ Pending' = Pending
      /\ \A k \in Names \ {n} : SameFor(Pending', Pending, k)
  BY <1>1, GameStep DEF Kinds
<1>3. Types /\ Phases /\ NoDeletions /\ Safe(n)
  BY DEF IInv
<1>4. Types'
  <2>1. disk' \in [Names -> {None} \cup Seq(Parts)] /\ base' \in [Names -> Nat]
    BY <1>1, <1>3, EmptySeq DEF Types
  <2> QED
    BY <1>1, <1>2, <1>3, <2>1 DEF Types
<1>5. ASSUME NEW k \in Names, k # n PROVE Safe(k)'
  <2>1. disk'[k] = disk[k] /\ base'[k] = base[k] /\ pieces <= pieces' /\ (Scanned(k)' => Scanned(k))
    BY <1>1, <1>3, <1>5 DEF Types, Scanned
  <2> QED
    BY <1>1, <1>2, <1>3, <1>4, <1>5, <2>1, Unaffected DEF IInv
<1>6. disk'[n] = <<>> /\ base'[n] = 0 /\ disk'[n] # None
  <2>1. disk'[n] = <<>> /\ base'[n] = 0
    BY <1>1, <1>3 DEF Types
  <2> QED
    BY <2>1, EmptySeq, NoneAssumption
<1>7. e \in Events /\ Forgets(e, n) /\ e # Event(n, "modified") /\ e.kind # "deleted"
  BY EventTyped DEF Kinds
<1>8. /\ Follows(Pending', Pending, e) =>
           /\ Clears(Pending', n) /\ Recreates(Pending', n)
           /\ CreatesFirst(Pending, n) /\ ~Mentions(Pending, n) => CreatesFirst(Pending', n)
           /\ Deletes(Pending') => Deletes(Pending)
  BY <1>2, <1>7, PendingFollows
<1>9. NoDeletions'
  BY <1>1, <1>2, <1>3, <1>8, NothingPending DEF NoDeletions
<1>10. replaced = 0 => /\ delivered[n] = <<>> /\ files[n] = None /\ ~Mentions(Pending, n)
                       /\ n \notin unscanned /\ ~Deletes(Pending) /\ CreatesFirst(Pending, n)
  BY <1>1, <1>3 DEF Safe, ReadOnce, Untouched, NoDeletions
<1>11. ~Deletes(Pending) => Recreates(Pending, n)
  BY DEF Deletes, Recreates, Event
<1>12. Safe(n)'
  <2>1. Log(n)'
    <3>1. IsLog(<<>>) /\ Len(<<>>) = 0 /\ pieces \in Nat
      BY <1>3 DEF IsLog, Types
    <3> QED
      BY <1>1, <1>6, <3>1 DEF Log
  <2>2. CreatedLast(n)'
    BY <1>1, <1>2, <1>8, <1>10, <1>11, NothingPending DEF CreatedLast, Told
  <2>3. ~Current(n)'
    <3> SUFFICES ASSUME Current(n)' PROVE FALSE
      OBVIOUS
    <3>1. phase # "off" /\ ~Clears(Pending', n) /\ Told' /\ files'[n] # None
      BY <1>1 DEF Current, Scanned
    <3> QED
      BY <1>1, <1>2, <1>8, <1>10, <3>1 DEF Told
  <2>4. EntryFits(n)' /\ ReadIsDelivered(n)'
    BY <2>3 DEF EntryFits, ReadIsDelivered
  <2>5. RestWillBeRead(n)'
    <3>1. Len(<<>>) = 0
      OBVIOUS
    <3> QED
      BY <1>1, <1>2, <1>6, <1>8, <3>1 DEF RestWillBeRead, OwesNothing
  <2>6. ReadOnce(n)'
    <3> SUFFICES ASSUME replaced = 0 PROVE ReadOnce(n)'
      BY <1>1 DEF ReadOnce
    <3>1. CreatesFirst(Pending', n)
      BY <1>2, <1>8, <1>10, NothingPending
    <3>2. ReadSoFar(n)'
      BY <1>1, <1>6, <1>10 DEF ReadSoFar
    <3> QED
      BY <1>1, <1>6, <1>10, <3>1, <3>2 DEF ReadOnce
  <2> QED
    BY <2>1, <2>2, <2>4, <2>5, <2>6 DEF Safe
<1> QED
  BY <1>2, <1>4, <1>5, <1>9, <1>12 DEF IInv

-----------------------------------------------------------------------------
(* The game. *)

\* A write goes on with the line that is unfinished or begins one.
LEMMA PieceKeepsLog ==
  ASSUME NEW log, IsLog(log), NEW line \in 1 .. MaxPieces
  PROVE  /\ IsLog(Append(log, NextPiece(log, line)))
         /\ Len(Append(log, NextPiece(log, line))) = Len(log) + 1
         /\ \A i \in 1 .. Len(log) : Append(log, NextPiece(log, line))[i] = log[i]
<1> DEFINE piece == NextPiece(log, line)
           len == Len(log)
           new == Append(log, piece)
<1>1. /\ log \in Seq(Parts) /\ len \in Nat
      /\ \A i \in 1 .. len : (log[i].ends <=> i % 2 = 0) /\ log[i] \in Parts
      /\ \A i \in 1 .. len : i % 2 = 0 => log[i].line = log[i - 1].line
  BY DEF IsLog
<1>2. CASE len % 2 = 0
  <2>1. piece = [line |-> line, ends |-> FALSE]
    <3>1. CASE len = 0
      BY <1>1, <3>1 DEF NextPiece
    <3>2. CASE len # 0
      <4>1. len \in 1 .. len /\ log[len].ends
        BY <1>1, <1>2, <3>2
      <4> QED
        BY <4>1 DEF NextPiece, Last
    <3> QED
      BY <3>1, <3>2
  <2>2. piece \in Parts /\ ~piece.ends
    BY <2>1 DEF Parts
  <2> HIDE DEF piece
  <2>3. /\ new \in Seq(Parts) /\ Len(new) = len + 1 /\ new[len + 1] = piece
        /\ \A i \in 1 .. len : new[i] = log[i]
    BY <1>1, <2>2, AppendProperties
  <2>4. (len + 1) % 2 # 0
    <3> HIDE DEF len
    <3> QED
      BY <1>1, <1>2
  <2>5. \A i \in 1 .. len + 1 : i = len + 1 \/ (i \in 1 .. len /\ (i - 1 \in 1 .. len \/ i % 2 # 0))
    <3> HIDE DEF len
    <3> QED
      BY <1>1
  <2> HIDE DEF len, new
  <2>6. \A i \in 1 .. len + 1 : new[i].ends <=> i % 2 = 0
    BY <1>1, <2>2, <2>3, <2>4, <2>5
  <2>7. \A i \in 1 .. len + 1 : i % 2 = 0 => new[i].line = new[i - 1].line
    BY <1>1, <2>3, <2>4, <2>5
  <2> QED
    BY <2>3, <2>6, <2>7 DEF IsLog, new, piece, len
<1>3. CASE len % 2 # 0
  <2>1. len \in 1 .. len /\ ~log[len].ends /\ log # <<>>
    <3>1. len \in 1 .. len
      <4> HIDE DEF len
      <4> QED
        BY <1>1, <1>3
    <3> QED
      BY <1>1, <1>3, <3>1
  <2>2. piece = [line |-> log[len].line, ends |-> TRUE]
    BY <2>1 DEF NextPiece, Last
  <2>3. piece \in Parts /\ piece.ends /\ piece.line = log[len].line
    BY <1>1, <2>1, <2>2 DEF Parts
  <2> HIDE DEF piece
  <2>4. /\ new \in Seq(Parts) /\ Len(new) = len + 1 /\ new[len + 1] = piece
        /\ \A i \in 1 .. len : new[i] = log[i]
    BY <1>1, <2>3, AppendProperties
  <2>5. (len + 1) % 2 = 0 /\ (len + 1) - 1 = len
    <3> HIDE DEF len
    <3> QED
      BY <1>1, <1>3
  <2>6. \A i \in 1 .. len + 1 : i = len + 1 \/ (i \in 1 .. len /\ (i - 1 \in 1 .. len \/ i % 2 # 0))
    <3> HIDE DEF len
    <3> QED
      BY <1>1
  <2> HIDE DEF len, new
  <2>7. \A i \in 1 .. len + 1 : new[i].ends <=> i % 2 = 0
    BY <1>1, <2>3, <2>4, <2>5, <2>6
  <2>8. \A i \in 1 .. len + 1 : i % 2 = 0 => new[i].line = new[i - 1].line
    BY <1>1, <2>1, <2>3, <2>4, <2>5, <2>6
  <2> QED
    BY <2>4, <2>7, <2>8 DEF IsLog, new, piece, len
<1> QED
  BY <1>2, <1>3

\* A write leaves the lines before it.
LEMMA LinesKept ==
  ASSUME NEW log, NEW new, NEW from \in Nat, NEW to \in Nat, Len(log) \in Nat,
         2 * to <= Len(log), \A i \in 1 .. Len(log) : new[i] = log[i]
  PROVE  Lines(new, from, to) = Lines(log, from, to)
<1>1. \A i \in 1 .. to - from : 2 * (from + i) \in 1 .. Len(log)
  OBVIOUS
<1>2. \A i \in 1 .. to - from : new[2 * (from + i)].line = log[2 * (from + i)].line
  BY <1>1
<1> QED
  BY <1>2 DEF Lines

\* A write is followed by a read, or merged with one that is pending.
LEMMA WritePieceSafe == ASSUME IInv, NEW n \in Names, WritePiece(n) PROVE IInv'
<1> DEFINE e == Event(n, "modified")
           log == disk[n]
           new == Append(log, NextPiece(log, pieces + 1))
<1>1. /\ log # None /\ pieces < MaxPieces /\ pieces' = pieces + 1
      /\ disk' = [disk EXCEPT ![n] = new]
      /\ Notify(Queued(Kernel, Event(n, "modified")))
      /\ moved' = moved \ {n}
      /\ UNCHANGED <<daemonVars, base, replaced>>
      /\ UNCHANGED <<phase, unscanned, batch, files, delivered>>
  BY DEF WritePiece, daemonVars
<1>2. /\ queue' \in Seq(Events) /\ overflowed' \in BOOLEAN /\ (overflowed => overflowed')
      /\ Pending \in Seq(Events) /\ Phases'
      /\ phase = "off" => Pending' = <<>> /\ Pending = <<>>
      /\ phase # "off" => \/ Follows(Pending', Pending, e)
                          \/ overflowed' /\ Pending' = Pending
      /\ \A k \in Names \ {n} : SameFor(Pending', Pending, k)
  BY <1>1, GameStep DEF Kinds
<1>3. Types /\ Phases /\ NoDeletions /\ Safe(n)
  BY DEF IInv
<1>4. /\ IsLog(log) /\ Len(log) <= pieces /\ base[n] <= Len(log)
      /\ log \in Seq(Parts) /\ Len(log) \in Nat /\ pieces \in Nat /\ base[n] \in Nat
      /\ pieces + 1 \in 1 .. MaxPieces
  BY <1>1, <1>3, WatcherAssumption DEF Safe, Log, IsLog, Types
<1>5. /\ IsLog(new) /\ Len(new) = Len(log) + 1 /\ new \in Seq(Parts) /\ new # None
      /\ \A i \in 1 .. Len(log) : new[i] = log[i]
  <2>1. IsLog(new) /\ Len(new) = Len(log) + 1 /\ \A i \in 1 .. Len(log) : new[i] = log[i]
    BY <1>4, PieceKeepsLog
  <2> QED
    BY <2>1, NoneAssumption DEF IsLog
<1> HIDE DEF new
<1>6. Types'
  <2>1. disk' \in [Names -> {None} \cup Seq(Parts)] /\ pieces' \in 0 .. MaxPieces
    BY <1>1, <1>3, <1>4, <1>5 DEF Types
  <2> QED
    BY <1>1, <1>2, <1>3, <2>1 DEF Types
<1>7. ASSUME NEW k \in Names, k # n PROVE Safe(k)'
  <2>1. disk'[k] = disk[k] /\ base'[k] = base[k] /\ pieces <= pieces' /\ (Scanned(k)' => Scanned(k))
    BY <1>1, <1>3, <1>4, <1>7 DEF Types, Scanned
  <2> QED
    BY <1>1, <1>2, <1>3, <1>6, <1>7, <2>1, Unaffected DEF IInv
<1>8. disk'[n] = new
  BY <1>1, <1>3 DEF Types
<1>9. e \in Events /\ ~Forgets(e, n) /\ e = Event(n, "modified") /\ e.kind # "deleted"
      /\ e # Event(n, "created") /\ e # Event(n, "deleted")
  BY EventTyped DEF Kinds
<1>10. /\ Clears(Pending', n) <=> Clears(Pending, n)
       /\ Recreates(Pending, n) => Recreates(Pending', n)
       /\ CreatesFirst(Pending, n) => CreatesFirst(Pending', n)
       /\ Deletes(Pending') => Deletes(Pending)
       /\ phase # "off" /\ ~overflowed' => Reads(Pending', n)
  <2>1. CASE Pending' = Pending
    <3>1. phase # "off" /\ ~overflowed' => Follows(Pending', Pending, e)
      BY <1>2
    <3> QED
      BY <1>2, <1>9, <2>1, <3>1, PendingFollows
  <2>2. CASE Follows(Pending', Pending, e)
    BY <1>2, <1>9, <2>2, PendingFollows
  <2> QED
    BY <1>2, <2>1, <2>2
<1>11. NoDeletions'
  BY <1>1, <1>3, <1>10 DEF NoDeletions
<1>12. Current(n)' => Current(n)
  BY <1>1, <1>2, <1>10 DEF Current, Scanned, Told
<1>13. Current(n) => /\ Fits(files[n], log, base[n]) /\ files[n].offset \in Nat
                     /\ files[n].offset <= Len(log)
  BY <1>3, <1>4 DEF Safe, EntryFits, Fits
<1>14. Safe(n)'
  <2>1. Log(n)'
    BY <1>1, <1>4, <1>5, <1>8 DEF Log
  <2>2. CreatedLast(n)'
    BY <1>1, <1>2, <1>3, <1>10 DEF Safe, CreatedLast, Told
  <2>3. EntryFits(n)'
    <3> SUFFICES ASSUME Current(n) PROVE Fits(files[n], new, base[n])
      BY <1>1, <1>8, <1>12 DEF EntryFits
    <3>1. files[n].offset \in base[n] .. Len(new)
      BY <1>4, <1>5, <1>13 DEF Fits
    <3>2. files[n].offset % 2 = 1 => files[n].offset \in 1 .. Len(log)
      BY <1>4, <1>13
    <3> QED
      BY <1>5, <1>13, <3>1, <3>2 DEF Fits
  <2>4. ReadIsDelivered(n)'
    <3> SUFFICES ASSUME Current(n), NEW j \in Started(n) + 1 .. files[n].offset \div 2
                 PROVE  [line |-> new[2 * j].line, whole |-> TRUE] \in Range(delivered[n])
      BY <1>1, <1>8, <1>12 DEF ReadIsDelivered, Delivers, Started
    <3>1. Started(n) \in Nat
      BY <1>4 DEF Started
    <3>2. 2 * j \in 1 .. Len(log)
      BY <1>4, <1>13, <3>1
    <3> QED
      BY <1>3, <1>5, <3>2 DEF Safe, ReadIsDelivered, Delivers
  <2>5. RestWillBeRead(n)'
    BY <1>1, <1>10 DEF RestWillBeRead
  <2>6. ReadOnce(n)'
    <3> SUFFICES ASSUME replaced = 0 PROVE ReadOnce(n)'
      BY <1>1 DEF ReadOnce
    <3>1. /\ CreatesFirst(Pending', n)
          /\ Clears(Pending', n) => delivered[n] = <<>> /\ base[n] = 0
          /\ phase # "running" => delivered[n] = <<>>
      BY <1>3, <1>10 DEF Safe, ReadOnce
    <3>2. ASSUME Scanned(n), ~Clears(Pending', n) PROVE ReadSoFar(n)'
      <4>1. ReadSoFar(n)
        BY <1>1, <1>3, <1>10, <3>2 DEF Safe, ReadOnce
      <4>2. CASE files[n] = None
        BY <1>1, <4>1, <4>2 DEF ReadSoFar
      <4>3. CASE files[n] # None
        <5>1. Current(n)
          BY <1>1, <1>10, <3>2, <4>3 DEF Current, Told
        <5>2. /\ Started(n) \in Nat /\ files[n].offset \div 2 \in Nat
              /\ 2 * (files[n].offset \div 2) <= Len(log)
          BY <1>4, <1>13, <5>1 DEF Started
        <5>3. Lines(new, Started(n), files[n].offset \div 2)
                = Lines(log, Started(n), files[n].offset \div 2)
          <6> HIDE DEF log
          <6> QED
            BY <1>4, <1>5, <5>2, LinesKept
        <5>4. Started(n)' = Started(n)
          BY <1>1 DEF Started
        <5> QED
          BY <1>1, <1>8, <4>1, <4>3, <5>3, <5>4 DEF ReadSoFar
      <4> QED
        BY <4>2, <4>3
    <3>3. Scanned(n)' => Scanned(n)
      BY <1>1 DEF Scanned
    <3> QED
      BY <1>1, <1>5, <1>8, <3>1, <3>2, <3>3 DEF ReadOnce
  <2> QED
    BY <2>1, <2>2, <2>3, <2>4, <2>5, <2>6 DEF Safe
<1> QED
  BY <1>2, <1>6, <1>7, <1>11, <1>14 DEF IInv

\* A log that is gone owes nothing.
LEMMA DeleteLogSafe == ASSUME IInv, NEW n \in Names, DeleteLog(n) PROVE IInv'
<1> DEFINE e == Event(n, "deleted")
<1>1. /\ replaced < MaxReplaced /\ replaced' = replaced + 1
      /\ disk' = [disk EXCEPT ![n] = None]
      /\ Notify(Queued(Kernel, Event(n, "deleted")))
      /\ UNCHANGED <<daemonVars, base, moved, pieces>>
      /\ UNCHANGED <<phase, unscanned, batch, files, delivered>>
  BY DEF DeleteLog, daemonVars
<1>2. /\ queue' \in Seq(Events) /\ overflowed' \in BOOLEAN /\ (overflowed => overflowed')
      /\ Phases' /\ \A k \in Names \ {n} : SameFor(Pending', Pending, k)
  BY <1>1, GameStep DEF Kinds
<1>3. Types
  BY DEF IInv
<1>4. replaced' \in 0 .. MaxReplaced /\ replaced' # 0
  BY <1>1, <1>3, WatcherAssumption DEF Types
<1>5. Types'
  <2>1. disk' \in [Names -> {None} \cup Seq(Parts)]
    BY <1>1, <1>3 DEF Types
  <2> QED
    BY <1>1, <1>2, <1>3, <1>4, <2>1 DEF Types
<1>6. NoDeletions'
  BY <1>4 DEF NoDeletions
<1>7. ASSUME NEW k \in Names, k # n PROVE Safe(k)'
  <2>1. disk'[k] = disk[k] /\ pieces <= pieces' /\ (Scanned(k)' => Scanned(k))
    BY <1>1, <1>3, <1>7 DEF Types, Scanned
  <2> QED
    BY <1>1, <1>2, <1>3, <1>4, <1>5, <1>7, <2>1, Unaffected DEF IInv
<1>8. Safe(n)'
  <2>1. disk'[n] = None
    BY <1>1, <1>3 DEF Types
  <2> QED
    BY <1>4, <2>1 DEF Safe, Log, CreatedLast, EntryFits, ReadIsDelivered, Current,
                      RestWillBeRead, ReadOnce
<1> QED
  BY <1>2, <1>5, <1>6, <1>7, <1>8 DEF IInv

\* Both events of a move, unless the kernel drops one.
LEMMA MoveStep ==
  ASSUME IInv, NEW n \in Names, NEW m \in Names, n # m, UNCHANGED daemonVars,
         Notify(Queued(Queued(Kernel, Event(n, "deleted")), Event(m, "created")))
  PROVE  /\ queue' \in Seq(Events) /\ overflowed' \in BOOLEAN /\ (overflowed => overflowed')
         /\ Phases'
         /\ phase = "off" => Pending' = <<>> /\ Pending = <<>>
         /\ phase # "off" /\ ~overflowed' => Clears(Pending', m) /\ Recreates(Pending', m)
         /\ ~overflowed' => \A k \in Names \ {n, m} : SameFor(Pending', Pending, k)
<1> DEFINE d == Event(n, "deleted")
           c == Event(m, "created")
           k1 == Queued(Kernel, d)
           k2 == Queued(k1, c)
           Kernels == [queue : Seq(Events), overflowed : BOOLEAN]
<1>1. queue \in Seq(Events) /\ batch \in Seq(Events) /\ overflowed \in BOOLEAN
  BY DEF IInv, Types
<1>2. Kernel \in Kernels /\ Kernel.queue = queue /\ Kernel.overflowed = overflowed
  BY <1>1 DEF Kernel
<1>3. d \in Events /\ c \in Events /\ Forgets(c, m)
  BY EventTyped DEF Kinds
<1>4. batch' = batch /\ phase' = phase /\ unscanned' = unscanned
  BY DEF daemonVars
<1>5. CASE phase = "off"
  <2>1. queue = <<>> /\ batch = <<>> /\ queue' = queue /\ overflowed' = overflowed
    BY <1>5 DEF IInv, Phases, Notify
  <2>2. Pending' = <<>> /\ Pending = <<>>
    BY <1>4, <2>1 DEF Pending
  <2>3. Phases'
    BY <1>4, <2>1 DEF IInv, Phases
  <2> QED
    BY <1>1, <1>5, <2>1, <2>2, <2>3, SamePending
<1>6. CASE phase # "off"
  <2>1. queue' = k2.queue /\ overflowed' = k2.overflowed
    BY <1>6 DEF Notify
  <2> HIDE DEF k2, k1
  <2>2. /\ k1 \in Kernels /\ (overflowed => k1.overflowed)
        /\ \/ Follows(batch \o k1.queue, batch \o queue, d)
           \/ k1.overflowed /\ k1.queue = queue
    BY <1>1, <1>2, <1>3, QueuedIs DEF k1
  <2>3. /\ k2 \in Kernels /\ (k1.overflowed => k2.overflowed)
        /\ \/ Follows(batch \o k2.queue, batch \o k1.queue, c)
           \/ k2.overflowed /\ k2.queue = k1.queue
    BY <1>1, <1>3, <2>2, QueuedIs DEF k2
  <2>4. Phases'
    BY <1>4, <1>6 DEF IInv, Phases
  <2>5. ASSUME ~overflowed'
        PROVE  /\ Clears(Pending', m) /\ Recreates(Pending', m)
               /\ \A k \in Names \ {n, m} : SameFor(Pending', Pending, k)
    <3> DEFINE p == batch \o queue
               p1 == batch \o k1.queue
               p2 == batch \o k2.queue
    <3>1. Pending = p /\ Pending' = p2
      BY <1>4, <2>1 DEF Pending
    <3>2. Follows(p1, p, d) /\ Follows(p2, p1, c)
      BY <2>1, <2>2, <2>3, <2>5
    <3>3. p \in Seq(Events) /\ p1 \in Seq(Events)
      BY <1>1, <2>2
    <3> HIDE DEF p, p1, p2
    <3>4. Clears(p2, m) /\ Recreates(p2, m)
      BY <1>3, <3>2, <3>3, PendingFollows
    <3>5. ASSUME NEW k \in Names \ {n, m} PROVE SameFor(p2, p, k)
      <4>1. SameFor(p1, p, k) /\ SameFor(p2, p1, k)
        BY <3>2, <3>3, OtherPending DEF Kinds
      <4> QED
        BY <4>1 DEF SameFor
    <3> QED
      BY <3>1, <3>4, <3>5
  <2> QED
    BY <1>6, <2>1, <2>2, <2>3, <2>4, <2>5
<1> QED
  BY <1>5, <1>6

\* A log that was moved owes nothing yet under its new name.
LEMMA MoveLogSafe == ASSUME IInv, NEW n \in Names, NEW m \in Names, MoveLog(n, m) PROVE IInv'
<1> DEFINE from == IF Tailed(n) \/ Event(n, "created") \in Range(queue)
                   THEN base[n] ELSE Len(disk[n])
<1>1. /\ disk[n] # None /\ disk[m] = None
      /\ replaced < MaxReplaced /\ replaced' = replaced + 1
      /\ disk' = [disk EXCEPT ![n] = None, ![m] = disk[n]]
      /\ base' = [base EXCEPT ![m] = from]
      /\ moved' = moved \cup {m}
      /\ Notify(Queued(Queued(Kernel, Event(n, "deleted")), Event(m, "created")))
      /\ UNCHANGED <<daemonVars, pieces>>
      /\ UNCHANGED <<phase, unscanned, batch, files, delivered>>
  BY DEF MoveLog, daemonVars
<1>2. n # m
  BY <1>1
<1>3. /\ queue' \in Seq(Events) /\ overflowed' \in BOOLEAN /\ (overflowed => overflowed')
      /\ Phases'
      /\ phase = "off" => Pending' = <<>> /\ Pending = <<>>
      /\ phase # "off" /\ ~overflowed' => Clears(Pending', m) /\ Recreates(Pending', m)
      /\ ~overflowed' => \A k \in Names \ {n, m} : SameFor(Pending', Pending, k)
  BY <1>1, <1>2, MoveStep
<1>4. Types /\ Log(n)
  BY DEF IInv, Safe
<1>5. replaced' \in 0 .. MaxReplaced /\ replaced' # 0
  BY <1>1, <1>4, WatcherAssumption DEF Types
<1>6. /\ IsLog(disk[n]) /\ Len(disk[n]) <= pieces /\ Len(disk[n]) \in Nat
      /\ disk[n] \in Seq(Parts)
      /\ from \in Nat /\ from <= Len(disk[n])
  <2>1. /\ IsLog(disk[n]) /\ Len(disk[n]) <= pieces /\ Len(disk[n]) \in Nat
        /\ disk[n] \in Seq(Parts) /\ base[n] \in Nat /\ base[n] <= Len(disk[n])
    BY <1>1, <1>4 DEF Log, IsLog, Types
  <2> QED
    BY <2>1
<1> HIDE DEF from
<1>7. /\ disk'[n] = None /\ disk'[m] = disk[n] /\ base'[m] = from /\ m \in moved'
      /\ \A k \in Names \ {n, m} : disk'[k] = disk[k] /\ base'[k] = base[k]
  BY <1>1, <1>2, <1>4 DEF Types
<1>8. Types'
  <2>1. disk' \in [Names -> {None} \cup Seq(Parts)] /\ base' \in [Names -> Nat]
    BY <1>1, <1>4, <1>6 DEF Types
  <2> QED
    BY <1>1, <1>3, <1>4, <1>5, <2>1 DEF Types
<1>9. NoDeletions'
  BY <1>5 DEF NoDeletions
<1>10. ASSUME NEW k \in Names \ {n, m} PROVE Safe(k)'
  <2>1. CASE ~overflowed'
    <3>1. pieces <= pieces' /\ (Scanned(k)' => Scanned(k))
      BY <1>1, <1>4 DEF Types, Scanned
    <3> QED
      BY <1>1, <1>3, <1>4, <1>5, <1>7, <1>8, <2>1, <3>1, Unaffected DEF IInv
  <2>2. CASE overflowed'
    <3>1. ~Told'
      BY <1>5, <2>2 DEF Told
    <3>2. Log(k)'
      BY <1>1, <1>7 DEF IInv, Safe, Log
    <3> QED
      BY <1>5, <2>2, <3>1, <3>2 DEF Safe, CreatedLast, EntryFits, ReadIsDelivered, Current,
                                   RestWillBeRead, ReadOnce
  <2> QED
    BY <1>3, <2>1, <2>2
<1>11. Safe(n)'
  BY <1>5, <1>7 DEF Safe, Log, CreatedLast, EntryFits, ReadIsDelivered, Current,
                    RestWillBeRead, ReadOnce
<1>12. Safe(m)'
  <2>1. Log(m)'
    BY <1>1, <1>6, <1>7 DEF Log
  <2>2. Told' => ~overflowed'
    BY <1>5 DEF Told
  <2>3. CreatedLast(m)'
    BY <1>3, <2>2, NothingPending DEF CreatedLast
  <2>4. ~Current(m)'
    BY <1>1, <1>3, <2>2 DEF Current, Scanned
  <2>5. RestWillBeRead(m)'
    BY <1>1, <1>3, <1>7 DEF RestWillBeRead, OwesNothing
  <2> QED
    BY <1>5, <2>1, <2>3, <2>4, <2>5 DEF Safe, EntryFits, ReadIsDelivered, ReadOnce
<1> QED
  BY <1>3, <1>8, <1>9, <1>10, <1>11, <1>12 DEF IInv

\* Halves of numbers.
LEMMA HalfOf ==
  ASSUME NEW k \in Nat
  PROVE  k \div 2 \in Nat /\ (k + 1) \div 2 \in Nat /\ k \div 2 <= (k + 1) \div 2
OBVIOUS

\* The invariant is one: an entry that nothing pending drops is right, and what it
\* does not count as read will be.
THEOREM InductiveInvariant == Spec => []IInv
<1>1. IInv /\ [Next]_vars => IInv'
  <2> SUFFICES ASSUME IInv, [Next]_vars PROVE IInv'
    OBVIOUS
  <2>1. CASE Daemon
    BY <2>1, StartWatchSafe, ListFilesSafe, ScanFileSafe, StartDoneSafe, OnReadyReadSafe,
       HandleEventSafe DEF Daemon
  <2>2. CASE Game
    BY <2>2, CreateLogSafe, WritePieceSafe, DeleteLogSafe, MoveLogSafe DEF Game
  <2>3. CASE UNCHANGED vars
    BY <2>3, StutterSafe
  <2> QED
    BY <2>1, <2>2, <2>3 DEF Next
<1> QED
  BY <1>1, InitSafe, PTL DEF Spec

\* Every member of the watcher keeps its C++ type, and the unfinished line it
\* remembers of a file never holds a newline.
THEOREM TypeCorrect == Spec => []TypeOK
<1>1. IInv => TypeOK
  <2> SUFFICES ASSUME IInv PROVE TypeOK
    OBVIOUS
  <2>1. ASSUME NEW n \in Names, files[n] # None
        PROVE  /\ files[n] \in Entry
               /\ \A i \in DOMAIN files[n].partial : ~files[n].partial[i].ends
    <3>1. files[n] \in Entry /\ Unfinished(files[n].partial)
      BY <2>1 DEF IInv, Types
    <3>2. DOMAIN files[n].partial = 1 .. Len(files[n].partial)
      BY <3>1 DEF Entry
    <3> QED
      BY <3>1, <3>2 DEF Unfinished
  <2> QED
    BY <2>1 DEF IInv, Types, TypeOK
<1> QED
  BY <1>1, InductiveInvariant, PTL

\* However logs were deleted, created again and renamed between the events of a
\* batch, when every event is handled and the kernel dropped none, each
\* complete line that a log holds past where tailing began was delivered, unless
\* the log was renamed and not written to since.
THEOREM NothingIsMissed == Spec => []NothingMissedWhenIdle
<1>1. IInv => NothingMissedWhenIdle
  <2> SUFFICES ASSUME IInv, Idle, NEW n \in Names, n \notin moved
               PROVE  Range(Owed(n)) \subseteq Range(delivered[n])
    BY DEF NothingMissedWhenIdle
  <2> USE DEF Idle
  <2>1. Pending = <<>> /\ ~Clears(Pending, n) /\ ~Reads(Pending, n)
    BY NothingPending DEF Pending
  <2>2. Told /\ Scanned(n) /\ unscanned = {}
    BY DEF IInv, Phases, Told, Scanned
  <2>3. CASE disk[n] = None
    <3>1. Owed(n) = <<>>
      BY <2>3 DEF Owed
    <3> QED
      BY <3>1 DEF Range
  <2>4. CASE disk[n] # None
    <3> DEFINE half == Len(disk[n]) \div 2
    <3>1. /\ Owed(n) = Lines(disk[n], Started(n), half)
          /\ Len(disk[n]) \in Nat /\ base[n] \in Nat
      BY <2>2, <2>4 DEF Owed, Tailed, Started, IInv, Safe, Log, IsLog, Types
    <3>2. Started(n) \in Nat /\ half \in Nat /\ Started(n) = (base[n] + 1) \div 2
      BY <3>1, HalfOf DEF Started
    <3>3. IF files[n] = None THEN Len(disk[n]) = base[n] ELSE files[n].offset = Len(disk[n])
      BY <2>1, <2>2, <2>4 DEF IInv, Safe, RestWillBeRead, OwesNothing
    <3>4. CASE files[n] = None
      <4>1. half = base[n] \div 2
        BY <3>3, <3>4
      <4>2. half <= Started(n)
        <5> HIDE DEF half
        <5> QED
          BY <3>1, <3>2, <4>1
      <4>3. Owed(n) = <<>>
        BY <3>1, <3>2, <4>2, NoLines
      <4> QED
        BY <4>3 DEF Range
    <3>5. CASE files[n] # None
      <4>1. Current(n)
        BY <2>1, <2>2, <2>4, <3>5 DEF Current
      <4>2. Delivers(delivered[n], disk[n], Started(n), half)
        BY <3>3, <3>5, <4>1 DEF IInv, Safe, ReadIsDelivered
      <4> HIDE DEF half
      <4>3. ASSUME NEW e \in Range(Owed(n)) PROVE e \in Range(delivered[n])
        <5>1. \E j \in Started(n) + 1 .. half : e = [line |-> disk[n][2 * j].line, whole |-> TRUE]
          <6>1. e \in Range(Lines(disk[n], Started(n), half))
            BY <3>1, <4>3
          <6> QED
            BY <3>2, <6>1, LinesOnly
        <5> QED
          BY <4>2, <5>1 DEF Delivers
      <4> QED
        BY <4>3
    <3> QED
      BY <3>4, <3>5
  <2> QED
    BY <2>3, <2>4
<1> QED
  BY <1>1, InductiveInvariant, PTL

-----------------------------------------------------------------------------
(* The abstract tailer. *)

\* A sequence, and nothing, come before a sequence.
LEMMA PrefixSelf ==
  ASSUME NEW S, NEW s \in Seq(S)
  PROVE  s \in Tailing!Prefixes(s) /\ <<>> \in Tailing!Prefixes(s)
<1>1. Len(s) \in 0 .. Len(s) /\ 0 \in 0 .. Len(s)
  OBVIOUS
<1>2. SubSeq(s, 1, Len(s)) = s
  BY SubSeqFull
<1>3. SubSeq(s, 1, 0) = <<>>
  BY SubSeqEmpty
<1> QED
  BY <1>1, <1>2, <1>3 DEF Tailing!Prefixes

\* A sequence comes before what it is the beginning of.
LEMMA PrefixConcat ==
  ASSUME NEW S, NEW s \in Seq(S), NEW t \in Seq(S)
  PROVE  s \in Tailing!Prefixes(s \o t)
<1>1. Len(s) \in 0 .. Len(s \o t)
  OBVIOUS
<1>2. SubSeq(s \o t, 1, Len(s)) = s
  <2>1. /\ SubSeq(s \o t, 1, Len(s)) \in Seq(S)
        /\ Len(SubSeq(s \o t, 1, Len(s))) = Len(s)
        /\ \A i \in 1 .. Len(s) : SubSeq(s \o t, 1, Len(s))[i] = s[i]
    OBVIOUS
  <2> QED
    BY <2>1, SeqEqual
<1> QED
  BY <1>1, <1>2 DEF Tailing!Prefixes

\* Lines are a sequence.
LEMMA LinesTyped ==
  ASSUME NEW log, NEW from \in Nat, NEW to \in Nat
  PROVE  Lines(log, from, to) \in Seq(Range(Lines(log, from, to)))
BY LinesAre, Zenon

\* Lines read up to an earlier piece come before those up to a later one.
LEMMA PrefixLines ==
  ASSUME NEW log, NEW from \in Nat, NEW mid \in Nat, NEW to \in Nat, mid <= to
  PROVE  Lines(log, from, mid) \in Tailing!Prefixes(Lines(log, from, to))
<1> DEFINE one == Lines(log, from, mid)
           two == Lines(log, mid, to)
           all == Lines(log, from, to)
           S == Range(one) \cup Range(two)
<1>1. CASE from <= mid
  <2>1. one \o two = all
    BY <1>1, LinesJoin
  <2>2. one \in Seq(Range(one)) /\ two \in Seq(Range(two))
    BY LinesTyped
  <2> HIDE DEF one, two, all
  <2>3. one \in Seq(S) /\ two \in Seq(S)
    BY <2>2, SeqMonotonic
  <2> HIDE DEF S
  <2>4. one \in Tailing!Prefixes(all)
    BY <2>1, <2>3, PrefixConcat
  <2> QED
    BY <2>4 DEF one, all
<1>2. CASE ~(from <= mid)
  <2>1. one = <<>>
    BY <1>2, NoLines
  <2>2. all \in Seq(Range(all))
    BY LinesTyped
  <2> HIDE DEF one, all
  <2>3. one \in Tailing!Prefixes(all)
    BY <2>1, <2>2, PrefixSelf
  <2> QED
    BY <2>3 DEF one, all
<1> QED
  BY <1>1, <1>2

\* What a log owes, by what it holds and whether it was scanned.
OwedOf(log, scanned, start) ==
  IF log = None \/ ~scanned THEN <<>> ELSE Lines(log, (start + 1) \div 2, Len(log) \div 2)

\* So is what a log owes.
LEMMA OwedOfTyped ==
  ASSUME NEW log, NEW scanned, NEW start \in Nat, log # None => Len(log) \in Nat
  PROVE  \E S : OwedOf(log, scanned, start) \in Seq(S)
<1>1. CASE log = None \/ ~scanned
  <2>1. OwedOf(log, scanned, start) \in Seq({})
    BY <1>1 DEF OwedOf
  <2> QED
    BY <2>1
<1>2. CASE ~(log = None \/ ~scanned)
  <2> DEFINE from == (start + 1) \div 2
             to == Len(log) \div 2
  <2>1. from \in Nat /\ to \in Nat
    BY <1>2, HalfOf
  <2>2. OwedOf(log, scanned, start) = Lines(log, from, to)
    BY <1>2 DEF OwedOf
  <2> HIDE DEF from, to
  <2>3. Lines(log, from, to) \in Seq(Range(Lines(log, from, to)))
    BY <2>1, LinesTyped
  <2> QED
    BY <2>2, <2>3
<1> QED
  BY <1>1, <1>2

\* What a log owes is that.
LEMMA OwedIs == Types => \A n \in Names : Owed(n) = OwedOf(disk[n], Scanned(n), base[n])
BY DEF Owed, Tailed, Types, Scanned, OwedOf

\* A step that hands nothing on and unwrites no line.
LEMMA OnlyWritten ==
  ASSUME IInv, IInv', UNCHANGED delivered,
         \A n \in Names : \/ Owed(n)' = Owed(n)
                          \/ Owed(n) = <<>>
                          \/ Owed(n) \in Tailing!Prefixes(Owed(n)')
  PROVE  Tailing!Write
<1> SUFFICES ASSUME NEW n \in Names PROVE Owed(n) \in Tailing!Prefixes(Owed(n)')
  BY DEF Tailing!Write
<1>1. /\ base'[n] \in Nat
      /\ disk'[n] # None => Len(disk'[n]) \in Nat
      /\ phase' \in {"off", "watching", "scanning", "running"}
  BY DEF IInv, Safe, Log, IsLog, Types
<1>2. Owed(n)' = OwedOf(disk'[n], Scanned(n)', base'[n])
  BY <1>1 DEF Owed, Tailed, Scanned, OwedOf
<1>3. PICK S : Owed(n)' \in Seq(S)
  BY <1>1, <1>2, OwedOfTyped
<1> QED
  BY <1>3, PrefixSelf

\* The step of the abstract tailer that a step of the watcher is.
Tails == Tailing!Write \/ (\E n \in Names : Tailing!CatchUp(n))
         \/ ((\A n \in Names : Owed(n)' = Owed(n)) /\ UNCHANGED delivered)

\* A step of the daemon catches up with a log, begins to tail it, or does neither.
LEMMA DaemonTails ==
  ASSUME IInv, IInv', replaced = 0, Daemon
  PROVE  Tails
<1>1. \A n \in Names : Owed(n) = OwedOf(disk[n], Scanned(n), base[n])
  BY OwedIs DEF IInv
<1>2. /\ IInv' => phase' \in {"off", "watching", "scanning", "running"}
      /\ phase' \in {"off", "watching", "scanning", "running"} =>
           \A n \in Names : Owed(n)' = OwedOf(disk'[n], Scanned(n)', base'[n])
  BY DEF Owed, Tailed, Scanned, OwedOf, IInv, Types
<1>3. CASE StartWatch
  <2>1. \A n \in Names : ~Scanned(n) /\ ~Scanned(n)'
    BY <1>3 DEF StartWatch, Scanned
  <2> QED
    BY <1>1, <1>2, <1>3, <2>1 DEF Tails, OwedOf, StartWatch
<1>4. CASE ListFiles
  <2>1. \A n \in Names : ~Scanned(n) /\ (disk'[n] = None \/ ~Scanned(n)')
    BY <1>4 DEF ListFiles, Scanned
  <2> QED
    BY <1>1, <1>2, <1>4, <2>1 DEF Tails, OwedOf, ListFiles
<1>5. ASSUME NEW n \in Names, ScanFile(n) PROVE Tails
  <2>1. /\ disk' = disk /\ delivered' = delivered
        /\ \A k \in Names \ {n} : base'[k] = base[k] /\ (Scanned(k)' <=> Scanned(k))
        /\ ~Scanned(n)
    BY <1>5 DEF ScanFile, Scanned, IInv, Types
  <2>2. \A k \in Names \ {n} : Owed(k)' = Owed(k)
    BY <1>1, <1>2, <2>1 DEF OwedOf
  <2>3. Owed(n) = <<>>
    BY <1>1, <2>1 DEF OwedOf
  <2>4. Tailing!Write
    BY <2>1, <2>2, <2>3, OnlyWritten
  <2> QED
    BY <2>4 DEF Tails
<1>6. CASE StartDone
  <2>1. \A n \in Names : Scanned(n)' <=> Scanned(n)
    BY <1>6 DEF StartDone, Scanned
  <2> QED
    BY <1>1, <1>2, <1>6, <2>1 DEF Tails, OwedOf, StartDone
<1>7. CASE OnReadyRead
  <2>1. \A n \in Names : Scanned(n)' <=> Scanned(n)
    BY <1>7 DEF OnReadyRead, Scanned
  <2> QED
    BY <1>1, <1>2, <1>7, <2>1 DEF Tails, OwedOf, OnReadyRead
<1>8. CASE HandleEvent
  <2> DEFINE event == Head(batch)
             n == event.name
  <2>1. /\ Pending \in Seq(Events) /\ Pending # <<>> /\ Pending' = Tail(Pending)
        /\ event \in Events /\ event = Head(Pending) /\ phase = "running" /\ unscanned = {}
        /\ UNCHANGED <<disk, phase, unscanned, base>>
    BY <1>8, HandledEvent
  <2>2. n \in Names
    BY <2>1, EventsAre
  <2>3. \A k \in Names : Owed(k)' = Owed(k)
    BY <2>1 DEF Owed, Tailed
  <2>4. CASE UNCHANGED delivered
    BY <2>3, <2>4 DEF Tails
  <2>5. CASE event.kind = "modified" /\ disk[n] # None
    <3>1. event = Event(n, "modified") /\ ReadNewData(n)
      BY <1>8, <2>1, <2>5, EventsAre DEF HandleEvent
    <3>2. CreatesFirst(Pending, n) /\ ~Deletes(Pending)
      BY <2>2 DEF IInv, Safe, ReadOnce, NoDeletions
    <3>3. ~Clears(Pending', n)
      BY <2>1, <3>2, PendingHandled
    <3>4. Told
      BY DEF Told
    <3> HIDE DEF n
    <3>5. /\ delivered'[n] = Lines(disk[n], Started(n), Len(disk[n]) \div 2)
          /\ \E k \in Nat : delivered'[n] = delivered[n] \o Lines(disk[n], k, Len(disk[n]) \div 2)
      BY <1>8, <2>2, <2>5, <3>1, <3>3, <3>4, ReadDelivers DEF event
    <3>6. \A k \in Names \ {n} : delivered'[k] = delivered[k]
      BY <2>2, <3>1, ReadTyped DEF IInv, Safe
    <3>7. Owed(n) = delivered'[n]
      BY <1>1, <2>1, <2>2, <2>5, <3>5 DEF OwedOf, Scanned, Started
    <3>8. Len(disk[n]) \in Nat /\ delivered[n] \in Seq(LineRecords)
          /\ delivered'[n] \in Seq(LineRecords)
      BY <2>2, <2>5 DEF IInv, Types, Safe, Log, IsLog
    <3>9. delivered[n] \in Tailing!Prefixes(delivered'[n])
      <4> DEFINE half == Len(disk[n]) \div 2
      <4>1. PICK k \in Nat : delivered'[n] = delivered[n] \o Lines(disk[n], k, half)
        BY <3>5
      <4>2. half \in Nat
        BY <3>8, HalfOf
      <4> HIDE DEF half
      <4> DEFINE rest == Lines(disk[n], k, half)
                 S == LineRecords \cup Range(rest)
      <4>3. rest \in Seq(Range(rest))
        BY <4>2, LinesTyped
      <4> HIDE DEF rest
      <4>4. rest \in Seq(S) /\ delivered[n] \in Seq(S)
        BY <3>8, <4>3, SeqMonotonic
      <4> HIDE DEF S
      <4>5. delivered[n] \in Tailing!Prefixes(delivered[n] \o rest)
        BY <4>4, PrefixConcat
      <4> QED
        BY <4>1, <4>5 DEF rest
    <3>10. delivered'[n] \in Tailing!Prefixes(Owed(n))
      BY <3>7, <3>8, PrefixSelf
    <3>11. Tailing!CatchUp(n)
      BY <2>2, <2>3, <3>6, <3>9, <3>10 DEF Tailing!CatchUp
    <3> QED
      BY <2>2, <3>11 DEF Tails
  <2>6. event.kind # "modified" \/ disk[n] = None => UNCHANGED delivered
    BY <1>8 DEF HandleEvent, Forget, ReadNewData
  <2> QED
    BY <2>4, <2>5, <2>6
<1> QED
  BY <1>3, <1>4, <1>5, <1>6, <1>7, <1>8 DEF Daemon

\* A step of the game writes.
LEMMA GameTails ==
  ASSUME IInv, IInv', replaced = 0, replaced' = 0, Game
  PROVE  Tails
<1>1. \A n \in Names : Owed(n) = OwedOf(disk[n], Scanned(n), base[n])
  BY OwedIs DEF IInv
<1>2. /\ IInv' => phase' \in {"off", "watching", "scanning", "running"}
      /\ phase' \in {"off", "watching", "scanning", "running"} =>
           \A n \in Names : Owed(n)' = OwedOf(disk'[n], Scanned(n)', base'[n])
  BY DEF Owed, Tailed, Scanned, OwedOf, IInv, Types
<1>3. ASSUME NEW n \in Names, CreateLog(n) PROVE Tails
  <2>1. /\ disk[n] = None /\ delivered' = delivered
        /\ \A k \in Names \ {n} : disk'[k] = disk[k] /\ base'[k] = base[k]
        /\ \A k \in Names : Scanned(k)' <=> Scanned(k)
    BY <1>3 DEF CreateLog, daemonVars, Scanned, IInv, Types
  <2>2. \A k \in Names \ {n} : Owed(k)' = Owed(k)
    BY <1>1, <1>2, <2>1 DEF OwedOf
  <2>3. Owed(n) = <<>>
    BY <1>1, <2>1 DEF OwedOf
  <2>4. Tailing!Write
    BY <2>1, <2>2, <2>3, OnlyWritten
  <2> QED
    BY <2>4 DEF Tails
<1>4. ASSUME NEW n \in Names, WritePiece(n) PROVE Tails
  <2> DEFINE log == disk[n]
             new == Append(log, NextPiece(log, pieces + 1))
  <2>1. /\ log # None /\ delivered' = delivered /\ base' = base /\ disk'[n] = new
        /\ \A k \in Names \ {n} : disk'[k] = disk[k]
        /\ \A k \in Names : Scanned(k)' <=> Scanned(k)
        /\ pieces + 1 \in 1 .. MaxPieces
    BY <1>4, WatcherAssumption DEF WritePiece, daemonVars, Scanned, IInv, Types
  <2>2. \A k \in Names \ {n} : Owed(k)' = Owed(k)
    BY <1>1, <1>2, <2>1 DEF OwedOf
  <2>3. CASE ~Scanned(n)
    <3>1. Owed(n) = <<>>
      BY <1>1, <2>3 DEF OwedOf
    <3>2. Tailing!Write
      BY <2>1, <2>2, <3>1, OnlyWritten
    <3> QED
      BY <3>2 DEF Tails
  <2>4. CASE Scanned(n)
    <3>1. IsLog(log) /\ Len(log) \in Nat /\ base[n] \in Nat
      BY <2>1 DEF IInv, Types, Safe, Log, IsLog
    <3>2. /\ Len(new) = Len(log) + 1 /\ IsLog(new)
          /\ \A i \in 1 .. Len(log) : new[i] = log[i]
      BY <2>1, <3>1, PieceKeepsLog
    <3>3. new # None
      BY <3>2, NoneAssumption DEF IsLog
    <3> DEFINE from == (base[n] + 1) \div 2
               mid == Len(log) \div 2
               to == (Len(log) + 1) \div 2
    <3>4. from \in Nat /\ mid \in Nat /\ to \in Nat /\ mid <= to
      BY <3>1, HalfOf
    <3>5. 2 * mid <= Len(log)
      <4> DEFINE l == Len(log)
      <4>1. l \in Nat
        BY <3>1
      <4> HIDE DEF l
      <4>2. 2 * (l \div 2) <= l
        BY <4>1
      <4> QED
        BY <4>2 DEF l
    <3> HIDE DEF log, new
    <3>6. Owed(n) = Lines(log, from, mid) /\ Owed(n)' = Lines(new, from, to)
      BY <1>1, <1>2, <2>1, <2>4, <3>2, <3>3 DEF OwedOf, log
    <3> HIDE DEF from, mid, to
    <3>7. Lines(new, from, mid) = Lines(log, from, mid)
      BY <3>1, <3>2, <3>4, <3>5, LinesKept
    <3>8. Lines(new, from, mid) \in Tailing!Prefixes(Lines(new, from, to))
      BY <3>4, PrefixLines
    <3>9. Owed(n) \in Tailing!Prefixes(Owed(n)')
      BY <3>6, <3>7, <3>8
    <3>10. Tailing!Write
      BY <2>1, <2>2, <3>9, OnlyWritten
    <3> QED
      BY <3>10 DEF Tails
  <2> QED
    BY <2>3, <2>4
<1>5. ASSUME NEW n \in Names, DeleteLog(n) PROVE FALSE
  BY <1>5 DEF DeleteLog
<1>6. ASSUME NEW n \in Names, NEW m \in Names, MoveLog(n, m) PROVE FALSE
  BY <1>6 DEF MoveLog
<1> QED
  BY <1>3, <1>4, <1>5, <1>6 DEF Game

\* Logs once deleted or moved have been.
LEMMA StillUntouched == ASSUME Types, [Next]_vars, replaced' = 0 PROVE replaced = 0
<1>1. replaced \in Nat
  BY WatcherAssumption DEF Types
<1>2. replaced' = replaced \/ replaced' = replaced + 1
  BY DEF vars, daemonVars, Next, Daemon, Game, StartWatch, ListFiles, ScanFile, StartDone,
         OnReadyRead, HandleEvent, CreateLog, WritePiece, DeleteLog, MoveLog
<1> QED
  BY <1>1, <1>2

\* Until a log is deleted or moved, the watcher tails the logs: the lines of
\* each reach the tracker once, whole and in order, whatever the interleaving
\* of writes, reads and start(), and even if the kernel's queue overflows.
THEOREM TailsLogs == Spec => LogsAreTailed
<1>1. Init => Tailing!Init
  <2> SUFFICES ASSUME Init PROVE Tailing!Init
    OBVIOUS
  <2>1. \A n \in Names : Owed(n) = <<>>
    BY DEF Init, Owed, Tailed
  <2> QED
    BY <2>1 DEF Init, Tailing!Init
<1>2. IInv /\ IInv' /\ [Next]_vars => [replaced' = 0 => Tailing!Next]_(Tailing!vars)
  <2> SUFFICES ASSUME IInv, IInv', [Next]_vars, replaced' = 0
               PROVE  [Tailing!Next]_(Tailing!vars)
    OBVIOUS
  <2>1. CASE Tails
    BY <2>1 DEF Tails, Tailing!Next, Tailing!vars
  <2>2. CASE UNCHANGED vars
    <3>1. \A n \in Names : Owed(n)' = Owed(n)
      BY <2>2 DEF vars, daemonVars, Owed, Tailed
    <3> QED
      BY <2>2, <3>1 DEF vars, daemonVars, Tailing!vars
  <2>3. replaced = 0
    BY StillUntouched DEF IInv
  <2> QED
    BY <2>1, <2>2, <2>3, DaemonTails, GameTails DEF Next
<1> QED
  BY <1>1, <1>2, InductiveInvariant, PTL DEF Spec, LogsAreTailed

-----------------------------------------------------------------------------
(* Lines received twice. *)

\* A line begins with a number that no piece before it has.
Rising(c) == \A i, j \in 1 .. Len(c) : i < j /\ j % 2 = 1 => c[i].line < c[j].line

\* No line was numbered that the game has not written.
Numbered ==
  \A n \in Names : disk[n] # None =>
    Rising(disk[n]) /\ \A i \in 1 .. Len(disk[n]) : disk[n][i].line <= pieces

\* The lines of a log are numbered.
LEMMA LineNumbers ==
  ASSUME NEW c, IsLog(c)
  PROVE  \A i \in 1 .. Len(c) : c[i].line \in Nat
<1> SUFFICES ASSUME NEW i \in 1 .. Len(c) PROVE c[i].line \in Nat
  OBVIOUS
<1>1. c[i] \in Parts
  BY DEF IsLog
<1>2. c[i].line \in 1 .. MaxPieces
  BY <1>1 DEF Parts
<1> QED
  BY <1>2, WatcherAssumption

\* The game writes on, and its lines go on rising.
LEMMA WriteRises ==
  ASSUME NEW c, IsLog(c), NEW k \in Nat, k + 1 \in 1 .. MaxPieces, Rising(c),
         \A i \in 1 .. Len(c) : c[i].line <= k
  PROVE  LET d == Append(c, NextPiece(c, k + 1)) IN
         Rising(d) /\ \A i \in 1 .. Len(d) : d[i].line <= k + 1
<1> DEFINE d == Append(c, NextPiece(c, k + 1))
           n == Len(c)
<1>1. /\ n \in Nat /\ Len(d) = n + 1 /\ \A i \in 1 .. n : d[i] = c[i] /\ c[i].line \in Nat
  BY PieceKeepsLog, LineNumbers DEF IsLog
<1>2. d[n + 1] = NextPiece(c, k + 1)
  BY DEF IsLog
<1>3. n % 2 = 0 => NextPiece(c, k + 1).line = k + 1
  <2>1. n = 0 => c = <<>>
    BY DEF IsLog
  <2>2. n # 0 => Last(c) = c[n] /\ n \in 1 .. n
    BY <1>1 DEF Last
  <2> QED
    BY <2>1, <2>2 DEF NextPiece, IsLog
<1>4. NextPiece(c, k + 1).line <= k + 1
  <2>1. CASE c = <<>> \/ Last(c).ends
    BY <2>1 DEF NextPiece
  <2>2. CASE ~(c = <<>> \/ Last(c).ends)
    <3>1. n # 0 /\ Last(c) = c[n] /\ n \in 1 .. n
      BY <1>1, <2>2 DEF Last, IsLog
    <3>2. c[n].line \in Nat /\ c[n].line <= k
      BY <1>1, <3>1
    <3>3. NextPiece(c, k + 1).line = c[n].line
      BY <2>2, <3>1 DEF NextPiece
    <3> QED
      BY <3>2, <3>3
  <2> QED
    BY <2>1, <2>2
<1> HIDE DEF d, n
<1>5. ASSUME NEW i \in 1 .. Len(d), NEW j \in 1 .. Len(d), i < j, j % 2 = 1
      PROVE  d[i].line < d[j].line
  <2>1. i \in 1 .. n
    BY <1>1, <1>5
  <2>2. d[i] = c[i] /\ c[i].line \in Nat /\ c[i].line <= k
    BY <1>1, <2>1 DEF n
  <2>3. CASE j \in 1 .. n
    BY <1>1, <1>5, <2>1, <2>2, <2>3 DEF Rising, n
  <2>4. CASE j = n + 1
    <3>1. n % 2 = 0
      BY <1>1, <1>5, <2>4
    <3>2. d[j].line = k + 1
      BY <1>2, <1>3, <2>4, <3>1
    <3> QED
      BY <2>2, <3>2
  <2> QED
    BY <1>1, <1>5, <2>3, <2>4
<1>6. ASSUME NEW i \in 1 .. Len(d)
      PROVE  d[i].line <= k + 1
  <2>1. CASE i \in 1 .. n
    <3>1. d[i] = c[i] /\ c[i].line \in Nat /\ c[i].line <= k
      BY <1>1, <2>1 DEF n
    <3> QED
      BY <3>1
  <2>2. CASE i = n + 1
    BY <1>2, <1>4, <2>2
  <2> QED
    BY <1>1, <1>6, <2>1, <2>2
<1> QED
  BY <1>5, <1>6 DEF Rising, d

\* No step gives two lines of a log one number.
LEMMA NumberedStays == IInv /\ Numbered /\ [Next]_vars => Numbered'
<1> SUFFICES ASSUME IInv, Numbered, [Next]_vars PROVE Numbered'
  OBVIOUS
<1>1. Types /\ pieces \in Nat
  BY DEF IInv, Types
<1>2. CASE UNCHANGED <<disk, pieces>>
  BY <1>2 DEF Numbered
<1>3. CASE Daemon
  <2>1. UNCHANGED <<disk, pieces>>
    BY <1>3 DEF Daemon, StartWatch, ListFiles, ScanFile, StartDone, OnReadyRead, HandleEvent
  <2> QED
    BY <1>2, <2>1
<1>4. ASSUME NEW n \in Names, CreateLog(n) PROVE Numbered'
  <2>1. /\ disk' = [disk EXCEPT ![n] = <<>>] /\ pieces' = pieces
    BY <1>4 DEF CreateLog
  <2>2. disk'[n] = <<>> /\ \A k \in Names \ {n} : disk'[k] = disk[k]
    BY <1>1, <2>1 DEF Types
  <2>3. 1 .. Len(<<>>) = {}
    OBVIOUS
  <2> QED
    BY <2>1, <2>2, <2>3 DEF Numbered, Rising
<1>5. ASSUME NEW n \in Names, WritePiece(n) PROVE Numbered'
  <2> DEFINE c == disk[n]
             d == Append(c, NextPiece(c, pieces + 1))
  <2>1. /\ c # None /\ pieces' = pieces + 1 /\ pieces + 1 \in 1 .. MaxPieces
        /\ disk' = [disk EXCEPT ![n] = d]
    BY <1>1, <1>5, WatcherAssumption DEF WritePiece
  <2>2. disk'[n] = d /\ \A k \in Names \ {n} : disk'[k] = disk[k]
    BY <1>1, <2>1 DEF Types
  <2>3. /\ IsLog(c) /\ Rising(c) /\ \A i \in 1 .. Len(c) : c[i].line <= pieces
    BY <2>1 DEF IInv, Safe, Log, Numbered
  <2>4. Rising(d) /\ \A i \in 1 .. Len(d) : d[i].line <= pieces + 1
    <3> HIDE DEF c
    <3> QED
      BY <1>1, <2>1, <2>3, WriteRises
  <2>5. ASSUME NEW k \in Names \ {n}, disk'[k] # None
        PROVE  Rising(disk'[k]) /\ \A i \in 1 .. Len(disk'[k]) : disk'[k][i].line <= pieces + 1
    <3>1. IsLog(disk[k]) /\ disk[k] # None
      BY <2>2, <2>5 DEF IInv, Safe, Log
    <3>2. \A i \in 1 .. Len(disk[k]) : disk[k][i].line \in Nat /\ disk[k][i].line <= pieces
      BY <3>1, LineNumbers DEF Numbered
    <3> QED
      BY <1>1, <2>2, <3>1, <3>2 DEF Numbered
  <2> HIDE DEF c, d
  <2> QED
    BY <2>1, <2>2, <2>4, <2>5 DEF Numbered
<1>6. ASSUME NEW n \in Names, DeleteLog(n) PROVE Numbered'
  <2>1. /\ disk' = [disk EXCEPT ![n] = None] /\ pieces' = pieces
    BY <1>6 DEF DeleteLog
  <2> QED
    BY <1>1, <2>1 DEF Numbered, Types
<1>7. ASSUME NEW n \in Names, NEW m \in Names, MoveLog(n, m) PROVE Numbered'
  <2>1. /\ disk' = [disk EXCEPT ![n] = None, ![m] = disk[n]] /\ pieces' = pieces
        /\ disk[n] # None
    BY <1>7 DEF MoveLog
  <2>2. \A k \in Names : disk'[k] \in {None, disk[k], disk[n]}
    BY <1>1, <2>1 DEF Types
  <2>3. ASSUME NEW k \in Names, disk'[k] # None
        PROVE  Rising(disk'[k]) /\ \A i \in 1 .. Len(disk'[k]) : disk'[k][i].line <= pieces
    BY <2>1, <2>2, <2>3 DEF Numbered
  <2> QED
    BY <2>1, <2>3 DEF Numbered
<1> QED
  BY <1>2, <1>3, <1>4, <1>5, <1>6, <1>7 DEF Next, Game, vars

\* Different lines of a log are different.
LEMMA LinesDiffer ==
  ASSUME NEW c, IsLog(c), Rising(c), NEW from \in Nat, NEW to \in Nat, 2 * to <= Len(c)
  PROVE  IsInjective(Lines(c, from, to))
<1> DEFINE l == Lines(c, from, to)
           n == to - from
<1>1. /\ Len(c) \in Nat /\ n \in Int /\ DOMAIN l = 1 .. n
      /\ \A i \in 1 .. n : l[i] = [line |-> c[2 * (from + i)].line, whole |-> TRUE]
  <2>1. Len(c) \in Nat /\ n \in Int
    BY DEF IsLog
  <2> QED
    BY <2>1, LinesAre, Zenon
<1>2. ASSUME NEW i \in 1 .. n, NEW j \in 1 .. n, i < j
      PROVE  l[i] # l[j]
  <2> DEFINE p == 2 * (from + i)
             q == 2 * (from + j)
  <2>1. /\ p \in 1 .. Len(c) /\ q \in 1 .. Len(c) /\ q - 1 \in 1 .. Len(c)
        /\ p < q - 1
    BY <1>1, <1>2
  <2>2. q % 2 = 0 /\ (q - 1) % 2 = 1
    BY <1>1, <1>2
  <2>3. c[q].line = c[q - 1].line
    <3> HIDE DEF q
    <3> QED
      BY <2>1, <2>2 DEF IsLog
  <2>4. c[p].line < c[q - 1].line
    <3> HIDE DEF p, q
    <3> QED
      BY <2>1, <2>2 DEF Rising
  <2>5. c[p].line \in Nat /\ c[q].line \in Nat
    <3> HIDE DEF p, q
    <3> QED
      BY <2>1, LineNumbers
  <2>6. l[i].line = c[p].line /\ l[j].line = c[q].line
    <3> HIDE DEF l
    <3> QED
      BY <1>1
  <2> HIDE DEF p, q, l
  <2>7. l[i].line # l[j].line
    BY <2>3, <2>4, <2>5, <2>6
  <2> QED
    BY <2>7
<1> HIDE DEF l, n
<1>3. \A i, j \in 1 .. n : l[i] = l[j] => i = j
  <2> SUFFICES ASSUME NEW i \in 1 .. n, NEW j \in 1 .. n, l[i] = l[j] PROVE i = j
    OBVIOUS
  <2>1. ~(i < j) /\ ~(j < i)
    BY <1>2
  <2> QED
    BY <1>1, <2>1
<1> QED
  BY <1>1, <1>3 DEF IsInjective, l

\* How far lines received twice go: while no log is deleted or moved, no line of
\* any log is received twice, however writes, reads, start() and the kernel's
\* queue meet.
THEOREM OnceUnlessReplaced == Spec /\ [](replaced = 0) => []NoLineTwice
<1>1. Init => Numbered
  <2> SUFFICES ASSUME Init, NEW n \in Names, disk[n] # None PROVE disk[n] = <<>>
    BY DEF Numbered, Rising
  <2> QED
    BY DEF Init
<1>2. IInv /\ Numbered /\ replaced = 0 => NoLineTwice
  <2> SUFFICES ASSUME IInv, Numbered, replaced = 0, NEW n \in Names
               PROVE  IsInjective(delivered[n])
    BY DEF NoLineTwice
  <2>1. Told /\ Types /\ Phases /\ Safe(n)
    BY DEF IInv, Told
  <2>2. CASE delivered[n] = <<>>
    BY <2>2 DEF IsInjective
  <2>3. CASE delivered[n] # <<>>
    <3>1. disk[n] # None /\ ~Clears(Pending, n) /\ Scanned(n) /\ ReadSoFar(n)
      BY <2>1, <2>3 DEF Safe, ReadOnce, Untouched, Scanned, Phases
    <3>2. files[n] # None /\ Current(n)
      BY <2>1, <2>3, <3>1 DEF ReadSoFar, Current
    <3> DEFINE half == files[n].offset \div 2
    <3>3. delivered[n] = Lines(disk[n], Started(n), half)
      BY <3>1, <3>2 DEF ReadSoFar
    <3>4. IsLog(disk[n]) /\ Rising(disk[n]) /\ base[n] \in Nat /\ Len(disk[n]) \in Nat
      BY <2>1, <3>1 DEF Safe, Log, Numbered, Types, IsLog
    <3>5. PICK k \in Nat : k = files[n].offset /\ k <= Len(disk[n])
      BY <2>1, <3>2, <3>4 DEF Safe, EntryFits, Fits
    <3>6. half \in Nat /\ Started(n) \in Nat
      BY <3>4, <3>5, HalfOf DEF Started
    <3>7. 2 * half <= Len(disk[n])
      <4>1. 2 * (k \div 2) <= k
        OBVIOUS
      <4> QED
        BY <3>4, <3>5, <4>1
    <3> HIDE DEF half
    <3> QED
      BY <3>3, <3>4, <3>6, <3>7, LinesDiffer
  <2> QED
    BY <2>2, <2>3
<1>3. IInv /\ Numbered /\ [Next]_vars => Numbered'
  BY NumberedStays
<1> QED
  BY <1>1, <1>2, <1>3, InductiveInvariant, PTL DEF Spec
=============================================================================
