--------------------------- MODULE LogLineProofs ---------------------------
(***************************************************************************)
(* That parse() never loses its place, which lines it calls valid and what *)
(* it reads of them, for lines of every length; that a timestamp denotes   *)
(* one instant, for every instant and every zone.                          *)
(*                                                                         *)
(* The model counts quotes and brackets over the whole line.  The lemmas   *)
(* say how those counts change when a character is appended; the invariant *)
(* follows one character at a time.                                        *)
(*                                                                         *)
(* The grammar is read of the whole line, by a recursion on its pieces.    *)
(* The lemmas say that the recursion ends and that a piece has the same    *)
(* fields however the line goes on; the invariant says from where each     *)
(* open list is open, and that it holds the fields that came before.       *)
(***************************************************************************)
EXTENDS LogLineGrammar, FoldLemmas, FiniteSetTheorems, SequenceTheorems, TLAPS

Marked(s, n, marks) == {i \in 1 .. n : Mark(s, i, marks)}

-----------------------------------------------------------------------------
(* Counting in a line that grows. *)

\* A set of positions with the next one added to it has one member more.
LEMMA NextPosition ==
  ASSUME NEW n \in Nat, NEW S \in SUBSET (1 .. n)
  PROVE  /\ IsFiniteSet(S) /\ Cardinality(S) \in Nat
         /\ Cardinality(S \cup {n + 1}) = Cardinality(S) + 1
<1>1. IsFiniteSet(1 .. n)
  BY FS_Interval
<1>2. IsFiniteSet(S)
  BY <1>1, FS_Subset
<1>3. n + 1 \notin S
  OBVIOUS
<1> QED
  BY <1>2, <1>3, FS_AddElement, FS_CardinalityType

\* A character changes no count of those before it.
LEMMA CountGrows ==
  ASSUME NEW s \in Seq(Chars), NEW c \in Chars, NEW marks
  PROVE  /\ \A n \in 0 .. Len(s) : /\ Count(s, n, marks) \in Nat
                                   /\ Count(Append(s, c), n, marks) = Count(s, n, marks)
         /\ Count(Append(s, c), Len(s) + 1, marks) =
              Count(s, Len(s), marks) + (IF c \in marks THEN 1 ELSE 0)
<1> DEFINE t == Append(s, c)
           In(u, n) == {i \in 1 .. n : u[i] \in marks}
<1>1. /\ Len(s) \in Nat /\ Len(s) \in 0 .. Len(s)
      /\ t[Len(s) + 1] = c /\ \A i \in 1 .. Len(s) : t[i] = s[i]
  OBVIOUS
<1> HIDE DEF t
<1>2. \A n \in 0 .. Len(s) : In(t, n) = In(s, n) /\ In(s, n) \in SUBSET (1 .. n)
  BY <1>1
<1>3. In(t, Len(s) + 1) = IF c \in marks THEN In(s, Len(s)) \cup {Len(s) + 1}
                                         ELSE In(s, Len(s))
  BY <1>1
<1>4. \A u, n : Count(u, n, marks) = Cardinality(In(u, n))
  BY DEF Count
<1> HIDE DEF In
<1>5. ASSUME NEW n \in 0 .. Len(s)
      PROVE  /\ Cardinality(In(s, n)) \in Nat
             /\ Cardinality(In(s, n) \cup {n + 1}) = Cardinality(In(s, n)) + 1
  <2>1. n \in Nat /\ In(s, n) \in SUBSET (1 .. n)
    BY <1>1, <1>2
  <2> QED
    BY <2>1, NextPosition, Zenon
<1>6. Cardinality(In(s, Len(s)) \cup {Len(s) + 1}) = Cardinality(In(s, Len(s))) + 1
  BY <1>1, <1>5
<1>7. Count(t, Len(s) + 1, marks) =
        Count(s, Len(s), marks) + (IF c \in marks THEN 1 ELSE 0)
  <2>1. CASE c \in marks
    BY <2>1, <1>3, <1>4, <1>6
  <2>2. CASE c \notin marks
    <3>1. In(t, Len(s) + 1) = In(s, Len(s)) /\ Cardinality(In(s, Len(s))) \in Nat
      BY <2>2, <1>1, <1>3, <1>5
    <3> QED
      BY <2>2, <3>1, <1>4
  <2> QED
    BY <2>1, <2>2
<1> QED
  BY <1>2, <1>4, <1>5, <1>7 DEF t

\* A quote opens or closes a quoted string, and no other character does.
LEMMA QuotedGrows ==
  ASSUME NEW s \in Seq(Chars), NEW c \in Chars
  PROVE  /\ \A i \in 1 .. Len(s) + 1 : Quoted(Append(s, c), i) = Quoted(s, i)
         /\ Quoted(Append(s, c), Len(s) + 2) =
              (IF c = Quote THEN ~Quoted(s, Len(s) + 1) ELSE Quoted(s, Len(s) + 1))
<1> DEFINE t == Append(s, c)
           Quotes(u, n) == Count(u, n, {Quote})
<1>1. /\ Len(s) \in Nat
      /\ \A n \in 0 .. Len(s) : Quotes(s, n) \in Nat /\ Quotes(t, n) = Quotes(s, n)
      /\ Quotes(t, Len(s) + 1) = Quotes(s, Len(s)) + (IF c = Quote THEN 1 ELSE 0)
  BY CountGrows
<1>2. \A u, i : Quoted(u, i) <=> Quotes(u, i - 1) % 2 = 1
  BY DEF Quoted
<1> HIDE DEF t, Quotes
<1>3. \A i \in 1 .. Len(s) + 1 : Quoted(t, i) = Quoted(s, i)
  <2> TAKE i \in 1 .. Len(s) + 1
  <2>1. i - 1 \in 0 .. Len(s)
    BY <1>1
  <2>2. Quoted(t, i) <=> Quoted(s, i)
    BY <2>1, <1>1, <1>2
  <2> QED
    BY <2>2 DEF Quoted
<1>4. (Len(s) + 2) - 1 = Len(s) + 1 /\ (Len(s) + 1) - 1 = Len(s)
  BY <1>1
<1>5. Quoted(t, Len(s) + 2) <=>
        (IF c = Quote THEN ~Quoted(s, Len(s) + 1) ELSE Quoted(s, Len(s) + 1))
  <2>1. /\ Quoted(t, Len(s) + 2) <=> Quotes(t, Len(s) + 1) % 2 = 1
        /\ Quoted(s, Len(s) + 1) <=> Quotes(s, Len(s)) % 2 = 1
    BY <1>2, <1>4
  <2>2. PICK q \in Nat : q = Quotes(s, Len(s))
    BY <1>1
  <2>3. (q + 1) % 2 = 1 <=> ~(q % 2 = 1)
    OBVIOUS
  <2>4. CASE c = Quote
    BY <2>1, <2>2, <2>3, <2>4, <1>1
  <2>5. CASE c # Quote
    BY <2>1, <2>2, <2>5, <1>1
  <2> QED
    BY <2>4, <2>5
<1> QED
  BY <1>3, <1>5 DEF t, Quoted

\* A bracket changes the depth unless it is quoted, and no other character does.
LEMMA DepthGrows ==
  ASSUME NEW s \in Seq(Chars), NEW c \in Chars
  PROVE  /\ \A n \in 0 .. Len(s) : /\ Depth(s, n) \in Int
                                   /\ Depth(Append(s, c), n) = Depth(s, n)
         /\ Depth(Append(s, c), Len(s) + 1) =
              Depth(s, Len(s)) + (IF Quoted(s, Len(s) + 1) THEN 0
                                  ELSE IF c \in Openers THEN 1
                                  ELSE IF c \in Closers THEN -1 ELSE 0)
<1> DEFINE t == Append(s, c)
<1>1. /\ Len(s) \in Nat /\ Len(s) \in 0 .. Len(s)
      /\ t[Len(s) + 1] = c /\ \A i \in 1 .. Len(s) : t[i] = s[i]
  OBVIOUS
<1>2. \A i \in 1 .. Len(s) + 1 : Quoted(t, i) = Quoted(s, i)
  BY QuotedGrows
<1> HIDE DEF t
<1>3. ASSUME NEW marks
      PROVE  /\ \A n \in 0 .. Len(s) : /\ Cardinality(Marked(s, n, marks)) \in Nat
                                       /\ Marked(t, n, marks) = Marked(s, n, marks)
             /\ Cardinality(Marked(t, Len(s) + 1, marks)) =
                  Cardinality(Marked(s, Len(s), marks))
                    + (IF c \in marks /\ ~Quoted(s, Len(s) + 1) THEN 1 ELSE 0)
  <2>1. \A i \in 1 .. Len(s) : Mark(t, i, marks) <=> Mark(s, i, marks)
    BY <1>1, <1>2 DEF Mark
  <2>2. Mark(t, Len(s) + 1, marks) <=> c \in marks /\ ~Quoted(s, Len(s) + 1)
    BY <1>1, <1>2 DEF Mark
  <2>3. \A n \in 0 .. Len(s) : /\ Marked(t, n, marks) = Marked(s, n, marks)
                               /\ Marked(s, n, marks) \in SUBSET (1 .. n)
    BY <1>1, <2>1 DEF Marked
  <2>4. Marked(t, Len(s) + 1, marks) =
          IF c \in marks /\ ~Quoted(s, Len(s) + 1)
          THEN Marked(s, Len(s), marks) \cup {Len(s) + 1} ELSE Marked(s, Len(s), marks)
    BY <1>1, <2>1, <2>2 DEF Marked
  <2>5. ASSUME NEW n \in 0 .. Len(s)
        PROVE  /\ Cardinality(Marked(s, n, marks)) \in Nat
               /\ Cardinality(Marked(s, n, marks) \cup {n + 1})
                    = Cardinality(Marked(s, n, marks)) + 1
    <3>1. n \in Nat /\ Marked(s, n, marks) \in SUBSET (1 .. n)
      BY <1>1, <2>3
    <3> QED
      BY <3>1, NextPosition, Zenon
  <2>6. Cardinality(Marked(s, Len(s), marks) \cup {Len(s) + 1})
          = Cardinality(Marked(s, Len(s), marks)) + 1
    BY <1>1, <2>5
  <2>7. CASE c \in marks /\ ~Quoted(s, Len(s) + 1)
    BY <2>3, <2>4, <2>5, <2>6, <2>7
  <2>8. CASE ~(c \in marks /\ ~Quoted(s, Len(s) + 1))
    <3>1. /\ Marked(t, Len(s) + 1, marks) = Marked(s, Len(s), marks)
          /\ Cardinality(Marked(s, Len(s), marks)) \in Nat
      BY <1>1, <2>4, <2>5, <2>8
    <3> QED
      <4>1. Cardinality(Marked(t, Len(s) + 1, marks))
              = Cardinality(Marked(s, Len(s), marks)) + 0
        BY <3>1
      <4> QED
        BY <2>3, <2>5, <2>8, <4>1
  <2> QED
    BY <2>7, <2>8
<1>4. \A u, n : Depth(u, n) = Cardinality(Marked(u, n, Openers))
                                - Cardinality(Marked(u, n, Closers))
  BY DEF Depth, Marked
<1>5. \A n \in 0 .. Len(s) : Depth(s, n) \in Int /\ Depth(t, n) = Depth(s, n)
  BY <1>3, <1>4
<1>6. c \in Openers => c \notin Closers
  BY DEF Openers, Closers
<1>7. /\ Cardinality(Marked(s, Len(s), Openers)) \in Nat
      /\ Cardinality(Marked(s, Len(s), Closers)) \in Nat
  BY <1>1, <1>3
<1>8. Depth(t, Len(s) + 1) =
        Depth(s, Len(s)) + (IF Quoted(s, Len(s) + 1) THEN 0
                            ELSE IF c \in Openers THEN 1
                            ELSE IF c \in Closers THEN -1 ELSE 0)
  BY <1>3, <1>4, <1>6, <1>7
<1> QED
  BY <1>5, <1>8 DEF t

\* An empty line has no quote and no bracket.
LEMMA EmptyLine == Depth(<<>>, 0) = 0 /\ ~Quoted(<<>>, 1)
<1>1. Cardinality({}) = 0
  BY FS_EmptySet
<1>2. Marked(<<>>, 0, Openers) = {} /\ Marked(<<>>, 0, Closers) = {}
  BY DEF Marked
<1>3. Depth(<<>>, 0) = 0
  BY <1>1, <1>2 DEF Depth, Marked
<1>4. {i \in 1 .. 0 : (<<>>)[i] \in {Quote}} = {}
  OBVIOUS
<1>5. Count(<<>>, 0, {Quote}) = 0
  BY <1>1, <1>4 DEF Count
<1> QED
  BY <1>3, <1>5 DEF Quoted

-----------------------------------------------------------------------------
(* parse(). *)

\* What the parser keeps are sequences, of whatever they hold.
IsSequence(s) == \E S : s \in Seq(S)

Shape ==
  /\ line \in Seq(Chars)
  /\ inQuotedString \in BOOLEAN
  /\ IsSequence(openLists) /\ IsSequence(m_args) /\ IsSequence(value.text)
  /\ status \in {"reading", "valid", "invalid"}

\* No closer read so far had nothing to close.
NothingOverclosed ==
  status = "reading" => \A n \in DOMAIN line : Depth(line, n) >= 0

\* Something is kept of every line that is more than empty quotes.
Kept == m_args # <<>> \/ openLists # <<>> \/ isSet(value)
Says(s) == \E i \in DOMAIN s : s[i] # Quote
KeepsWhatIsSaid == status = "reading" => (Kept <=> Says(line))

IInv ==
  /\ Shape
  /\ StackFollowsLine
  /\ NothingOverclosed
  /\ KeepsWhatIsSaid
  /\ ValidIffBalanced

\* Appending keeps a sequence a sequence, makes it one longer and never empty.
LEMMA Appended ==
  ASSUME NEW s, IsSequence(s), NEW x
  PROVE  /\ IsSequence(Append(s, x)) /\ Append(s, x) # <<>>
         /\ Len(s) \in Nat /\ Len(Append(s, x)) = Len(s) + 1
<1>1. PICK S : s \in Seq(S)
  BY DEF IsSequence
<1>2. s \in Seq(S \cup {x})
  BY <1>1
<1>3. Append(s, x) \in Seq(S \cup {x}) /\ Len(Append(s, x)) = Len(s) + 1 /\ Len(s) \in Nat
  BY <1>2
<1> QED
  BY <1>3 DEF IsSequence

\* The list that closes is taken off, and those below it stay open.
LEMMA Closed ==
  ASSUME NEW s, IsSequence(s), s # <<>>
  PROVE  IsSequence(Front(s)) /\ Len(s) \in Nat \ {0} /\ Len(Front(s)) = Len(s) - 1
<1>1. PICK S : s \in Seq(S)
  BY DEF IsSequence
<1>2. Len(s) \in Nat \ {0}
  BY <1>1
<1>3. SubSeq(s, 1, Len(s) - 1) \in Seq(S) /\ Len(SubSeq(s, 1, Len(s) - 1)) = Len(s) - 1
  <2>1. PICK k \in Nat : k = Len(s) - 1
    BY <1>2
  <2>2. SubSeq(s, 1, k) \in Seq(S) /\ Len(SubSeq(s, 1, k)) = k
    BY <1>1, <2>1
  <2> QED
    BY <2>1, <2>2
<1> QED
  BY <1>2, <1>3 DEF IsSequence, Front

\* An item goes to the list that is open, and else to the line.
LEMMA Committed ==
  ASSUME IsSequence(openLists), IsSequence(m_args), NEW v, Commit(v)
  PROVE  /\ IsSequence(openLists)' /\ IsSequence(m_args)'
         /\ Len(openLists') = Len(openLists)
         /\ openLists' = <<>> <=> openLists = <<>>
         /\ openLists' = <<>> => m_args' # <<>>
<1>1. CASE openLists = <<>>
  <2>1. m_args' = Append(m_args, v) /\ openLists' = openLists
    BY <1>1 DEF Commit
  <2> QED
    BY <1>1, <2>1, Appended
<1>2. CASE openLists # <<>>
  <2>1. /\ openLists' = [openLists EXCEPT ![Len(openLists)] = Append(@, v)]
        /\ m_args' = m_args
    BY <1>2 DEF Commit
  <2>2. PICK S : openLists \in Seq(S)
    BY DEF IsSequence
  <2> DEFINE x == Append(openLists[Len(openLists)], v)
  <2>3. openLists \in Seq(S \cup {x}) /\ Len(openLists) \in 1 .. Len(openLists)
    BY <1>2, <2>2
  <2>4. openLists' = [openLists EXCEPT ![Len(openLists)] = x]
    BY <2>1
  <2> HIDE DEF x
  <2>5. openLists' \in Seq(S \cup {x}) /\ Len(openLists') = Len(openLists)
    BY <2>3, <2>4
  <2>6. openLists' # <<>>
    BY <2>3, <2>5
  <2> QED
    BY <1>2, <2>1, <2>5, <2>6 DEF IsSequence
<1> QED
  BY <1>1, <1>2

\* What one more character says of a line.
LEMMA TakesOne ==
  ASSUME IInv, NEW c \in Chars, Take(c)
  PROVE  /\ status = "reading" /\ line' # <<>>
         /\ line' \in Seq(Chars) /\ Len(line) \in Nat /\ Len(line') = Len(line) + 1
         /\ Depth(line, Len(line)) = Len(openLists)
         /\ inQuotedString = Quoted(line, Len(line) + 1)
         /\ Depth(line', Len(line')) =
              Depth(line, Len(line)) + (IF inQuotedString THEN 0
                                        ELSE IF c \in Openers THEN 1
                                        ELSE IF c \in Closers THEN -1 ELSE 0)
         /\ Quoted(line', Len(line') + 1) =
              (IF c = Quote THEN ~inQuotedString ELSE inQuotedString)
         /\ Says(line') <=> Says(line) \/ c # Quote
         /\ Depth(line', Len(line')) >= 0 => \A n \in DOMAIN line' : Depth(line', n) >= 0
<1>1. status = "reading" /\ line' = Append(line, c) /\ line \in Seq(Chars)
  BY DEF Take, IInv, Shape
<1>2. line' \in Seq(Chars) /\ Len(line) \in Nat /\ Len(line') = Len(line) + 1 /\ line' # <<>>
  BY <1>1
<1>3. /\ Depth(line, Len(line)) = Len(openLists)
      /\ inQuotedString = Quoted(line, Len(line) + 1)
      /\ \A n \in DOMAIN line : Depth(line, n) >= 0
  BY <1>1 DEF IInv, StackFollowsLine, NothingOverclosed
<1>4. Depth(line', Len(line')) =
        Depth(line, Len(line)) + (IF inQuotedString THEN 0
                                  ELSE IF c \in Openers THEN 1
                                  ELSE IF c \in Closers THEN -1 ELSE 0)
  BY <1>1, <1>2, <1>3, DepthGrows
<1>5. Quoted(line', Len(line') + 1) = (IF c = Quote THEN ~inQuotedString ELSE inQuotedString)
  <2>1. Len(line') + 1 = Len(line) + 2
    BY <1>2
  <2> QED
    BY <1>1, <1>3, <2>1, QuotedGrows
<1>6. Says(line') <=> Says(line) \/ c # Quote
  BY <1>1 DEF Says
<1>7. \A n \in DOMAIN line : Depth(line', n) = Depth(line, n)
  <2>1. \A n \in DOMAIN line : n \in 0 .. Len(line)
    BY <1>1
  <2> QED
    BY <1>1, <2>1, DepthGrows
<1>8. \A n \in DOMAIN line' : n \in DOMAIN line \/ n = Len(line')
  BY <1>1, <1>2
<1>9. Depth(line', Len(line')) >= 0 => \A n \in DOMAIN line' : Depth(line', n) >= 0
  BY <1>3, <1>7, <1>8
<1> QED
  BY <1>1, <1>2, <1>3, <1>4, <1>5, <1>6, <1>9

\* The line is empty, nothing is open and nothing is kept.
LEMMA InitIInv == Init => IInv
<1> SUFFICES ASSUME Init PROVE IInv
  OBVIOUS
<1>1. <<>> \in Seq({}) /\ <<>> \in Seq(Chars) /\ Len(<<>>) = 0 /\ DOMAIN <<>> = {}
  OBVIOUS
<1>2. Shape
  BY <1>1 DEF Init, Shape, IsSequence, Text
<1>3. StackFollowsLine
  <2>1. line = <<>> /\ openLists = <<>> /\ inQuotedString = FALSE
    BY DEF Init
  <2>2. Quoted(<<>>, 0 + 1) = FALSE /\ Depth(<<>>, 0) = 0
    BY EmptyLine DEF Quoted
  <2> QED
    BY <1>1, <2>1, <2>2 DEF StackFollowsLine
<1>4. NothingOverclosed
  BY <1>1 DEF Init, NothingOverclosed
<1>5. KeepsWhatIsSaid
  BY <1>1 DEF Init, KeepsWhatIsSaid, Kept, Says, isSet, Text
<1> QED
  BY <1>2, <1>3, <1>4, <1>5 DEF IInv, ValidIffBalanced, Init

\* A step that reads on, and keeps in step with the depth and the quotes,
\* keeps the invariant.
LEMMA ReadingOn ==
  ASSUME IInv, NEW c \in Chars, Take(c), status' = "reading",
         inQuotedString' = (IF c = Quote THEN ~inQuotedString ELSE inQuotedString),
         IsSequence(openLists)', IsSequence(m_args)', IsSequence(value.text)',
         Len(openLists') = Depth(line', Len(line')),
         Kept' <=> Kept \/ c # Quote
  PROVE  IInv'
<1>1. /\ status = "reading" /\ line' # <<>>
      /\ line' \in Seq(Chars) /\ Len(line) \in Nat /\ Len(line') = Len(line) + 1
      /\ Quoted(line', Len(line') + 1) =
           (IF c = Quote THEN ~inQuotedString ELSE inQuotedString)
      /\ Says(line') <=> Says(line) \/ c # Quote
      /\ Depth(line', Len(line')) >= 0 => \A n \in DOMAIN line' : Depth(line', n) >= 0
  BY TakesOne
<1>2. inQuotedString' \in BOOLEAN
  BY DEF IInv, Shape
<1>3. Len(openLists') \in Nat
  <2>1. PICK S : openLists' \in Seq(S)
    BY DEF IsSequence
  <2> QED
    BY <2>1
<1>4. Shape'
  BY <1>1, <1>2 DEF Shape
<1>5. StackFollowsLine'
  BY <1>1 DEF StackFollowsLine
<1>6. NothingOverclosed'
  BY <1>1, <1>3 DEF NothingOverclosed
<1>7. KeepsWhatIsSaid'
  BY <1>1 DEF IInv, KeepsWhatIsSaid, Says
<1>8. ValidIffBalanced'
  BY DEF ValidIffBalanced
<1> QED
  BY <1>4, <1>5, <1>6, <1>7, <1>8 DEF IInv

\* Each step of parse() keeps the invariant.
LEMMA NextIInv == IInv /\ [Next]_vars => IInv'
<1> SUFFICES ASSUME IInv, [Next]_vars PROVE IInv'
  OBVIOUS
<1>0. Shape
  BY DEF IInv
<1>1. ASSUME NEW c \in Chars, ReadQuoted(c) PROVE IInv'
  <2>1. Take(c) /\ inQuotedString /\ UNCHANGED <<openLists, m_args, status>>
    BY <1>1 DEF ReadQuoted
  <2>2. /\ status = "reading"
        /\ Depth(line, Len(line)) = Len(openLists)
        /\ Depth(line', Len(line')) = Depth(line, Len(line)) + 0
    BY <2>1, TakesOne
  <2>3. Len(openLists') = Depth(line', Len(line'))
    <3>1. Len(openLists) \in Nat
      BY <1>0, Appended DEF Shape
    <3> QED
      BY <2>1, <2>2, <3>1
  <2>4. CASE c = Quote
    <3>1. inQuotedString' = FALSE /\ value' = value
      BY <1>1, <2>4 DEF ReadQuoted
    <3>2. Kept' <=> Kept
      BY <2>1, <3>1 DEF Kept
    <3> QED
      BY <1>0, <2>1, <2>2, <2>3, <2>4, <3>1, <3>2, ReadingOn DEF Shape, IsSequence
  <2>5. CASE c # Quote
    <3>1. inQuotedString' = inQuotedString /\ value' = Text(Append(value.text, c))
      BY <1>1, <2>5 DEF ReadQuoted, Added
    <3>2. value'.text = Append(value.text, c)
      BY <3>1 DEF Text
    <3>3. IsSequence(value.text)' /\ value'.text # <<>>
      BY <1>0, <3>2, Appended DEF Shape
    <3>4. Kept'
      BY <3>3 DEF Kept, isSet
    <3> QED
      BY <1>0, <2>1, <2>2, <2>3, <2>5, <3>1, <3>3, <3>4, ReadingOn DEF Shape, IsSequence
  <2> QED
    BY <2>4, <2>5
<1>2. ASSUME ReadComma PROVE IInv'
  <2>1. /\ ~inQuotedString /\ Take(",") /\ Commit(value) /\ value' = Text(<<>>)
        /\ UNCHANGED <<inQuotedString, status>>
    BY <1>2 DEF ReadComma
  <2>2. "," \in Chars /\ "," \notin Openers /\ "," \notin Closers /\ "," # Quote
    BY DEF Chars, Marks, Openers, Closers, Quote
  <2>3. /\ status = "reading"
        /\ Depth(line, Len(line)) = Len(openLists)
        /\ Depth(line', Len(line')) = Depth(line, Len(line)) + 0
    BY <2>1, <2>2, TakesOne
  <2>4. /\ IsSequence(openLists)' /\ IsSequence(m_args)'
        /\ Len(openLists') = Len(openLists) /\ Len(openLists) \in Nat
        /\ openLists' = <<>> => m_args' # <<>>
    BY <1>0, <2>1, Committed, Appended DEF Shape
  <2>5. IsSequence(value.text)'
    <3>1. <<>> \in Seq({})
      OBVIOUS
    <3>2. value'.text = <<>>
      BY <2>1 DEF Text
    <3> QED
      BY <3>1, <3>2 DEF IsSequence
  <2>6. Kept'
    BY <2>4 DEF Kept
  <2>7. Len(openLists') = Depth(line', Len(line'))
    BY <2>3, <2>4
  <2> QED
    BY <2>1, <2>2, <2>3, <2>4, <2>5, <2>6, <2>7, ReadingOn
<1>3. ASSUME ReadQuote PROVE IInv'
  <2>1. /\ ~inQuotedString /\ Take(Quote) /\ inQuotedString' = TRUE
        /\ UNCHANGED <<openLists, value, m_args, status>>
    BY <1>3 DEF ReadQuote
  <2>2. Quote \in Chars /\ Quote \notin Openers /\ Quote \notin Closers
    BY DEF Chars, Marks, Openers, Closers, Quote
  <2>3. /\ status = "reading"
        /\ Depth(line, Len(line)) = Len(openLists)
        /\ Depth(line', Len(line')) = Depth(line, Len(line)) + 0
    BY <2>1, <2>2, TakesOne
  <2>4. Len(openLists) \in Nat
    BY <1>0, Appended DEF Shape
  <2>5. Kept' <=> Kept
    BY <2>1 DEF Kept
  <2>6. Len(openLists') = Depth(line', Len(line'))
    BY <2>1, <2>3, <2>4
  <2>7. IsSequence(openLists)' /\ IsSequence(m_args)' /\ IsSequence(value.text)'
    BY <1>0, <2>1 DEF Shape, IsSequence
  <2> QED
    BY <2>1, <2>2, <2>3, <2>5, <2>6, <2>7, ReadingOn
<1>4. ASSUME ReadOpener PROVE IInv'
  <2>1. PICK c \in Openers : Take(c)
    BY <1>4 DEF ReadOpener
  <2>2. /\ ~inQuotedString /\ openLists' = Append(openLists, <<>>)
        /\ UNCHANGED <<inQuotedString, value, m_args, status>>
    BY <1>4 DEF ReadOpener
  <2>3. c \in Chars /\ c # Quote
    BY DEF Chars, Marks, Openers, Quote
  <2>4. /\ status = "reading"
        /\ Depth(line, Len(line)) = Len(openLists)
        /\ Depth(line', Len(line')) = Depth(line, Len(line)) + 1
    BY <2>1, <2>2, <2>3, TakesOne
  <2>5. IsSequence(openLists)' /\ openLists' # <<>> /\ Len(openLists') = Len(openLists) + 1
    BY <1>0, <2>2, Appended DEF Shape
  <2>6. Kept'
    BY <2>5 DEF Kept
  <2> QED
    BY <1>0, <2>1, <2>2, <2>3, <2>4, <2>5, <2>6, ReadingOn DEF Shape, IsSequence
<1>5. ASSUME ReadCloser PROVE IInv'
  <2>1. PICK c \in Closers : Take(c)
    BY <1>5 DEF ReadCloser
  <2>2. ~inQuotedString /\ UNCHANGED <<inQuotedString, m_args>>
    BY <1>5 DEF ReadCloser
  <2>3. c \in Chars /\ c # Quote /\ c \notin Openers
    BY DEF Chars, Marks, Openers, Closers, Quote
  <2>4. /\ status = "reading" /\ line' # <<>> /\ line' \in Seq(Chars)
        /\ Depth(line, Len(line)) = Len(openLists)
        /\ Depth(line', Len(line')) = Depth(line, Len(line)) - 1
    BY <1>0, <2>1, <2>2, <2>3, TakesOne, Appended DEF Shape
  <2>5. CASE openLists = <<>>
    <3>1. status' = "invalid" /\ openLists' = openLists /\ value' = value
      BY <1>5, <2>5 DEF ReadCloser
    <3>2. Depth(line', Len(line')) = -1
      BY <2>4, <2>5
    <3>3. ~Balanced(line')
      BY <3>2 DEF Balanced
    <3>4. ValidIffBalanced'
      BY <3>1, <3>3 DEF ValidIffBalanced, Balanced, Depth, Mark, Quoted, Count
    <3>5. Shape'
      BY <1>0, <2>2, <2>4, <3>1 DEF Shape, IsSequence
    <3> QED
      BY <3>1, <3>4, <3>5
         DEF IInv, StackFollowsLine, NothingOverclosed, KeepsWhatIsSaid
  <2>6. CASE openLists # <<>>
    <3>1. /\ openLists' = Front(openLists) /\ status' = status
          /\ value'.list = TRUE /\ value'.text = <<>>
      BY <1>5, <2>6 DEF ReadCloser, List
    <3>2. IsSequence(openLists)' /\ Len(openLists') = Len(openLists) - 1
      BY <1>0, <2>6, <3>1, Closed DEF Shape
    <3>3. IsSequence(value.text)'
      <4>1. <<>> \in Seq({})
        OBVIOUS
      <4> QED
        BY <3>1, <4>1 DEF IsSequence
    <3>4. Kept'
      BY <3>1 DEF Kept, isSet
    <3> QED
      BY <1>0, <2>1, <2>2, <2>3, <2>4, <3>1, <3>2, <3>3, <3>4, ReadingOn
         DEF Shape, IsSequence
  <2> QED
    BY <2>5, <2>6
<1>6. ASSUME ReadText PROVE IInv'
  <2>1. PICK c \in Letters : Take(c) /\ value' = Text(Append(value.text, c))
    BY <1>6 DEF ReadText, Added
  <2>2. ~inQuotedString /\ UNCHANGED <<openLists, inQuotedString, m_args, status>>
    BY <1>6 DEF ReadText
  <2>3. c \in Chars /\ c # Quote /\ c \notin Openers /\ c \notin Closers
    BY LettersAssumption DEF Chars, Marks
  <2>4. /\ status = "reading"
        /\ Depth(line, Len(line)) = Len(openLists)
        /\ Depth(line', Len(line')) = Depth(line, Len(line)) + 0
    BY <2>1, <2>2, <2>3, TakesOne
  <2>5. Len(openLists) \in Nat
    BY <1>0, Appended DEF Shape
  <2>6. value'.text = Append(value.text, c)
    BY <2>1 DEF Text
  <2>7. IsSequence(value.text)' /\ value'.text # <<>>
    BY <1>0, <2>6, Appended DEF Shape
  <2>8. Kept'
    BY <2>7 DEF Kept, isSet
  <2> QED
    BY <1>0, <2>1, <2>2, <2>3, <2>4, <2>5, <2>7, <2>8, ReadingOn DEF Shape, IsSequence
<1>7. ASSUME EndOfLine PROVE IInv'
  <2>1. /\ status = "reading" /\ UNCHANGED <<line, inQuotedString, value>>
        /\ status' = IF openLists = <<>> /\ m_args' # <<>> THEN "valid" ELSE "invalid"
    BY <1>7 DEF EndOfLine
  <2>2. /\ Len(openLists) = Depth(line, Len(line)) /\ Len(openLists) \in Nat
        /\ \A n \in DOMAIN line : Depth(line, n) >= 0
        /\ Kept <=> Says(line)
    BY <1>0, <2>1, Appended
       DEF IInv, Shape, StackFollowsLine, NothingOverclosed, KeepsWhatIsSaid
  <2>3. IsSequence(openLists)' /\ IsSequence(m_args)'
    <3>1. CASE isSet(value)
      BY <1>0, <1>7, <3>1, Committed DEF EndOfLine, Shape
    <3>2. CASE ~isSet(value)
      BY <1>0, <1>7, <3>2 DEF EndOfLine, Shape, IsSequence
    <3> QED
      BY <3>1, <3>2
  <2>4. openLists = <<>> => (m_args' # <<>> <=> Kept)
    <3>1. CASE isSet(value)
      BY <1>0, <1>7, <3>1, Committed DEF EndOfLine, Shape, Kept
    <3>2. CASE ~isSet(value)
      BY <1>7, <3>2 DEF EndOfLine, Kept
    <3> QED
      BY <3>1, <3>2
  <2>5. openLists = <<>> <=> Balanced(line)
    <3>1. openLists = <<>> <=> Len(openLists) = 0
      <4>1. PICK S : openLists \in Seq(S)
        BY <1>0 DEF Shape, IsSequence
      <4> QED
        BY <4>1
    <3> QED
      BY <2>2, <3>1 DEF Balanced
  <2>6. status' = "valid" <=> Balanced(line) /\ Says(line)
    BY <2>1, <2>2, <2>4, <2>5
  <2>7. ValidIffBalanced'
    BY <2>1, <2>6 DEF ValidIffBalanced, Says, Balanced, Depth, Mark, Quoted, Count
  <2>8. status' # "reading" /\ status' \in {"valid", "invalid"}
    BY <2>1
  <2>9. Shape'
    BY <1>0, <2>1, <2>3, <2>8 DEF Shape, IsSequence
  <2> QED
    BY <2>7, <2>8, <2>9 DEF IInv, StackFollowsLine, NothingOverclosed, KeepsWhatIsSaid
<1>8. ASSUME NoSeparator PROVE IInv'
  <2>1. /\ line' = <<>> /\ status' = "invalid"
        /\ UNCHANGED <<line, openLists, inQuotedString, value, m_args>>
    BY <1>8 DEF NoSeparator
  <2>2. Shape'
    BY <1>0, <2>1 DEF Shape, IsSequence
  <2> QED
    BY <2>1, <2>2
       DEF IInv, StackFollowsLine, NothingOverclosed, KeepsWhatIsSaid, ValidIffBalanced
<1>9. ASSUME UNCHANGED vars PROVE IInv'
  <2>1. UNCHANGED <<line, openLists, inQuotedString, value, m_args, status>>
    BY <1>9 DEF vars
  <2> QED
    BY <2>1 DEF IInv, Shape, IsSequence, StackFollowsLine, NothingOverclosed,
                KeepsWhatIsSaid, Kept, Says, isSet, ValidIffBalanced, Balanced, Depth,
                Mark, Quoted, Count
<1> QED
  BY <1>1, <1>2, <1>3, <1>4, <1>5, <1>6, <1>7, <1>8, <1>9 DEF Next

\* parse() never loses its place: at any point of any line, a list is open for
\* each bracket that is, and quoted brackets and commas are text.
THEOREM KeepsItsPlace == Spec => []StackFollowsLine
<1>1. IInv => StackFollowsLine
  BY DEF IInv
<1> QED
  BY <1>1, InitIInv, NextIInv, PTL DEF Spec

\* A line is valid if and only if its brackets balance and it says something:
\* isValid() is decided with a stack, and agrees with a count over the line.
THEOREM ValidityIsBalance == Spec => []ValidIffBalanced
<1>1. IInv => ValidIffBalanced
  BY DEF IInv
<1> QED
  BY <1>1, InitIInv, NextIInv, PTL DEF Spec

-----------------------------------------------------------------------------
(* The pieces of a line. *)

\* An unquoted bracket changes the depth, and no other character does.
LEMMA DepthAt ==
  ASSUME NEW s, NEW n \in Nat
  PROVE  /\ Depth(s, n) \in Int
         /\ Depth(s, n + 1) = Depth(s, n) + (IF Mark(s, n + 1, Openers) THEN 1
                                             ELSE IF Mark(s, n + 1, Closers) THEN -1 ELSE 0)
<1>1. ASSUME NEW marks
      PROVE  /\ Cardinality(Marked(s, n, marks)) \in Nat
             /\ Cardinality(Marked(s, n + 1, marks)) =
                  Cardinality(Marked(s, n, marks))
                    + (IF Mark(s, n + 1, marks) THEN 1 ELSE 0)
  <2>1. Marked(s, n, marks) \in SUBSET (1 .. n)
    BY DEF Marked
  <2>2. Marked(s, n + 1, marks) =
          IF Mark(s, n + 1, marks) THEN Marked(s, n, marks) \cup {n + 1}
                                   ELSE Marked(s, n, marks)
    BY DEF Marked
  <2>3. /\ Cardinality(Marked(s, n, marks)) \in Nat
        /\ Cardinality(Marked(s, n, marks) \cup {n + 1}) = Cardinality(Marked(s, n, marks)) + 1
    BY <2>1, NextPosition, Zenon
  <2>4. CASE Mark(s, n + 1, marks)
    BY <2>2, <2>3, <2>4
  <2>5. CASE ~Mark(s, n + 1, marks)
    BY <2>2, <2>3, <2>5
  <2> QED
    BY <2>4, <2>5
<1>2. \A k : Depth(s, k) = Cardinality(Marked(s, k, Openers))
                             - Cardinality(Marked(s, k, Closers))
  BY DEF Depth, Marked
<1>3. Mark(s, n + 1, Openers) => ~Mark(s, n + 1, Closers)
  BY DEF Mark, Openers, Closers
<1> QED
  BY <1>1, <1>2, <1>3

SameTo(p, s, m) == \A i \in 1 .. m : p[i] = s[i]

\* Lines that are the same up to a position have the same marks up to it.
LEMMA SameMarks ==
  ASSUME NEW p, NEW s, NEW m \in Nat, SameTo(p, s, m)
  PROVE  /\ \A i \in 1 .. m + 1 : Quoted(p, i) = Quoted(s, i)
         /\ \A i \in 1 .. m : \A marks : Mark(p, i, marks) <=> Mark(s, i, marks)
         /\ \A n \in 0 .. m : Depth(p, n) = Depth(s, n)
<1>1. \A i \in 1 .. m : p[i] = s[i]
  BY DEF SameTo
<1>2. ASSUME NEW n \in 0 .. m
      PROVE  Count(p, n, {Quote}) = Count(s, n, {Quote})
  <2>1. {i \in 1 .. n : p[i] \in {Quote}} = {i \in 1 .. n : s[i] \in {Quote}}
    BY <1>1
  <2> QED
    BY <2>1 DEF Count
<1>3. ASSUME NEW i \in 1 .. m + 1 PROVE Quoted(p, i) = Quoted(s, i)
  <2>1. i - 1 \in 0 .. m
    OBVIOUS
  <2> QED
    BY <1>2, <2>1 DEF Quoted
<1>4. ASSUME NEW i \in 1 .. m, NEW marks PROVE Mark(p, i, marks) <=> Mark(s, i, marks)
  <2>1. i \in 1 .. m + 1
    OBVIOUS
  <2> QED
    BY <1>1, <1>3, <2>1 DEF Mark
<1>5. ASSUME NEW n \in 0 .. m PROVE Depth(p, n) = Depth(s, n)
  <2>1. \A i \in 1 .. n : i \in 1 .. m
    OBVIOUS
  <2>2. /\ {i \in 1 .. n : Mark(p, i, Openers)} = {i \in 1 .. n : Mark(s, i, Openers)}
        /\ {i \in 1 .. n : Mark(p, i, Closers)} = {i \in 1 .. n : Mark(s, i, Closers)}
    BY <1>4, <2>1
  <2> QED
    BY <2>2 DEF Depth
<1> QED
  BY <1>3, <1>4, <1>5

\* Some numbers up to another one have a largest.
LEMMA Largest ==
  ASSUME NEW n \in Nat, NEW S \in SUBSET (0 .. n), S # {}
  PROVE  Max(S) \in S /\ \A y \in S : Max(S) >= y
<1> DEFINE Has(t) == \E x \in t : \A y \in t : x >= y
           T == {k \in 0 .. n : \A t \in SUBSET (0 .. k) : t # {} => Has(t)}
<1>1. 0 \in T
  <2>1. ASSUME NEW t \in SUBSET (0 .. 0), t # {}
        PROVE  Has(t)
    <3>1. \A y \in t : y = 0
      OBVIOUS
    <3>2. 0 \in t
      BY <2>1, <3>1
    <3> QED
      BY <3>1, <3>2
  <2> QED
    BY <2>1
<1>2. ASSUME NEW k \in 1 .. n, k - 1 \in T
      PROVE  k \in T
  <2>1. ASSUME NEW t \in SUBSET (0 .. k), t # {}
        PROVE  Has(t)
    <3>1. CASE k \in t
      <4>1. \A y \in t : k >= y
        OBVIOUS
      <4> QED
        BY <3>1, <4>1
    <3>2. CASE k \notin t
      <4>1. t \in SUBSET (0 .. k - 1)
        BY <3>2
      <4> QED
        BY <1>2, <2>1, <4>1
    <3> QED
      BY <3>1, <3>2
  <2> QED
    BY <2>1
<1>3. n \in T
  <2> HIDE DEF T
  <2> QED
    BY <1>1, <1>2, Induction
<1>4. Has(S)
  BY <1>3
<1> QED
  BY <1>4, Zenon DEF Max

\* A piece's last cut is its start, or the last comma at its start's depth.
LEMMA LastCutIs ==
  ASSUME NEW s, NEW from \in Nat, NEW to \in Nat, from <= to
  PROVE  /\ LastCut(s, from, to) \in from .. to
         /\ LastCut(s, from, to) # from => LastCut(s, from, to) \in Cuts(s, from, to)
         /\ \A c \in {from} \cup Cuts(s, from, to) :
              (\A i \in Cuts(s, from, to) : c >= i) => LastCut(s, from, to) = c
<1> DEFINE S == {from} \cup Cuts(s, from, to)
<1>1. S \in SUBSET (0 .. to) /\ S # {} /\ S \subseteq from .. to
  <2>1. Cuts(s, from, to) \subseteq from + 1 .. to
    BY DEF Cuts
  <2>2. \A i \in from + 1 .. to : i \in from .. to
    OBVIOUS
  <2>3. S \subseteq from .. to
    BY <2>1, <2>2
  <2>4. \A i \in from .. to : i \in 0 .. to
    OBVIOUS
  <2> QED
    BY <2>3, <2>4
<1>2. LastCut(s, from, to) = Max(S)
  BY DEF LastCut
<1> HIDE DEF S
<1>3. Max(S) \in S /\ \A y \in S : Max(S) >= y
  BY <1>1, Largest
<1>4. LastCut(s, from, to) \in from .. to
  BY <1>1, <1>2, <1>3
<1>5. LastCut(s, from, to) # from => LastCut(s, from, to) \in Cuts(s, from, to)
  BY <1>2, <1>3 DEF S
<1>6. ASSUME NEW c \in {from} \cup Cuts(s, from, to), \A i \in Cuts(s, from, to) : c >= i
      PROVE  LastCut(s, from, to) = c
  <2>1. c \in S /\ Max(S) \in S
    BY <1>3 DEF S
  <2>2. c \in from .. to /\ Max(S) \in from .. to
    BY <1>1, <2>1
  <2>3. \A i \in S : c >= i
    BY <1>6, <2>2 DEF S
  <2>4. c >= Max(S) /\ Max(S) >= c
    BY <1>3, <2>1, <2>3
  <2> QED
    BY <1>2, <2>2, <2>4
<1> QED
  BY <1>4, <1>5, <1>6

\* A text with one character more: a quote is no part of it.
NextText(s, from, text, n) ==
  IF n <= from THEN <<>>
  ELSE IF s[n] = Quote THEN text[n - 1] ELSE Append(text[n - 1], s[n])

\* The recursion of Unquoted ends, so it is what it says of itself.
LEMMA UnquotedIs ==
  ASSUME NEW s, NEW from \in Nat, Len(s) \in Nat, NEW n \in 0 .. Len(s)
  PROVE  Unquoted(s, from, n) =
           IF n <= from THEN <<>>
           ELSE IF s[n] = Quote THEN Unquoted(s, from, n - 1)
           ELSE Append(Unquoted(s, from, n - 1), s[n])
<1> DEFINE Fits(text, k) == /\ text = [i \in 0 .. Len(s) |-> text[i]]
                            /\ \A i \in 0 .. k : text[i] = NextText(s, from, text, i)
           T == {k \in 0 .. Len(s) : \E text : Fits(text, k)}
<1>1. 0 \in T
  <2> DEFINE new == [i \in 0 .. Len(s) |-> <<>>]
  <2>1. Fits(new, 0)
    BY DEF NextText
  <2> HIDE DEF Fits
  <2> QED
    BY <2>1
<1>2. ASSUME NEW k \in 1 .. Len(s), k - 1 \in T
      PROVE  k \in T
  <2>1. PICK text : Fits(text, k - 1)
    BY <1>2
  <2> DEFINE new == [i \in 0 .. Len(s) |->
                       IF i < k THEN text[i] ELSE NextText(s, from, text, i)]
  <2>2. ASSUME NEW i \in 0 .. k PROVE new[i] = NextText(s, from, new, i)
    <3>1. i > from => i - 1 \in 0 .. Len(s) /\ i - 1 < k
      OBVIOUS
    <3>2. i > from => new[i - 1] = text[i - 1]
      BY <3>1
    <3>3. NextText(s, from, new, i) = NextText(s, from, text, i)
      BY <3>2 DEF NextText
    <3>4. CASE i < k
      <4>1. i \in 0 .. k - 1
        BY <3>4
      <4> QED
        BY <2>1, <3>3, <3>4, <4>1
    <3>5. CASE i = k
      BY <3>3, <3>5
    <3> QED
      BY <3>4, <3>5
  <2>3. Fits(new, k)
    BY <2>2
  <2> HIDE DEF Fits, new
  <2> QED
    BY <2>3
<1>3. Len(s) \in T
  <2> HIDE DEF T
  <2> QED
    BY <1>1, <1>2, Induction
<1>4. PICK text : text = [i \in 0 .. Len(s) |-> NextText(s, from, text, i)]
  BY <1>3
<1>5. PICK all : /\ all = [i \in 0 .. Len(s) |-> NextText(s, from, all, i)]
                 /\ \A i : Unquoted(s, from, i) = all[i]
  BY <1>4, Zenon DEF Unquoted, NextText
<1>6. n > from => n - 1 \in 0 .. Len(s)
  OBVIOUS
<1> QED
  BY <1>5, <1>6 DEF NextText

\* The fields of a piece, from those of shorter pieces.
FieldsOf(s, f, p) ==
  LET cut == LastCut(s, p[1], p[2]) IN
  Append(Before(f, p[1], cut), Field(s, f, cut, p[2]))

\* Two readings agree on the pieces that are inside a piece.
AgreeInside(f, g, m, a, b) ==
  \A c \in 0 .. m, e \in 0 .. m :
    c <= e /\ a <= c /\ e <= b /\ e - c < b - a => f[<<c, e>>] = g[<<c, e>>]

\* Only pieces inside a piece count.
LEMMA FieldsFromShorter ==
  ASSUME NEW s, NEW m \in Nat, NEW a \in 0 .. m, NEW b \in 0 .. m, NEW f, NEW g,
         AgreeInside(f, g, m, a, b)
  PROVE  FieldsOf(s, f, <<a, b>>) = FieldsOf(s, g, <<a, b>>)
<1> DEFINE cut == LastCut(s, a, b)
<1>1. CASE a <= b
  <2>1. cut \in a .. b
    BY <1>1, LastCutIs
  <2> HIDE DEF cut
  <2>2. Before(f, a, cut) = Before(g, a, cut)
    <3>1. cut # a => /\ cut - 1 \in 0 .. m /\ a <= cut - 1 /\ cut - 1 <= b
                     /\ (cut - 1) - a < b - a /\ a <= a
      BY <2>1
    <3> QED
      BY <3>1 DEF Before, AgreeInside
  <2>3. Field(s, f, cut, b) = Field(s, g, cut, b)
    <3>1. b - cut > 1 => /\ cut + 1 \in 0 .. m /\ b - 1 \in 0 .. m /\ cut + 1 <= b - 1
                         /\ (b - 1) - (cut + 1) < b - a /\ a <= cut + 1 /\ b - 1 <= b
      BY <2>1
    <3> QED
      BY <3>1 DEF Field, Bracketed, AgreeInside
  <2> QED
    BY <2>2, <2>3 DEF FieldsOf, cut
<1>2. CASE b < a
  <2>1. cut = a
    <3>1. Cuts(s, a, b) = {}
      <4>1. a + 1 .. b = {}
        BY <1>2
      <4> QED
        BY <4>1 DEF Cuts
    <3>2. {a} \cup Cuts(s, a, b) = {a}
      BY <3>1
    <3>3. {a} \in SUBSET (0 .. m) /\ {a} # {}
      OBVIOUS
    <3>4. Max({a}) \in {a}
      BY <3>3, Largest
    <3> QED
      BY <3>2, <3>4 DEF LastCut
  <2> HIDE DEF cut
  <2>2. ~Bracketed(s, a, b)
    BY <1>2 DEF Bracketed
  <2> QED
    BY <2>1, <2>2 DEF FieldsOf, Before, Field, cut
<1> QED
  BY <1>1, <1>2

\* The recursion of Fields ends, so it is what it says of itself.
LEMMA FieldsAre ==
  ASSUME NEW s, Len(s) \in Nat, NEW a \in 0 .. Len(s), NEW b \in 0 .. Len(s)
  PROVE  Fields(s)[<<a, b>>] =
           Append(Before(Fields(s), a, LastCut(s, a, b)),
                  Field(s, Fields(s), LastCut(s, a, b), b))
<1> DEFINE Fits(f, k) == /\ f = [p \in Pieces(s) |-> f[p]]
                         /\ \A c \in 0 .. Len(s), e \in 0 .. Len(s) :
                              e - c <= k => f[<<c, e>>] = FieldsOf(s, f, <<c, e>>)
           T == {k \in 0 .. Len(s) : \E f : Fits(f, k)}
<1>0. \A c \in 0 .. Len(s), e \in 0 .. Len(s) : <<c, e>> \in Pieces(s)
  BY DEF Pieces
<1>1. 0 \in T
  <2> DEFINE new == [p \in Pieces(s) |-> FieldsOf(s, <<>>, p)]
  <2>1. ASSUME NEW c \in 0 .. Len(s), NEW e \in 0 .. Len(s), e - c <= 0
        PROVE  new[<<c, e>>] = FieldsOf(s, new, <<c, e>>)
    <3>1. FieldsOf(s, <<>>, <<c, e>>) = FieldsOf(s, new, <<c, e>>)
      <4> DEFINE old == <<>>
      <4>1. AgreeInside(old, new, Len(s), c, e)
        BY <2>1 DEF AgreeInside
      <4> HIDE DEF old, new
      <4>2. FieldsOf(s, old, <<c, e>>) = FieldsOf(s, new, <<c, e>>)
        BY <4>1, FieldsFromShorter
      <4> QED
        BY <4>2 DEF old
    <3> QED
      BY <1>0, <3>1
  <2>2. Fits(new, 0)
    BY <2>1
  <2> HIDE DEF Fits
  <2> QED
    BY <2>2
<1>2. ASSUME NEW k \in 1 .. Len(s), k - 1 \in T
      PROVE  k \in T
  <2>1. PICK f : Fits(f, k - 1)
    BY <1>2
  <2> DEFINE new == [p \in Pieces(s) |-> IF p[2] - p[1] < k THEN f[p] ELSE FieldsOf(s, f, p)]
  <2>2. \A c \in 0 .. Len(s), e \in 0 .. Len(s) :
          new[<<c, e>>] = IF e - c < k THEN f[<<c, e>>] ELSE FieldsOf(s, f, <<c, e>>)
    BY <1>0
  <2>3. ASSUME NEW c \in 0 .. Len(s), NEW e \in 0 .. Len(s), e - c <= k
        PROVE  new[<<c, e>>] = FieldsOf(s, new, <<c, e>>)
    <3>1. AgreeInside(f, new, Len(s), c, e)
      BY <2>2, <2>3 DEF AgreeInside
    <3>2. FieldsOf(s, f, <<c, e>>) = FieldsOf(s, new, <<c, e>>)
      <4> HIDE DEF new
      <4> QED
        BY <3>1, FieldsFromShorter
    <3>3. e - c < k => f[<<c, e>>] = FieldsOf(s, f, <<c, e>>)
      BY <2>1
    <3> QED
      BY <2>2, <3>2, <3>3
  <2>4. Fits(new, k)
    <3>1. new = [p \in Pieces(s) |-> new[p]]
      OBVIOUS
    <3> HIDE DEF new
    <3> QED
      BY <2>3, <3>1
  <2> HIDE DEF Fits, new
  <2> QED
    BY <2>4
<1>3. Len(s) \in T
  <2> HIDE DEF T
  <2>1. 0 .. Len(s) \subseteq T
    BY <1>1, <1>2, Induction, Zenon
  <2>2. Len(s) \in 0 .. Len(s)
    OBVIOUS
  <2> QED
    BY <2>1, <2>2
<1>4. PICK f : f = [p \in Pieces(s) |-> FieldsOf(s, f, p)]
  <2>1. PICK f : Fits(f, Len(s))
    BY <1>3
  <2>2. ASSUME NEW p \in Pieces(s) PROVE f[p] = FieldsOf(s, f, p)
    <3>1. PICK c \in 0 .. Len(s), e \in 0 .. Len(s) : p = <<c, e>>
      BY DEF Pieces
    <3>2. e - c <= Len(s)
      OBVIOUS
    <3> QED
      BY <2>1, <3>1, <3>2
  <2>3. f = [p \in Pieces(s) |-> FieldsOf(s, f, p)]
    BY <2>1, <2>2
  <2> QED
    BY <2>3
<1>5. Fields(s) = [p \in Pieces(s) |-> FieldsOf(s, Fields(s), p)]
  BY <1>4, Zenon DEF Fields, FieldsOf
<1>6. Fields(s)[<<a, b>>] = FieldsOf(s, Fields(s), <<a, b>>)
  BY <1>0, <1>5
<1> QED
  BY <1>6 DEF FieldsOf

\* Two lines that are the same up to a position are cut alike up to it.
LEMMA SamePieces ==
  ASSUME NEW p, NEW s, NEW m \in Nat, SameTo(p, s, m),
         NEW a \in 0 .. m, NEW b \in 0 .. m
  PROVE  /\ LastCut(p, a, b) = LastCut(s, a, b)
         /\ Bracketed(p, a, b) <=> Bracketed(s, a, b)
<1>1. /\ \A i \in 1 .. m : Mark(p, i, Commas) <=> Mark(s, i, Commas)
      /\ \A n \in 0 .. m : Depth(p, n) = Depth(s, n)
  BY SameMarks
<1>2. \A i \in a + 1 .. b : i \in 1 .. m /\ i \in 0 .. m
  OBVIOUS
<1>3. Cuts(p, a, b) = Cuts(s, a, b)
  BY <1>1, <1>2 DEF Cuts
<1>4. \A n \in a + 1 .. b - 1 : n \in 0 .. m
  OBVIOUS
<1> QED
  BY <1>1, <1>3, <1>4 DEF LastCut, Bracketed

\* They have the same text up to it.
LEMMA SameTexts ==
  ASSUME NEW p, NEW s, NEW m \in Nat, SameTo(p, s, m),
         Len(p) \in Nat, Len(s) \in Nat, m <= Len(p), m <= Len(s),
         NEW a \in Nat, NEW b \in 0 .. m
  PROVE  Unquoted(p, a, b) = Unquoted(s, a, b)
<1> DEFINE T == {k \in 0 .. m : Unquoted(p, a, k) = Unquoted(s, a, k)}
<1>1. 0 \in T
  BY UnquotedIs
<1>2. ASSUME NEW k \in 1 .. m, k - 1 \in T
      PROVE  k \in T
  <2>1. /\ k \in 0 .. Len(p) /\ k \in 0 .. Len(s) /\ p[k] = s[k]
        /\ Unquoted(p, a, k - 1) = Unquoted(s, a, k - 1)
    BY <1>2 DEF SameTo
  <2>2. /\ Unquoted(p, a, k) =
             IF k <= a THEN <<>>
             ELSE IF p[k] = Quote THEN Unquoted(p, a, k - 1)
             ELSE Append(Unquoted(p, a, k - 1), p[k])
        /\ Unquoted(s, a, k) =
             IF k <= a THEN <<>>
             ELSE IF s[k] = Quote THEN Unquoted(s, a, k - 1)
             ELSE Append(Unquoted(s, a, k - 1), s[k])
    BY <2>1, UnquotedIs
  <2> QED
    BY <2>1, <2>2
<1>3. 0 .. m \subseteq T
  <2> HIDE DEF T
  <2> QED
    BY <1>1, <1>2, Induction
<1> QED
  BY <1>3

\* They have the same fields in every piece up to it.
LEMMA SameFields ==
  ASSUME NEW p, NEW s, NEW m \in Nat, SameTo(p, s, m),
         Len(p) \in Nat, Len(s) \in Nat, m <= Len(p), m <= Len(s),
         NEW a \in 0 .. m, NEW b \in 0 .. m, a <= b
  PROVE  Fields(p)[<<a, b>>] = Fields(s)[<<a, b>>]
<1> DEFINE T == {k \in 0 .. m : \A c \in 0 .. m, e \in 0 .. m :
                   c <= e /\ e - c <= k => Fields(p)[<<c, e>>] = Fields(s)[<<c, e>>]}
<1>1. ASSUME NEW k \in 0 .. m, NEW c \in 0 .. m, NEW e \in 0 .. m, c <= e, e - c <= k,
             k = 0 \/ k - 1 \in T
      PROVE  Fields(p)[<<c, e>>] = Fields(s)[<<c, e>>]
  <2>1. \A i \in 0 .. m, j \in 0 .. m :
          i <= j /\ j - i < k => Fields(p)[<<i, j>>] = Fields(s)[<<i, j>>]
    <3>1. CASE k = 0
      BY <3>1
    <3>2. CASE k # 0
      <4>1. \A i \in 0 .. m, j \in 0 .. m : j - i < k => j - i <= k - 1
        OBVIOUS
      <4> QED
        BY <1>1, <3>2, <4>1
    <3> QED
      BY <3>1, <3>2
  <2> DEFINE cut == LastCut(s, c, e)
  <2>2. /\ c \in 0 .. Len(p) /\ e \in 0 .. Len(p) /\ c \in 0 .. Len(s) /\ e \in 0 .. Len(s)
        /\ c \in Nat /\ e \in Nat
    OBVIOUS
  <2>3. cut \in c .. e /\ cut = LastCut(p, c, e)
    <3>1. cut \in c .. e
      BY <1>1, <2>2, LastCutIs
    <3>2. LastCut(s, c, e) = LastCut(p, c, e)
      BY SamePieces
    <3> QED
      BY <3>1, <3>2
  <2>4. /\ Fields(p)[<<c, e>>] = Append(Before(Fields(p), c, cut),
                                        Field(p, Fields(p), cut, e))
        /\ Fields(s)[<<c, e>>] = Append(Before(Fields(s), c, cut),
                                        Field(s, Fields(s), cut, e))
    BY <2>2, <2>3, FieldsAre
  <2> HIDE DEF cut
  <2>5. Before(Fields(p), c, cut) = Before(Fields(s), c, cut)
    <3>1. cut # c => /\ cut - 1 \in 0 .. m /\ c <= cut - 1 /\ (cut - 1) - c < k
      BY <1>1, <2>3
    <3> QED
      BY <2>1, <3>1 DEF Before
  <2>6. Field(p, Fields(p), cut, e) = Field(s, Fields(s), cut, e)
    <3>1. cut \in 0 .. m /\ cut \in Nat
      BY <2>3
    <3>2. /\ Bracketed(p, cut, e) <=> Bracketed(s, cut, e)
          /\ Unquoted(p, cut, e) = Unquoted(s, cut, e)
      BY <3>1, SamePieces, SameTexts
    <3>3. Bracketed(s, cut, e) => Fields(p)[<<cut + 1, e - 1>>] = Fields(s)[<<cut + 1, e - 1>>]
      <4>1. e - cut > 1 => /\ cut + 1 \in 0 .. m /\ e - 1 \in 0 .. m /\ cut + 1 <= e - 1
                           /\ (e - 1) - (cut + 1) < k
        BY <1>1, <2>3
      <4> QED
        BY <2>1, <4>1 DEF Bracketed
    <3> QED
      BY <3>2, <3>3 DEF Field
  <2> QED
    BY <2>4, <2>5, <2>6
<1>2. 0 \in T
  <2>1. 0 \in 0 .. m
    OBVIOUS
  <2>2. \A c \in 0 .. m, e \in 0 .. m :
          c <= e /\ e - c <= 0 => Fields(p)[<<c, e>>] = Fields(s)[<<c, e>>]
    <3> HIDE DEF T
    <3> QED
      BY <1>1, <2>1
  <2> QED
    BY <2>1, <2>2
<1>3. \A k \in 1 .. m : k - 1 \in T => k \in T
  <2> TAKE k \in 1 .. m
  <2> HAVE k - 1 \in T
  <2>1. k \in 0 .. m
    OBVIOUS
  <2>2. \A c \in 0 .. m, e \in 0 .. m :
          c <= e /\ e - c <= k => Fields(p)[<<c, e>>] = Fields(s)[<<c, e>>]
    <3> HIDE DEF T
    <3> QED
      BY <1>1, <2>1
  <2> QED
    BY <2>1, <2>2
<1>4. m \in T
  <2> HIDE DEF T
  <2>1. 0 .. m \subseteq T
    BY <1>2, <1>3, Induction, Zenon
  <2> QED
    BY <2>1
<1>5. b - a <= m
  OBVIOUS
<1> QED
  BY <1>4, <1>5

\* What was appended last is the last, and before it is what it was appended to.
LEMMA AppendedLast ==
  ASSUME NEW l, IsSequence(l), NEW v
  PROVE  Last(Append(l, v)) = v /\ Front(Append(l, v)) = l
<1>1. PICK S : l \in Seq(S)
  BY DEF IsSequence
<1> DEFINE A == S \cup {v}
<1>2. l \in Seq(A) /\ v \in A
  BY <1>1
<1> HIDE DEF A
<1>3. /\ Append(l, v) \in Seq(A) /\ Len(Append(l, v)) = Len(l) + 1 /\ Len(l) \in Nat
      /\ Append(l, v)[Len(l) + 1] = v /\ \A i \in 1 .. Len(l) : Append(l, v)[i] = l[i]
  BY <1>2
<1>4. PICK n \in Nat : n = Len(l)
  BY <1>3
<1>5. SubSeq(Append(l, v), 1, n) = l
  <2>1. /\ SubSeq(Append(l, v), 1, n) \in Seq(A) /\ Len(SubSeq(Append(l, v), 1, n)) = n
        /\ \A i \in 1 .. n : SubSeq(Append(l, v), 1, n)[i] = Append(l, v)[i]
    BY <1>3, <1>4
  <2> QED
    BY <1>2, <1>3, <1>4, <2>1, SeqEqual
<1> QED
  BY <1>3, <1>4, <1>5 DEF Last, Front

\* The fields of a piece are a sequence.
LEMMA FieldsSequence ==
  ASSUME NEW s, Len(s) \in Nat, NEW a \in 0 .. Len(s), NEW b \in 0 .. Len(s), a <= b
  PROVE  IsSequence(Fields(s)[<<a, b>>])
<1> DEFINE T == {k \in 0 .. Len(s) : \A e \in 0 .. k :
                   a <= e => IsSequence(Fields(s)[<<a, e>>])}
<1>1. ASSUME NEW e \in 0 .. Len(s), a <= e,
             \A i \in 0 .. e - 1 : a <= i => IsSequence(Fields(s)[<<a, i>>])
      PROVE  IsSequence(Fields(s)[<<a, e>>])
  <2> DEFINE cut == LastCut(s, a, e)
  <2>1. cut \in a .. e
    <3>1. a \in Nat /\ e \in Nat
      OBVIOUS
    <3> QED
      BY <1>1, <3>1, LastCutIs
  <2>2. Fields(s)[<<a, e>>] = Append(Before(Fields(s), a, cut),
                                     Field(s, Fields(s), cut, e))
    BY FieldsAre
  <2> HIDE DEF cut
  <2>3. IsSequence(Before(Fields(s), a, cut))
    <3>1. CASE cut = a
      <4>1. <<>> \in Seq({})
        OBVIOUS
      <4> QED
        BY <3>1, <4>1 DEF Before, IsSequence
    <3>2. CASE cut # a
      <4>1. cut - 1 \in 0 .. e - 1 /\ a <= cut - 1
        BY <2>1, <3>2
      <4> QED
        BY <1>1, <3>2, <4>1 DEF Before
    <3> QED
      BY <3>1, <3>2
  <2> QED
    BY <2>2, <2>3, Appended
<1>2. 0 \in T
  <2>1. 0 \in 0 .. Len(s) /\ \A i \in 0 .. 0 - 1 : FALSE
    OBVIOUS
  <2>2. a <= 0 => IsSequence(Fields(s)[<<a, 0>>])
    BY <1>1, <2>1
  <2> QED
    BY <2>1, <2>2
<1>3. ASSUME NEW k \in 1 .. Len(s), k - 1 \in T
      PROVE  k \in T
  <2>1. a <= k => IsSequence(Fields(s)[<<a, k>>])
    BY <1>1, <1>3
  <2> QED
    BY <1>3, <2>1
<1>4. 0 .. Len(s) \subseteq T
  <2> HIDE DEF T
  <2> QED
    BY <1>2, <1>3, Induction, Zenon
<1> QED
  BY <1>4

-----------------------------------------------------------------------------
(* What has been read so far. *)

\* A list is open from each of these positions, inside the one before it.
Open(s, starts, depth) ==
  /\ starts \in [0 .. depth -> 0 .. Len(s)]
  /\ starts[0] = 0
  /\ \A i \in 0 .. depth : /\ Depth(s, starts[i]) = i
                           /\ \A n \in starts[i] .. Len(s) : Depth(s, n) >= i
  /\ \A i \in 1 .. depth : /\ starts[i - 1] < starts[i]
                           /\ LastCut(s, starts[i - 1], starts[i] - 1) = starts[i] - 1

\* The lists that are open, and under them the line's arguments.
ListAt(lists, args, i) == IF i = 0 THEN args ELSE lists[i]

\* A list that another was opened in holds the fields up to there.
Filled(s, starts, lists, args) ==
  \A i \in 1 .. Len(lists) :
    ListAt(lists, args, i - 1) = Before(Fields(s), starts[i - 1], starts[i] - 1)

\* The innermost holds the fields up to the last comma; the value is the rest.
Current(s, from, list, v) ==
  LET cut == LastCut(s, from, Len(s)) IN
  list = Before(Fields(s), from, cut) /\ v = Field(s, Fields(s), cut, Len(s))

Reading(s, lists, args, v) ==
  \E starts \in [0 .. Len(lists) -> 0 .. Len(s)] :
    /\ Open(s, starts, Len(lists))
    /\ Filled(s, starts, lists, args)
    /\ Current(s, starts[Len(lists)], ListAt(lists, args, Len(lists)), v)

ReadSoFar ==
  status = "reading" /\ InGrammar(line) => Reading(line, openLists, m_args, value)

\* A line that grows keeps its characters.
LEMMA Grown ==
  ASSUME NEW s \in Seq(Chars), NEW c \in Chars
  PROVE  /\ Append(s, c) \in Seq(Chars) /\ Append(s, c)[Len(s) + 1] = c
         /\ Len(s) \in Nat /\ Len(Append(s, c)) = Len(s) + 1
         /\ SameTo(Append(s, c), s, Len(s))
BY DEF SameTo

\* It keeps its depths, its marks, and the fields of the pieces it has.
LEMMA GrownPieces ==
  ASSUME NEW s \in Seq(Chars), NEW c \in Chars
  PROVE  /\ \A n \in 0 .. Len(s) : Depth(Append(s, c), n) = Depth(s, n) /\ Depth(s, n) \in Int
         /\ \A n \in 1 .. Len(s) : \A marks : Mark(Append(s, c), n, marks) <=> Mark(s, n, marks)
         /\ \A a \in 0 .. Len(s), b \in 0 .. Len(s) :
              /\ LastCut(Append(s, c), a, b) = LastCut(s, a, b)
              /\ Bracketed(Append(s, c), a, b) <=> Bracketed(s, a, b)
              /\ Unquoted(Append(s, c), a, b) = Unquoted(s, a, b)
         /\ \A a \in 0 .. Len(s), b \in 0 .. Len(s) : a <= b =>
              /\ Fields(Append(s, c))[<<a, b>>] = Fields(s)[<<a, b>>]
              /\ Before(Fields(Append(s, c)), a, b) = Before(Fields(s), a, b)
<1> DEFINE t == Append(s, c)
<1>1. Len(s) \in Nat /\ Len(t) = Len(s) + 1 /\ SameTo(t, s, Len(s))
  BY Grown
<1> HIDE DEF t
<1>2. \A n \in 0 .. Len(s) : Depth(t, n) = Depth(s, n) /\ Depth(s, n) \in Int
  BY <1>1, SameMarks, DepthAt
<1>3. \A n \in 1 .. Len(s) : \A marks : Mark(t, n, marks) <=> Mark(s, n, marks)
  BY <1>1, SameMarks
<1>4. ASSUME NEW a \in 0 .. Len(s), NEW b \in 0 .. Len(s)
      PROVE  /\ LastCut(t, a, b) = LastCut(s, a, b)
             /\ Bracketed(t, a, b) <=> Bracketed(s, a, b)
             /\ Unquoted(t, a, b) = Unquoted(s, a, b)
  <2>1. a \in Nat /\ Len(t) \in Nat /\ Len(s) <= Len(t)
    BY <1>1
  <2>2. Unquoted(t, a, b) = Unquoted(s, a, b)
    BY <1>1, <2>1, SameTexts
  <2>3. /\ LastCut(t, a, b) = LastCut(s, a, b)
        /\ Bracketed(t, a, b) <=> Bracketed(s, a, b)
    BY <1>1, SamePieces
  <2> QED
    BY <2>2, <2>3
<1>5. ASSUME NEW a \in 0 .. Len(s), NEW b \in 0 .. Len(s), a <= b
      PROVE  Fields(t)[<<a, b>>] = Fields(s)[<<a, b>>]
  <2>1. Len(t) \in Nat /\ Len(s) <= Len(t)
    BY <1>1
  <2> QED
    BY <1>1, <1>5, <2>1, SameFields
<1>6. ASSUME NEW a \in 0 .. Len(s), NEW b \in 0 .. Len(s), a <= b
      PROVE  Before(Fields(t), a, b) = Before(Fields(s), a, b)
  <2>1. b # a => b - 1 \in 0 .. Len(s) /\ a <= b - 1
    BY <1>1, <1>6
  <2> QED
    BY <1>5, <2>1 DEF Before
<1> QED
  BY <1>2, <1>3, <1>4, <1>5, <1>6 DEF t

\* A character that is no comma, or that is deeper or less deep, is no cut.
LEMMA NoCut ==
  ASSUME NEW s \in Seq(Chars), NEW c \in Chars, NEW a \in 0 .. Len(s),
         ~Mark(Append(s, c), Len(s) + 1, Commas)
  PROVE  LastCut(Append(s, c), a, Len(s) + 1) = LastCut(s, a, Len(s))
<1> DEFINE t == Append(s, c)
           cut == LastCut(s, a, Len(s))
<1>0. Len(s) \in Nat /\ Len(t) = Len(s) + 1
  BY Grown
<1>1. Len(s) \in 0 .. Len(s) /\ a \in Nat
  BY <1>0
<1>2. ~Mark(t, Len(s) + 1, Commas) /\ cut = LastCut(t, a, Len(s))
  BY <1>1, GrownPieces
<1> HIDE DEF t, cut
<1>3. Cuts(t, a, Len(s) + 1) = Cuts(t, a, Len(s))
  <2>1. PICK n \in Nat : n = Len(s)
    BY <1>0
  <2>2. a + 1 .. n + 1 = (a + 1 .. n) \cup {n + 1}
    BY <1>1, <2>1
  <2>3. ~Mark(t, n + 1, Commas)
    BY <1>2, <2>1
  <2>4. Cuts(t, a, n + 1) = Cuts(t, a, n)
    BY <2>2, <2>3 DEF Cuts
  <2> QED
    BY <2>1, <2>4
<1> QED
  BY <1>2, <1>3 DEF LastCut, t, cut

\* A comma at its start's depth is the last cut of a piece that it ends.
LEMMA CommaCuts ==
  ASSUME NEW s, NEW a \in Nat, NEW b \in Nat, a <= b,
         Mark(s, b, Commas), Depth(s, b) = Depth(s, a)
  PROVE  LastCut(s, a, b) = b
<1>1. CASE a = b
  <2>1. LastCut(s, a, b) \in a .. b
    BY LastCutIs
  <2> QED
    BY <1>1, <2>1
<1>2. CASE a # b
  <2>1. b \in Cuts(s, a, b)
    <3>1. b \in a + 1 .. b
      BY <1>2
    <3> QED
      BY <3>1 DEF Cuts
  <2>2. \A i \in Cuts(s, a, b) : b >= i
    <3>1. \A i \in a + 1 .. b : b >= i
      OBVIOUS
    <3> QED
      BY <3>1 DEF Cuts
  <2> QED
    BY <2>1, <2>2, LastCutIs
<1> QED
  BY <1>1, <1>2

\* The lists that stay open are open from where they were.
LEMMA StillOpen ==
  ASSUME NEW s \in Seq(Chars), NEW c \in Chars, NEW depth \in Nat, NEW starts,
         Open(s, starts, depth), NEW e \in 0 .. depth,
         Depth(Append(s, c), Len(s) + 1) >= e
  PROVE  Open(Append(s, c), [i \in 0 .. e |-> starts[i]], e)
<1> DEFINE t == Append(s, c)
           new == [i \in 0 .. e |-> starts[i]]
<1>1. Len(s) \in Nat /\ Len(t) = Len(s) + 1
  BY Grown
<1>2. /\ \A n \in 0 .. Len(s) : Depth(t, n) = Depth(s, n) /\ Depth(s, n) \in Int
      /\ \A a \in 0 .. Len(s), b \in 0 .. Len(s) : LastCut(t, a, b) = LastCut(s, a, b)
  BY GrownPieces
<1>3. Depth(t, Len(s) + 1) \in Int /\ Depth(t, Len(s) + 1) >= e
  BY <1>1, DepthAt
<1> HIDE DEF t
<1>4. \A i \in 0 .. e : new[i] = starts[i] /\ starts[i] \in 0 .. Len(s)
  BY DEF Open
<1>5. starts[0] = 0
  BY DEF Open
<1>6. ASSUME NEW i \in 0 .. e
      PROVE  /\ Depth(t, starts[i]) = i
             /\ \A n \in starts[i] .. Len(t) : Depth(t, n) >= i
  <2>1. i \in 0 .. depth
    OBVIOUS
  <2>2. /\ Depth(s, starts[i]) = i
        /\ \A n \in starts[i] .. Len(s) : Depth(s, n) >= i
    BY <2>1 DEF Open
  <2>3. \A n \in starts[i] .. Len(t) : 
          n = Len(s) + 1 \/ (n \in starts[i] .. Len(s) /\ n \in 0 .. Len(s))
    BY <1>1, <1>4
  <2> QED
    BY <1>2, <1>3, <1>4, <2>2, <2>3
<1>7. ASSUME NEW i \in 1 .. e
      PROVE  /\ starts[i - 1] < starts[i]
             /\ LastCut(t, starts[i - 1], starts[i] - 1) = starts[i] - 1
  <2>1. i \in 1 .. depth /\ i - 1 \in 0 .. e /\ i \in 0 .. e
    OBVIOUS
  <2>2. /\ starts[i - 1] < starts[i]
        /\ LastCut(s, starts[i - 1], starts[i] - 1) = starts[i] - 1
    BY <2>1 DEF Open
  <2>3. starts[i] - 1 \in 0 .. Len(s) /\ starts[i - 1] \in 0 .. Len(s)
    BY <1>1, <1>4, <2>1, <2>2
  <2> QED
    BY <1>2, <2>2, <2>3
<1> HIDE DEF new
<1>8. new \in [0 .. e -> 0 .. Len(t)]
  <2>1. \A i \in 0 .. e : starts[i] \in 0 .. Len(t)
    BY <1>1, <1>4
  <2> QED
    BY <2>1 DEF new
<1>9. new[0] = 0
  <2>1. 0 \in 0 .. e
    OBVIOUS
  <2> QED
    BY <1>4, <1>5, <2>1
<1>10. \A i \in 0 .. e : /\ Depth(t, new[i]) = i
                         /\ \A n \in new[i] .. Len(t) : Depth(t, n) >= i
  BY <1>4, <1>6
<1>11. \A i \in 1 .. e : /\ new[i - 1] < new[i]
                         /\ LastCut(t, new[i - 1], new[i] - 1) = new[i] - 1
  <2>1. \A i \in 1 .. e : i - 1 \in 0 .. e /\ i \in 0 .. e
    OBVIOUS
  <2> QED
    BY <1>4, <1>7, <2>1
<1> QED
  BY <1>8, <1>9, <1>11, <1>10 DEF Open, new, t

\* What they hold is what they held.
LEMMA StillFilled ==
  ASSUME NEW s \in Seq(Chars), NEW c \in Chars, NEW depth \in Nat, NEW starts,
         Open(s, starts, depth), NEW i \in 1 .. depth
  PROVE  /\ starts[i - 1] \in 0 .. Len(s) /\ starts[i] - 1 \in 0 .. Len(s)
         /\ starts[i - 1] <= starts[i] - 1 /\ starts[i] \in 0 .. Len(s)
         /\ Before(Fields(Append(s, c)), starts[i - 1], starts[i] - 1) =
              Before(Fields(s), starts[i - 1], starts[i] - 1)
<1>1. i - 1 \in 0 .. depth /\ i \in 0 .. depth
  OBVIOUS
<1>2. starts[i - 1] \in 0 .. Len(s) /\ starts[i] \in 0 .. Len(s) /\ starts[i - 1] < starts[i]
  BY <1>1 DEF Open
<1>3. starts[i] - 1 \in 0 .. Len(s) /\ starts[i - 1] <= starts[i] - 1
  BY <1>2
<1> QED
  BY <1>2, <1>3, GrownPieces

\* A line of the grammar was one before its last character.
LEMMA GrammarBefore ==
  ASSUME NEW s \in Seq(Chars), NEW c \in Chars, InGrammar(Append(s, c))
  PROVE  /\ InGrammar(s)
         /\ Mark(Append(s, c), Len(s) + 1, Openers) =>
              Len(s) = 0 \/ Mark(s, Len(s), Commas \cup Openers)
         /\ Len(s) > 0 /\ Mark(s, Len(s), Closers) =>
              Mark(Append(s, c), Len(s) + 1, Commas \cup Closers)
<1> DEFINE t == Append(s, c)
<1>1. PICK n \in Nat : n = Len(s) /\ DOMAIN t = 1 .. n + 1 /\ DOMAIN s = 1 .. n /\ Len(t) = n + 1
  OBVIOUS
<1>2. \A i \in 1 .. n : \A marks : Mark(t, i, marks) <=> Mark(s, i, marks)
  BY <1>1, GrownPieces
<1>3. \A i \in 1 .. n + 1 :
        /\ Mark(t, i, Openers) => i = 1 \/ Mark(t, i - 1, Commas \cup Openers)
        /\ Mark(t, i, Closers) => i = n + 1 \/ Mark(t, i + 1, Commas \cup Closers)
  BY <1>1 DEF InGrammar
<1> HIDE DEF t
<1>4. ASSUME NEW i \in 1 .. n
      PROVE  /\ Mark(s, i, Openers) => i = 1 \/ Mark(s, i - 1, Commas \cup Openers)
             /\ Mark(s, i, Closers) => i = n \/ Mark(s, i + 1, Commas \cup Closers)
  <2>1. /\ i \in 1 .. n + 1 /\ i # n + 1
        /\ i # 1 => i - 1 \in 1 .. n
        /\ i # n => i + 1 \in 1 .. n
    OBVIOUS
  <2> QED
    BY <1>2, <1>3, <2>1
<1>5. /\ n + 1 \in 1 .. n + 1 /\ (n + 1) - 1 = n
      /\ n + 1 = 1 => n = 0
      /\ n # 0 => n \in 1 .. n /\ n \in 1 .. n + 1 /\ n # n + 1
  OBVIOUS
<1>6. Mark(t, n + 1, Openers) => n = 0 \/ Mark(s, n, Commas \cup Openers)
  BY <1>2, <1>3, <1>5
<1>7. ASSUME n > 0, Mark(s, n, Closers) PROVE Mark(t, n + 1, Commas \cup Closers)
  <2>1. n \in 1 .. n /\ n \in 1 .. n + 1 /\ n # n + 1
    BY <1>7
  <2>2. Mark(t, n, Closers)
    BY <1>2, <1>7, <2>1
  <2> QED
    BY <1>3, <2>1, <2>2
<1>8. InGrammar(s)
  BY <1>1, <1>4 DEF InGrammar
<1> QED
  BY <1>1, <1>6, <1>7, <1>8 DEF t

\* What is open is open from positions in the line, the innermost from its depth.
LEMMA OpenFrom ==
  ASSUME NEW s \in Seq(Chars), NEW depth \in Nat, NEW starts, Open(s, starts, depth)
  PROVE  /\ starts[depth] \in 0 .. Len(s) /\ starts[depth] \in Nat
         /\ Depth(s, starts[depth]) = depth
         /\ \A n \in starts[depth] .. Len(s) : Depth(s, n) >= depth
         /\ Len(s) \in starts[depth] .. Len(s)
         /\ starts = [i \in 0 .. depth |-> starts[i]]
<1>1. depth \in 0 .. depth /\ Len(s) \in Nat
  OBVIOUS
<1>2. starts[depth] \in 0 .. Len(s) /\ starts = [i \in 0 .. depth |-> starts[i]]
  BY <1>1 DEF Open
<1>3. starts[depth] \in Nat /\ Len(s) \in starts[depth] .. Len(s)
  BY <1>1, <1>2
<1> QED
  BY <1>1, <1>2, <1>3 DEF Open

\* The lists outside the innermost hold what they held.
LEMMA FilledGrows ==
  ASSUME NEW s \in Seq(Chars), NEW c \in Chars, NEW lists, NEW args, NEW starts,
         Len(lists) \in Nat, Open(s, starts, Len(lists)), Filled(s, starts, lists, args)
  PROVE  Filled(Append(s, c), starts, lists, args)
<1>1. ASSUME NEW i \in 1 .. Len(lists)
      PROVE  ListAt(lists, args, i - 1) =
               Before(Fields(Append(s, c)), starts[i - 1], starts[i] - 1)
  <2>1. Before(Fields(Append(s, c)), starts[i - 1], starts[i] - 1) =
          Before(Fields(s), starts[i - 1], starts[i] - 1)
    BY StillFilled
  <2> QED
    BY <2>1 DEF Filled
<1> QED
  BY <1>1 DEF Filled

\* Text, quoted or not, and a quote go on with the value.
LEMMA ReadsText ==
  ASSUME NEW s \in Seq(Chars), NEW c \in Chars, InGrammar(Append(s, c)),
         \A marks \in {Commas, Openers, Closers} : ~Mark(Append(s, c), Len(s) + 1, marks),
         NEW lists, NEW args, NEW v, Len(lists) \in Nat, Reading(s, lists, args, v)
  PROVE  Reading(Append(s, c), lists, args, IF c = Quote THEN v ELSE Added(v, c))
<1> DEFINE t == Append(s, c)
           d == Len(lists)
           L == Len(s)
<1>1. PICK starts : /\ Open(s, starts, d) /\ Filled(s, starts, lists, args)
                    /\ Current(s, starts[d], ListAt(lists, args, d), v)
  BY DEF Reading
<1>2. L \in Nat /\ Len(t) = L + 1 /\ t[L + 1] = c
  BY Grown
<1> DEFINE from == starts[d]
           cut == LastCut(s, from, L)
<1>3. /\ from \in 0 .. L /\ from \in Nat /\ L \in from .. L
      /\ \A n \in from .. L : Depth(s, n) >= d
      /\ starts = [i \in 0 .. d |-> starts[i]]
  BY <1>1, OpenFrom
<1>4. /\ ~Mark(t, L + 1, Commas) /\ ~Mark(t, L + 1, Openers) /\ ~Mark(t, L + 1, Closers)
  OBVIOUS
<1>5. /\ cut \in 0 .. L /\ cut \in from .. L /\ cut \in Nat
  <2>1. cut \in from .. L
    <3>1. from <= L
      BY <1>2, <1>3
    <3> QED
      BY <1>2, <1>3, <3>1, LastCutIs
  <2> QED
    BY <1>3, <2>1
<1>6. LastCut(t, from, L + 1) = cut
  BY <1>3, <1>4, NoCut
<1>7. Depth(t, L + 1) = Depth(t, L) /\ Depth(t, L) = Depth(s, L) /\ Depth(t, cut) = Depth(s, cut)
      /\ Depth(s, L) \in Int
  <2>1. L \in 0 .. L
    BY <1>2
  <2>2. Depth(t, L + 1) = Depth(t, L) + 0 /\ Depth(t, L) \in Int
    BY <1>2, <1>4, DepthAt
  <2> QED
    BY <1>5, <2>1, <2>2, GrownPieces
<1>8. ListAt(lists, args, d) = Before(Fields(s), from, cut) /\ v = Field(s, Fields(s), cut, L)
  BY <1>1 DEF Current
<1> HIDE DEF t, L, from, cut, d
<1>9. ~Bracketed(s, cut, L)
  <2> SUFFICES ASSUME Bracketed(s, cut, L) PROVE FALSE
    OBVIOUS
  <2>1. /\ L - cut > 1 /\ Depth(s, L) = Depth(s, cut)
        /\ \A n \in cut + 1 .. L - 1 : Depth(s, n) > Depth(s, cut)
    BY DEF Bracketed
  <2>2. PICK n \in Nat : n \in cut + 1 .. L - 1 /\ L = n + 1
    BY <1>2, <1>5, <2>1
  <2>3. /\ Depth(s, n) \in Int
        /\ Depth(s, n + 1) = Depth(s, n) + (IF Mark(s, n + 1, Openers) THEN 1
                                            ELSE IF Mark(s, n + 1, Closers) THEN -1 ELSE 0)
    BY DepthAt
  <2>4. Mark(s, L, Closers) /\ L > 0
    BY <1>7, <2>1, <2>2, <2>3
  <2>5. Mark(t, L + 1, Commas \cup Closers)
    BY <2>4, GrammarBefore DEF t, L
  <2> QED
    BY <1>4, <2>5 DEF Mark
<1>10. ~Bracketed(t, cut, L + 1)
  <2> SUFFICES ASSUME Bracketed(t, cut, L + 1) PROVE FALSE
    OBVIOUS
  <2>1. /\ (L + 1) - cut > 1 /\ Depth(t, L + 1) = Depth(t, cut)
        /\ \A n \in cut + 1 .. (L + 1) - 1 : Depth(t, n) > Depth(t, cut)
    BY DEF Bracketed
  <2>2. L \in cut + 1 .. (L + 1) - 1
    BY <1>2, <1>5, <2>1
  <2> QED
    BY <1>7, <2>1, <2>2
<1>11. /\ Unquoted(t, cut, L + 1) =
             IF c = Quote THEN Unquoted(s, cut, L) ELSE Append(Unquoted(s, cut, L), c)
  <2>1. L + 1 \in 0 .. Len(t) /\ Len(t) \in Nat /\ ~(L + 1 <= cut) /\ (L + 1) - 1 = L
    BY <1>2, <1>5
  <2>2. Unquoted(t, cut, L + 1) =
          IF c = Quote THEN Unquoted(t, cut, L) ELSE Append(Unquoted(t, cut, L), c)
    BY <1>2, <1>5, <2>1, UnquotedIs
  <2>3. L \in 0 .. L
    BY <1>2
  <2>4. Unquoted(t, cut, L) = Unquoted(s, cut, L)
    BY <1>5, <2>3, GrownPieces DEF t, L
  <2> QED
    BY <2>2, <2>4
<1>12. Field(t, Fields(t), cut, L + 1) = IF c = Quote THEN v ELSE Added(v, c)
  <2>1. v = Text(Unquoted(s, cut, L)) /\ v.text = Unquoted(s, cut, L)
    BY <1>8, <1>9 DEF Field, Text
  <2>2. Field(t, Fields(t), cut, L + 1) = Text(Unquoted(t, cut, L + 1))
    BY <1>10 DEF Field
  <2> QED
    BY <1>11, <2>1, <2>2 DEF Added
<1>13. Before(Fields(t), from, cut) = Before(Fields(s), from, cut)
  <2>1. from <= cut
    BY <1>3, <1>5
  <2> QED
    BY <1>3, <1>5, <2>1, GrownPieces DEF t, L
<1>14. Current(t, starts[d], ListAt(lists, args, d), IF c = Quote THEN v ELSE Added(v, c))
  BY <1>2, <1>6, <1>8, <1>12, <1>13 DEF Current, from
<1>15. Open(t, starts, d)
  <2>1. d \in Nat /\ d \in 0 .. d /\ Open(s, starts, d)
    BY <1>1 DEF d
  <2>2. Depth(t, L + 1) >= d
    BY <1>3, <1>7
  <2>3. Open(t, [i \in 0 .. d |-> starts[i]], d)
    BY <2>1, <2>2, StillOpen DEF t, L
  <2> QED
    BY <1>3, <2>3
<1>16. Filled(t, starts, lists, args)
  BY <1>1, FilledGrows DEF t, d
<1>17. starts \in [0 .. d -> 0 .. Len(t)]
  BY <1>15 DEF Open
<1> QED
  BY <1>14, <1>15, <1>16, <1>17 DEF Reading, d, t

\* A comma is no bracket, and an opener no closer.
LEMMA MarksDiffer ==
  /\ Commas \cap Openers = {} /\ Commas \cap Closers = {} /\ Openers \cap Closers = {}
  /\ Quote \notin Commas /\ Quote \notin Openers /\ Quote \notin Closers
BY Zenon DEF Commas, Openers, Closers, Quote

\* A list, with the value last, is all the fields from where it was opened.
IsAllFrom(s, from, list, v) == Fields(s)[<<from, Len(s)>>] = Append(list, v)

\* What the pieces of a line are once the innermost list is known.
LEMMA InnermostIs ==
  ASSUME NEW s \in Seq(Chars), NEW depth \in Nat, NEW starts, Open(s, starts, depth),
         NEW list, NEW v, Current(s, starts[depth], list, v)
  PROVE  IsAllFrom(s, starts[depth], list, v) /\ IsSequence(list)
<1> DEFINE from == starts[depth]
           L == Len(s)
           cut == LastCut(s, from, L)
<1>1. from \in 0 .. L /\ from \in Nat /\ L \in Nat
  BY OpenFrom
<1>2. L \in 0 .. L /\ from <= L
  BY <1>1
<1>3. list = Before(Fields(s), from, cut) /\ v = Field(s, Fields(s), cut, L)
  BY DEF Current
<1>4. Fields(s)[<<from, L>>] = Append(Before(Fields(s), from, cut), Field(s, Fields(s), cut, L))
  <2> HIDE DEF from
  <2> QED
    BY <1>1, <1>2, FieldsAre
<1>5. cut \in from .. L
  <2> HIDE DEF from, L
  <2> QED
    BY <1>1, <1>2, LastCutIs
<1> HIDE DEF from, L, cut
<1>6. IsSequence(Before(Fields(s), from, cut))
  <2>1. CASE cut = from
    <3>1. <<>> \in Seq({})
      OBVIOUS
    <3> QED
      BY <2>1, <3>1 DEF Before, IsSequence
  <2>2. CASE cut # from
    <3>1. cut - 1 \in 0 .. L /\ from <= cut - 1
      BY <1>1, <1>5, <2>2
    <3>2. IsSequence(Fields(s)[<<from, cut - 1>>])
      BY <1>1, <3>1, FieldsSequence DEF L
    <3> QED
      BY <2>2, <3>2 DEF Before
  <2> QED
    BY <2>1, <2>2
<1> QED
  BY <1>3, <1>4, <1>6 DEF IsAllFrom, from, L

\* A comma ends an item of the innermost list.
LEMMA ReadsComma ==
  ASSUME NEW s \in Seq(Chars), NEW c \in Chars, Mark(Append(s, c), Len(s) + 1, Commas),
         NEW lists, NEW args, NEW v, Len(lists) \in Nat, Reading(s, lists, args, v),
         Depth(s, Len(s)) = Len(lists),
         NEW lists2, NEW args2, Len(lists2) = Len(lists),
         \A i \in 0 .. Len(lists) :
           ListAt(lists2, args2, i) =
             IF i = Len(lists) THEN Append(ListAt(lists, args, i), v) ELSE ListAt(lists, args, i)
  PROVE  Reading(Append(s, c), lists2, args2, Text(<<>>))
<1> DEFINE t == Append(s, c)
           d == Len(lists)
           L == Len(s)
<1>1. PICK starts : /\ Open(s, starts, d) /\ Filled(s, starts, lists, args)
                    /\ Current(s, starts[d], ListAt(lists, args, d), v)
  BY DEF Reading
<1>2. L \in Nat /\ Len(t) = L + 1 /\ d \in Nat
  BY Grown
<1> DEFINE from == starts[d]
<1>3. /\ from \in 0 .. L /\ from \in Nat /\ L \in from .. L /\ Depth(s, from) = d
      /\ starts = [i \in 0 .. d |-> starts[i]]
  BY <1>1, OpenFrom
<1>4. Mark(t, L + 1, Commas) /\ ~Mark(t, L + 1, Openers) /\ ~Mark(t, L + 1, Closers)
  BY MarksDiffer DEF Mark
<1>5. /\ Depth(t, L + 1) = d /\ Depth(t, from) = d
  <2>1. L \in 0 .. L
    BY <1>2
  <2>2. Depth(t, L + 1) = Depth(t, L) + 0 /\ Depth(t, L) \in Int
    BY <1>2, <1>4, DepthAt
  <2>3. Depth(t, L) = Depth(s, L) /\ Depth(t, from) = Depth(s, from)
    BY <1>3, <2>1, GrownPieces
  <2> QED
    BY <1>3, <2>2, <2>3
<1>6. Fields(s)[<<from, L>>] = Append(ListAt(lists, args, d), v)
  <2>1. d \in Nat /\ Open(s, starts, d) /\ Current(s, starts[d], ListAt(lists, args, d), v)
    BY <1>1, <1>2
  <2> HIDE DEF d
  <2>2. IsAllFrom(s, starts[d], ListAt(lists, args, d), v)
    BY <2>1, InnermostIs
  <2> QED
    BY <2>2 DEF IsAllFrom
<1>7. LastCut(t, from, L + 1) = L + 1
  <2>1. L + 1 \in Nat /\ from <= L + 1
    BY <1>2, <1>3
  <2> HIDE DEF t, L, from, d
  <2> QED
    BY <1>3, <1>4, <1>5, <2>1, CommaCuts
<1> HIDE DEF t, L, from, d
<1>8. Before(Fields(t), from, L + 1) = Append(ListAt(lists, args, d), v)
  <2>1. L + 1 # from /\ (L + 1) - 1 = L /\ L \in 0 .. L /\ from <= L
    <3>1. from <= L /\ from \in Nat /\ L \in Nat
      BY <1>2, <1>3
    <3>2. from # L + 1
      BY <3>1
    <3> QED
      BY <3>1, <3>2
  <2>2. Before(Fields(t), from, L + 1) = Fields(t)[<<from, L>>]
    BY <2>1 DEF Before
  <2> QED
    BY <1>3, <1>6, <2>1, <2>2, GrownPieces DEF t, L
<1>9. Field(t, Fields(t), L + 1, L + 1) = Text(<<>>)
  <2>1. L + 1 \in 0 .. Len(t) /\ Len(t) \in Nat /\ L + 1 <= L + 1 /\ L + 1 \in Nat
        /\ ~((L + 1) - (L + 1) > 1)
    BY <1>2
  <2>2. ~Bracketed(t, L + 1, L + 1)
    BY <2>1 DEF Bracketed
  <2>3. Unquoted(t, L + 1, L + 1) = <<>>
    BY <2>1, UnquotedIs
  <2> QED
    BY <2>2, <2>3 DEF Field
<1>10. Open(t, starts, d)
  <2>1. d \in 0 .. d /\ Depth(t, L + 1) >= d
    BY <1>2, <1>5
  <2>2. Open(t, [i \in 0 .. d |-> starts[i]], d)
    BY <1>1, <1>2, <2>1, StillOpen DEF t, L
  <2> QED
    BY <1>3, <2>2
<1>11. Filled(t, starts, lists2, args2)
  <2>1. Filled(t, starts, lists, args)
    BY <1>1, FilledGrows DEF t, d
  <2>2. \A i \in 1 .. d : i - 1 \in 0 .. d /\ i - 1 # d
    BY <1>2
  <2>3. \A i \in 1 .. d : ListAt(lists2, args2, i - 1) = ListAt(lists, args, i - 1)
    BY <2>2 DEF d
  <2> QED
    BY <2>1, <2>3 DEF Filled, d
<1>12. Current(t, from, ListAt(lists2, args2, d), Text(<<>>))
  <2>1. d \in 0 .. d
    BY <1>2
  <2>2. ListAt(lists2, args2, d) = Append(ListAt(lists, args, d), v)
    BY <2>1 DEF d
  <2> QED
    BY <1>2, <1>7, <1>8, <1>9, <2>2 DEF Current
<1>13. starts \in [0 .. d -> 0 .. Len(t)]
  BY <1>10 DEF Open
<1> QED
  BY <1>10, <1>11, <1>12, <1>13 DEF Reading, d, t, from

\* An opener begins a list, inside the innermost and right where an item begins.
LEMMA ReadsOpener ==
  ASSUME NEW s \in Seq(Chars), NEW c \in Chars, Mark(Append(s, c), Len(s) + 1, Openers),
         InGrammar(Append(s, c)),
         NEW lists, NEW args, NEW v, Len(lists) \in Nat, Reading(s, lists, args, v),
         Depth(s, Len(s)) = Len(lists),
         NEW lists2, Len(lists2) = Len(lists) + 1,
         \A i \in 0 .. Len(lists) : ListAt(lists2, args, i) = ListAt(lists, args, i),
         ListAt(lists2, args, Len(lists) + 1) = <<>>
  PROVE  Reading(Append(s, c), lists2, args, v)
<1> DEFINE t == Append(s, c)
           d == Len(lists)
           L == Len(s)
<1>1. PICK starts : /\ Open(s, starts, d) /\ Filled(s, starts, lists, args)
                    /\ Current(s, starts[d], ListAt(lists, args, d), v)
  BY DEF Reading
<1>2. L \in Nat /\ Len(t) = L + 1 /\ d \in Nat
  BY Grown
<1> DEFINE from == starts[d]
           cut == LastCut(s, from, L)
           new == [i \in 0 .. d + 1 |-> IF i = d + 1 THEN L + 1 ELSE starts[i]]
<1>3. /\ from \in 0 .. L /\ from \in Nat /\ L \in from .. L /\ Depth(s, from) = d
      /\ \A n \in from .. L : Depth(s, n) >= d
      /\ starts = [i \in 0 .. d |-> starts[i]]
  BY <1>1, OpenFrom
<1>4. Mark(t, L + 1, Openers) /\ ~Mark(t, L + 1, Commas) /\ ~Mark(t, L + 1, Closers)
  BY MarksDiffer DEF Mark
<1>5. Depth(t, L + 1) = d + 1 /\ Depth(t, L) = d
  <2>1. L \in 0 .. L
    BY <1>2
  <2>2. Depth(t, L + 1) = Depth(t, L) + 1 /\ Depth(t, L) \in Int
    BY <1>2, <1>4, DepthAt
  <2>3. Depth(t, L) = Depth(s, L)
    BY <2>1, GrownPieces
  <2> QED
    BY <2>2, <2>3
<1>6. L = 0 \/ Mark(s, L, Commas) \/ Mark(s, L, Openers)
  <2>1. L = 0 \/ Mark(s, L, Commas \cup Openers)
    BY <1>4, GrammarBefore
  <2> HIDE DEF L
  <2> QED
    BY <2>1 DEF Mark
<1>7. from <= L
  BY <1>2, <1>3
<1>8. ListAt(lists, args, d) = Before(Fields(s), from, cut) /\ v = Field(s, Fields(s), cut, L)
  BY <1>1 DEF Current
<1>0. Depth(s, L) = d
  OBVIOUS
<1> HIDE DEF t, L, from, d
<1>9. cut = L
  <2>1. CASE L = from
    <3>1. cut \in from .. L
      BY <1>2, <1>3, <1>7, LastCutIs
    <3> QED
      BY <1>2, <1>3, <2>1, <3>1
  <2>2. CASE L # from /\ Mark(s, L, Commas)
    BY <1>0, <1>2, <1>3, <1>7, <2>2, CommaCuts
  <2>3. CASE L # from /\ Mark(s, L, Openers)
    <3>1. PICK n \in Nat : n \in from .. L /\ L = n + 1
      <4>1. L > from /\ L - 1 \in Nat
        BY <1>2, <1>3, <1>7, <2>3
      <4> QED
        BY <1>2, <1>3, <4>1
    <3>2. /\ Depth(s, n) \in Int
          /\ Depth(s, n + 1) = Depth(s, n) + (IF Mark(s, n + 1, Openers) THEN 1
                                              ELSE IF Mark(s, n + 1, Closers) THEN -1 ELSE 0)
      BY DepthAt
    <3>3. Depth(s, n) >= d
      BY <1>3, <3>1
    <3> QED
      BY <1>0, <1>2, <2>3, <3>1, <3>2, <3>3
  <2>4. L = from \/ L # 0
    BY <1>2, <1>3
  <2> QED
    BY <1>6, <2>1, <2>2, <2>3, <2>4
<1>10. /\ new[d + 1] = L + 1 /\ \A i \in 0 .. d : new[i] = starts[i] /\ starts[i] \in 0 .. L
  <2>1. \A i \in 0 .. d : i \in 0 .. d + 1 /\ i # d + 1
    BY <1>2
  <2>2. d + 1 \in 0 .. d + 1
    BY <1>2
  <2>3. \A i \in 0 .. d : starts[i] \in 0 .. L
    BY <1>1 DEF Open, L
  <2> QED
    BY <2>1, <2>2, <2>3
<1>11. new \in [0 .. d + 1 -> 0 .. Len(t)]
  <2>1. \A i \in 0 .. d : starts[i] \in 0 .. Len(t)
    <3>1. \A n \in 0 .. L : n \in 0 .. Len(t)
      BY <1>2
    <3> QED
      BY <1>10, <3>1
  <2>2. L + 1 \in 0 .. Len(t)
    BY <1>2
  <2>3. \A i \in 0 .. d + 1 : i = d + 1 \/ i \in 0 .. d
    BY <1>2
  <2> QED
    BY <2>1, <2>2, <2>3
<1> HIDE DEF new
<1>12. Open(t, starts, d)
  <2>1. d \in 0 .. d /\ Depth(t, L + 1) >= d
    BY <1>2, <1>5
  <2>2. Open(t, [i \in 0 .. d |-> starts[i]], d)
    BY <1>1, <1>2, <2>1, StillOpen DEF t, L
  <2> QED
    BY <1>3, <2>2
<1>13. LastCut(t, from, L) = L
  <2>1. L \in 0 .. L
    BY <1>2
  <2> QED
    BY <1>3, <1>9, <2>1, GrownPieces DEF t, L, cut
<1>14. Open(t, new, d + 1)
  <2>1. ASSUME NEW i \in 0 .. d + 1
        PROVE  Depth(t, new[i]) = i /\ \A n \in new[i] .. Len(t) : Depth(t, n) >= i
    <3>1. CASE i = d + 1
      <4>1. \A n \in L + 1 .. Len(t) : n = L + 1
        BY <1>2
      <4> QED
        BY <1>2, <1>5, <1>10, <3>1, <4>1
    <3>2. CASE i # d + 1
      <4>1. i \in 0 .. d
        BY <1>2, <3>2
      <4> QED
        BY <1>10, <1>12, <4>1 DEF Open
    <3> QED
      BY <3>1, <3>2
  <2>2. ASSUME NEW i \in 1 .. d + 1
        PROVE  new[i - 1] < new[i] /\ LastCut(t, new[i - 1], new[i] - 1) = new[i] - 1
    <3>1. CASE i = d + 1
      <4>1. i - 1 = d /\ d \in 0 .. d /\ (L + 1) - 1 = L
        BY <1>2, <3>1
      <4>2. new[i - 1] = from /\ new[i] = L + 1
        BY <1>10, <3>1, <4>1 DEF from
      <4>3. from < L + 1
        BY <1>2, <1>3, <1>7
      <4> QED
        BY <1>13, <4>1, <4>2, <4>3
    <3>2. CASE i # d + 1
      <4>1. i \in 1 .. d /\ i \in 0 .. d /\ i - 1 \in 0 .. d
        BY <1>2, <3>2
      <4> QED
        BY <1>10, <1>12, <4>1 DEF Open
    <3> QED
      BY <3>1, <3>2
  <2>3. new[0] = 0
    <3>1. 0 \in 0 .. d
      BY <1>2
    <3> QED
      BY <1>10, <1>12, <3>1 DEF Open
  <2> QED
    BY <1>11, <2>1, <2>2, <2>3 DEF Open
<1>15. Filled(t, new, lists2, args)
  <2>1. Filled(t, starts, lists, args)
    BY <1>1, FilledGrows DEF t, d
  <2>2. ASSUME NEW i \in 1 .. d + 1
        PROVE  ListAt(lists2, args, i - 1) = Before(Fields(t), new[i - 1], new[i] - 1)
    <3>0. i - 1 \in 0 .. d
      BY <1>2
    <3>1. ListAt(lists2, args, i - 1) = ListAt(lists, args, i - 1)
      BY <3>0 DEF d
    <3>2. CASE i = d + 1
      <4>1. i - 1 = d /\ (L + 1) - 1 = L /\ L \in 0 .. L
        BY <1>2, <3>2
      <4>2. Before(Fields(t), from, L) = Before(Fields(s), from, L)
        BY <1>3, <1>7, <4>1, GrownPieces DEF t, L
      <4>3. new[i - 1] = from /\ new[i] - 1 = L
        BY <1>10, <3>0, <3>2, <4>1 DEF from
      <4> QED
        BY <1>8, <1>9, <3>1, <4>1, <4>2, <4>3
    <3>3. CASE i # d + 1
      <4>1. i \in 1 .. d /\ i \in 0 .. d
        BY <1>2, <3>3
      <4>2. ListAt(lists, args, i - 1) = Before(Fields(t), starts[i - 1], starts[i] - 1)
        BY <2>1, <4>1 DEF Filled, d
      <4> QED
        BY <1>10, <3>0, <3>1, <4>1, <4>2
    <3> QED
      BY <3>2, <3>3
  <2> QED
    BY <2>2 DEF Filled, d
<1>16. Current(t, new[d + 1], ListAt(lists2, args, d + 1), v)
  <2>1. L + 1 \in 0 .. Len(t) /\ Len(t) \in Nat /\ L + 1 <= L + 1 /\ L + 1 \in Nat
        /\ ~((L + 1) - (L + 1) > 1)
    BY <1>2
  <2>2. LastCut(t, L + 1, L + 1) = L + 1
    <3>1. LastCut(t, L + 1, L + 1) \in L + 1 .. L + 1
      BY <2>1, LastCutIs
    <3> QED
      BY <2>1, <3>1
  <2>3. ~Bracketed(t, L + 1, L + 1)
    BY <2>1 DEF Bracketed
  <2>4. Unquoted(t, L + 1, L + 1) = <<>>
    BY <2>1, UnquotedIs
  <2>5. Field(t, Fields(t), L + 1, L + 1) = Text(<<>>)
    BY <2>3, <2>4 DEF Field
  <2>6. v = Text(<<>>)
    <3>1. L \in 0 .. Len(s) /\ Len(s) \in Nat /\ L <= L /\ ~(L - L > 1)
      BY <1>2 DEF L
    <3>2. ~Bracketed(s, L, L)
      BY <3>1 DEF Bracketed
    <3>3. Unquoted(s, L, L) = <<>>
      BY <1>2, <3>1, UnquotedIs
    <3> QED
      BY <1>8, <1>9, <3>2, <3>3 DEF Field
  <2>7. ListAt(lists2, args, d + 1) = Before(Fields(t), L + 1, L + 1)
    BY DEF Before, d
  <2> QED
    BY <1>2, <1>10, <2>2, <2>5, <2>6, <2>7 DEF Current
<1> QED
  BY <1>11, <1>14, <1>15, <1>16 DEF Reading, d, t

\* A closer ends the innermost list, and the list is the value.
LEMMA ReadsCloser ==
  ASSUME NEW s \in Seq(Chars), NEW c \in Chars, Mark(Append(s, c), Len(s) + 1, Closers),
         NEW lists, NEW args, NEW v, Len(lists) \in Nat \ {0}, Reading(s, lists, args, v),
         Depth(s, Len(s)) = Len(lists),
         NEW lists2, Len(lists2) = Len(lists) - 1,
         \A i \in 0 .. Len(lists) - 1 : ListAt(lists2, args, i) = ListAt(lists, args, i)
  PROVE  Reading(Append(s, c), lists2, args,
                 List(IF isSet(v) THEN Append(ListAt(lists, args, Len(lists)), v)
                                  ELSE ListAt(lists, args, Len(lists))))
<1> DEFINE t == Append(s, c)
           d == Len(lists)
           L == Len(s)
           inner == ListAt(lists, args, d)
           v2 == List(IF isSet(v) THEN Append(inner, v) ELSE inner)
<1>1. PICK starts : /\ Open(s, starts, d) /\ Filled(s, starts, lists, args)
                    /\ Current(s, starts[d], ListAt(lists, args, d), v)
  BY DEF Reading
<1>2. L \in Nat /\ Len(t) = L + 1 /\ d \in Nat /\ d # 0 /\ d - 1 \in Nat /\ d \in 1 .. d
  BY Grown
<1> DEFINE from == starts[d - 1]
           start == starts[d]
           cut == start - 1
           new == [i \in 0 .. d - 1 |-> starts[i]]
<1>3. /\ start \in 0 .. L /\ start \in Nat /\ L \in start .. L
      /\ \A n \in start .. L : Depth(s, n) >= d
  BY <1>1, OpenFrom
<1>4. /\ from \in 0 .. L /\ cut \in 0 .. L /\ from <= cut
      /\ Before(Fields(t), from, cut) = Before(Fields(s), from, cut)
  BY <1>1, <1>2, StillFilled
<1>5. LastCut(s, from, cut) = cut /\ Depth(s, from) = d - 1
  <2>1. d - 1 \in 0 .. d
    BY <1>2
  <2> QED
    BY <1>1, <1>2, <2>1 DEF Open
<1>6. IsAllFrom(s, start, inner, v) /\ IsSequence(inner)
  <2> HIDE DEF d
  <2> QED
    BY <1>1, <1>2, InnermostIs
<1>7. Mark(t, L + 1, Closers) /\ ~Mark(t, L + 1, Commas) /\ ~Mark(t, L + 1, Openers)
  BY MarksDiffer DEF Mark
<1>8. Depth(t, L + 1) = d - 1
  <2>1. L \in 0 .. L
    BY <1>2
  <2>2. Depth(t, L + 1) = Depth(t, L) - 1 /\ Depth(t, L) \in Int
    BY <1>2, <1>7, DepthAt
  <2>3. Depth(t, L) = Depth(s, L)
    BY <2>1, GrownPieces
  <2> QED
    BY <2>2, <2>3
<1>9. ListAt(lists, args, d - 1) = Before(Fields(s), from, cut)
  BY <1>1, <1>2 DEF Filled
<1> HIDE DEF t, L, inner, d, from, start
<1>10. /\ \A n \in 0 .. L : Depth(t, n) = Depth(s, n) /\ Depth(s, n) \in Int
       /\ start <= L /\ start >= 1 /\ from \in Nat /\ cut \in Nat
  <2>1. start >= 1 /\ from \in Nat /\ cut \in Nat
    BY <1>2, <1>3, <1>4
  <2>2. \A n \in 0 .. L : Depth(t, n) = Depth(s, n) /\ Depth(s, n) \in Int
    BY GrownPieces DEF t, L
  <2> QED
    BY <1>2, <1>3, <2>1, <2>2
<1>11. Depth(s, cut) = d - 1
  <2>1. cut = from \/ cut \in Cuts(s, from, cut)
    BY <1>4, <1>5, <1>10, LastCutIs
  <2> QED
    BY <1>5, <2>1 DEF Cuts
<1>12. LastCut(t, from, L + 1) = cut
  <2>1. LastCut(t, from, cut) = cut
    BY <1>4, <1>5, GrownPieces DEF t, L
  <2>2. cut = from \/ cut \in Cuts(t, from, cut)
    BY <1>4, <1>10, <2>1, LastCutIs
  <2>3. cut <= L + 1 /\ L + 1 \in Nat /\ from <= L + 1
    BY <1>2, <1>4, <1>10
  <2>4. cut \in {from} \cup Cuts(t, from, L + 1)
    <3>1. \A i \in from + 1 .. cut : i \in from + 1 .. L + 1
      BY <1>2, <1>10, <2>3
    <3> QED
      BY <2>2, <3>1 DEF Cuts
  <2>5. ASSUME NEW i \in Cuts(t, from, L + 1)
        PROVE  cut >= i
    <3>1. i \in from + 1 .. L + 1 /\ Mark(t, i, Commas) /\ Depth(t, i) = Depth(t, from)
      BY DEF Cuts
    <3>2. i # L + 1
      BY <1>7, <3>1
    <3>3. i \in 0 .. L /\ i \in Nat
      BY <1>2, <1>10, <3>1, <3>2
    <3>4. Depth(s, i) = d - 1
      BY <1>4, <1>5, <1>10, <3>1, <3>3
    <3>5. i \notin start .. L
      BY <1>2, <1>3, <3>4
    <3> QED
      BY <1>2, <1>3, <3>3, <3>5
  <2> HIDE DEF cut
  <2> QED
    BY <1>10, <2>3, <2>4, <2>5, LastCutIs
<1>13. Bracketed(t, cut, L + 1)
  <2>1. (L + 1) - cut > 1
    BY <1>2, <1>3, <1>10
  <2>2. ASSUME NEW n \in cut + 1 .. (L + 1) - 1
        PROVE  Depth(t, n) > Depth(t, cut)
    <3>1. n \in start .. L /\ n \in 0 .. L
      BY <1>2, <1>3
    <3> QED
      BY <1>2, <1>3, <1>4, <1>10, <1>11, <3>1
  <2>3. Depth(t, L + 1) = Depth(t, cut)
    BY <1>4, <1>8, <1>10, <1>11
  <2> QED
    BY <2>1, <2>2, <2>3 DEF Bracketed
<1>14. Field(t, Fields(t), cut, L + 1) = v2
  <2>1. Field(t, Fields(t), cut, L + 1) = List(Trimmed(Fields(t)[<<cut + 1, (L + 1) - 1>>]))
    BY <1>13 DEF Field
  <2>2. cut + 1 = start /\ (L + 1) - 1 = L /\ L \in 0 .. L
    BY <1>2, <1>3
  <2>3. Fields(t)[<<start, L>>] = Fields(s)[<<start, L>>]
    BY <1>3, <1>10, <2>2, GrownPieces DEF t, L
  <2>4. Fields(s)[<<start, L>>] = Append(inner, v)
    BY <1>6 DEF IsAllFrom, L
  <2>5. Last(Append(inner, v)) = v /\ Front(Append(inner, v)) = inner
    BY <1>6, AppendedLast
  <2>6. Trimmed(Append(inner, v)) = IF isSet(v) THEN Append(inner, v) ELSE inner
    BY <2>5 DEF Trimmed
  <2> QED
    BY <2>1, <2>2, <2>3, <2>4, <2>6
<1>15. Open(t, new, d - 1)
  <2>1. d - 1 \in 0 .. d /\ Depth(t, L + 1) >= d - 1
    BY <1>2, <1>8
  <2> QED
    BY <1>1, <1>2, <2>1, StillOpen DEF t, L
<1>16. Filled(t, new, lists2, args)
  <2>1. Filled(t, starts, lists, args)
    BY <1>1, <1>2, FilledGrows DEF t, d
  <2>2. ASSUME NEW i \in 1 .. d - 1
        PROVE  ListAt(lists2, args, i - 1) = Before(Fields(t), new[i - 1], new[i] - 1)
    <3>1. i - 1 \in 0 .. d - 1 /\ i \in 0 .. d - 1 /\ i \in 1 .. d
      BY <1>2
    <3>2. ListAt(lists2, args, i - 1) = ListAt(lists, args, i - 1)
      BY <3>1 DEF d
    <3>3. ListAt(lists, args, i - 1) = Before(Fields(t), starts[i - 1], starts[i] - 1)
      BY <2>1, <3>1 DEF Filled, d
    <3> QED
      BY <3>1, <3>2, <3>3
  <2> QED
    BY <2>2 DEF Filled, d
<1>17. Current(t, new[d - 1], ListAt(lists2, args, d - 1), v2)
  <2>1. d - 1 \in 0 .. d - 1
    BY <1>2
  <2>2. new[d - 1] = from /\ ListAt(lists2, args, d - 1) = ListAt(lists, args, d - 1)
    BY <2>1 DEF d, from
  <2> QED
    BY <1>2, <1>4, <1>9, <1>12, <1>14, <2>2 DEF Current
<1>18. new \in [0 .. d - 1 -> 0 .. Len(t)]
  BY <1>15 DEF Open
<1> QED
  BY <1>15, <1>16, <1>17, <1>18 DEF Reading, d, t, inner

-----------------------------------------------------------------------------
(* parse() reads the grammar. *)

\* The next character is a mark if it is one and is not quoted.
LEMMA NextMark ==
  ASSUME IInv, NEW c \in Chars, Take(c)
  PROVE  /\ line \in Seq(Chars) /\ line' = Append(line, c) /\ status = "reading"
         /\ Depth(line, Len(line)) = Len(openLists) /\ Len(openLists) \in Nat
         /\ \A marks : Mark(Append(line, c), Len(line) + 1, marks)
                         <=> c \in marks /\ ~inQuotedString
<1>1. line \in Seq(Chars) /\ line' = Append(line, c) /\ status = "reading"
  BY DEF IInv, Shape, Take
<1>2. /\ Depth(line, Len(line)) = Len(openLists) /\ inQuotedString = Quoted(line, Len(line) + 1)
  BY <1>1 DEF IInv, StackFollowsLine
<1>3. Len(openLists) \in Nat
  BY Appended DEF IInv, Shape
<1>4. PICK n \in Nat : n = Len(line)
  BY <1>1
<1>5. Append(line, c)[n + 1] = c
  BY <1>1, <1>4
<1>6. Quoted(Append(line, c), n + 1) = Quoted(line, n + 1)
  <2>1. n + 1 \in 1 .. n + 1
    BY <1>4
  <2> QED
    BY <1>1, <1>4, <2>1, QuotedGrows
<1> QED
  BY <1>1, <1>2, <1>3, <1>4, <1>5, <1>6 DEF Mark

\* Nothing has been read of an empty line.
LEMMA InitReadSoFar == Init => ReadSoFar /\ ReadsByGrammar
<1> SUFFICES ASSUME Init PROVE ReadSoFar /\ ReadsByGrammar
  OBVIOUS
<1> DEFINE s == <<>>
           starts == [i \in 0 .. 0 |-> 0]
<1>1. line = s /\ openLists = <<>> /\ m_args = <<>> /\ value = Text(<<>>) /\ status = "reading"
  BY DEF Init
<1>2. Len(s) = 0 /\ Depth(s, 0) = 0
  BY EmptyLine
<1> HIDE DEF s
<1>3. Open(s, starts, 0)
  BY <1>2 DEF Open
<1>4. Filled(s, starts, <<>>, <<>>)
  BY DEF Filled
<1>5. Current(s, 0, <<>>, Text(<<>>))
  <2>1. LastCut(s, 0, 0) = 0
    <3>1. LastCut(s, 0, 0) \in 0 .. 0
      BY LastCutIs
    <3> QED
      BY <3>1
  <2>2. ~Bracketed(s, 0, 0)
    BY DEF Bracketed
  <2>3. Unquoted(s, 0, 0) = <<>>
    BY <1>2, UnquotedIs
  <2> QED
    BY <1>2, <2>1, <2>2, <2>3 DEF Current, Before, Field
<1>6. Reading(s, <<>>, <<>>, Text(<<>>))
  <2>1. Len(<<>>) = 0 /\ starts \in [0 .. 0 -> 0 .. Len(s)] /\ starts[0] = 0
    BY <1>2
  <2>2. ListAt(<<>>, <<>>, 0) = <<>>
    BY DEF ListAt
  <2> HIDE DEF starts
  <2> QED
    BY <1>3, <1>4, <1>5, <2>1, <2>2 DEF Reading
<1> QED
  BY <1>1, <1>6 DEF ReadSoFar, ReadsByGrammar

\* A step that reads on keeps to the grammar if it does for what it reads.
LEMMA ReadsOn ==
  ASSUME status' = "reading", InGrammar(line') => Reading(line', openLists', m_args', value')
  PROVE  ReadSoFar' /\ ReadsByGrammar'
BY DEF ReadSoFar, ReadsByGrammar

\* Each step of parse() keeps to the grammar.
LEMMA NextReadSoFar == IInv /\ ReadSoFar /\ ReadsByGrammar /\ [Next]_vars
                         => ReadSoFar' /\ ReadsByGrammar'
<1> SUFFICES ASSUME IInv, ReadSoFar, ReadsByGrammar, [Next]_vars
             PROVE  ReadSoFar' /\ ReadsByGrammar'
  OBVIOUS
<1>0. ASSUME NEW c \in Chars, Take(c), InGrammar(line')
      PROVE  InGrammar(Append(line, c)) /\ Reading(line, openLists, m_args, value)
  <2>1. line \in Seq(Chars) /\ line' = Append(line, c) /\ status = "reading"
    BY <1>0, NextMark
  <2>2. InGrammar(Append(line, c)) /\ InGrammar(line)
    BY <1>0, <2>1, GrammarBefore
  <2> QED
    BY <2>1, <2>2 DEF ReadSoFar
<1>1. ASSUME NEW c \in Chars, ReadQuoted(c) PROVE ReadSoFar' /\ ReadsByGrammar'
  <2>1. /\ Take(c) /\ inQuotedString /\ UNCHANGED <<openLists, m_args, status>>
        /\ value' = IF c = Quote THEN value ELSE Added(value, c)
    BY <1>1 DEF ReadQuoted
  <2>2. /\ line \in Seq(Chars) /\ line' = Append(line, c) /\ status = "reading"
        /\ Len(openLists) \in Nat
        /\ \A marks \in {Commas, Openers, Closers} : ~Mark(Append(line, c), Len(line) + 1, marks)
    BY <2>1, NextMark
  <2>3. ASSUME InGrammar(line') PROVE Reading(line', openLists', m_args', value')
    <3>1. InGrammar(Append(line, c)) /\ Reading(line, openLists, m_args, value)
      BY <1>0, <2>1, <2>3
    <3>2. Reading(Append(line, c), openLists, m_args,
                  IF c = Quote THEN value ELSE Added(value, c))
      BY <2>2, <3>1, ReadsText
    <3> QED
      BY <2>1, <2>2, <3>2
  <2> QED
    BY <2>1, <2>2, <2>3, ReadsOn
<1>2. ASSUME ReadComma PROVE ReadSoFar' /\ ReadsByGrammar'
  <2> DEFINE c == ","
  <2>1. /\ ~inQuotedString /\ Take(c) /\ Commit(value) /\ value' = Text(<<>>)
        /\ UNCHANGED <<inQuotedString, status>>
    BY <1>2 DEF ReadComma
  <2>2. c \in Chars /\ c \in Commas
    BY DEF Chars, Marks, Commas
  <2> HIDE DEF c
  <2>3. /\ line \in Seq(Chars) /\ line' = Append(line, c) /\ status = "reading"
        /\ Depth(line, Len(line)) = Len(openLists) /\ Len(openLists) \in Nat
        /\ Mark(Append(line, c), Len(line) + 1, Commas)
    BY <2>1, <2>2, NextMark
  <2>4. /\ Len(openLists') = Len(openLists)
        /\ \A i \in 0 .. Len(openLists) :
             ListAt(openLists', m_args', i) =
               IF i = Len(openLists) THEN Append(ListAt(openLists, m_args, i), value)
               ELSE ListAt(openLists, m_args, i)
    <3>0. PICK S : openLists \in Seq(S)
      BY DEF IInv, Shape, IsSequence
    <3>1. CASE openLists = <<>>
      <4>1. m_args' = Append(m_args, value) /\ openLists' = openLists /\ Len(openLists) = 0
        BY <2>1, <3>1 DEF Commit
      <4> QED
        BY <4>1 DEF ListAt
    <3>2. CASE openLists # <<>>
      <4>1. PICK n \in Nat : n = Len(openLists) /\ n # 0
        BY <3>0, <3>2
      <4>2. /\ openLists' = [openLists EXCEPT ![n] = Append(openLists[n], value)]
            /\ m_args' = m_args
        BY <2>1, <3>2, <4>1 DEF Commit
      <4> DEFINE x == Append(openLists[n], value)
      <4>3. openLists \in Seq(S \cup {x}) /\ n \in 1 .. n
        BY <3>0, <4>1
      <4>4. openLists' = [openLists EXCEPT ![n] = x]
        BY <4>2
      <4>5. x = Append(openLists[n], value)
        OBVIOUS
      <4> HIDE DEF x
      <4>6. /\ Len(openLists') = n /\ openLists'[n] = x
            /\ \A i \in 1 .. n : i # n => openLists'[i] = openLists[i]
        BY <4>1, <4>3, <4>4
      <4>7. ASSUME NEW i \in 0 .. n
            PROVE  ListAt(openLists', m_args', i) =
                     IF i = n THEN Append(ListAt(openLists, m_args, i), value)
                     ELSE ListAt(openLists, m_args, i)
        <5>1. i = 0 \/ i \in 1 .. n
          BY <4>1
        <5>2. CASE i = n
          BY <4>1, <4>5, <4>6, <5>2 DEF ListAt
        <5>3. CASE i # n
          BY <4>1, <4>2, <4>6, <5>1, <5>3 DEF ListAt
        <5> QED
          BY <5>2, <5>3
      <4> QED
        BY <4>1, <4>6, <4>7
    <3> QED
      BY <3>1, <3>2
  <2>5. ASSUME InGrammar(line') PROVE Reading(line', openLists', m_args', value')
    <3>1. Reading(line, openLists, m_args, value)
      BY <1>0, <2>1, <2>2, <2>5
    <3>2. Reading(Append(line, c), openLists', m_args', Text(<<>>))
      BY <2>2, <2>3, <2>4, <3>1, ReadsComma
    <3> QED
      BY <2>1, <2>3, <3>2
  <2> QED
    BY <2>1, <2>3, <2>5, ReadsOn
<1>3. ASSUME ReadQuote PROVE ReadSoFar' /\ ReadsByGrammar'
  <2>1. /\ ~inQuotedString /\ Take(Quote) /\ UNCHANGED <<openLists, value, m_args, status>>
    BY <1>3 DEF ReadQuote
  <2>2. Quote \in Chars
    BY DEF Chars, Marks
  <2>3. /\ line \in Seq(Chars) /\ line' = Append(line, Quote) /\ status = "reading"
        /\ Len(openLists) \in Nat
        /\ \A marks \in {Commas, Openers, Closers} :
             ~Mark(Append(line, Quote), Len(line) + 1, marks)
    BY <2>1, <2>2, NextMark, MarksDiffer
  <2>4. ASSUME InGrammar(line') PROVE Reading(line', openLists', m_args', value')
    <3>1. InGrammar(Append(line, Quote)) /\ Reading(line, openLists, m_args, value)
      BY <1>0, <2>1, <2>2, <2>4
    <3>2. Reading(Append(line, Quote), openLists, m_args,
                  IF Quote = Quote THEN value ELSE Added(value, Quote))
      BY <2>2, <2>3, <3>1, ReadsText
    <3> QED
      BY <2>1, <2>3, <3>2
  <2> QED
    BY <2>1, <2>3, <2>4, ReadsOn
<1>4. ASSUME ReadOpener PROVE ReadSoFar' /\ ReadsByGrammar'
  <2>1. PICK c \in Openers : Take(c)
    BY <1>4 DEF ReadOpener
  <2>2. /\ ~inQuotedString /\ openLists' = Append(openLists, <<>>)
        /\ UNCHANGED <<inQuotedString, value, m_args, status>>
    BY <1>4 DEF ReadOpener
  <2>3. c \in Chars
    BY DEF Chars, Marks
  <2>4. /\ line \in Seq(Chars) /\ line' = Append(line, c) /\ status = "reading"
        /\ Depth(line, Len(line)) = Len(openLists) /\ Len(openLists) \in Nat
        /\ Mark(Append(line, c), Len(line) + 1, Openers)
    BY <2>1, <2>2, <2>3, NextMark
  <2>5. /\ Len(openLists') = Len(openLists) + 1
        /\ \A i \in 0 .. Len(openLists) :
             ListAt(openLists', m_args, i) = ListAt(openLists, m_args, i)
        /\ ListAt(openLists', m_args, Len(openLists) + 1) = <<>>
    <3>1. PICK S : openLists \in Seq(S)
      BY DEF IInv, Shape, IsSequence
    <3>2. openLists \in Seq(S \cup {<<>>}) /\ <<>> \in S \cup {<<>>}
      BY <3>1
    <3>3. PICK n \in Nat : n = Len(openLists)
      BY <2>4
    <3>4. /\ Len(openLists') = n + 1 /\ openLists'[n + 1] = <<>>
          /\ \A i \in 1 .. n : openLists'[i] = openLists[i]
      BY <2>2, <3>2, <3>3
    <3>5. \A i \in 0 .. n : i = 0 \/ i \in 1 .. n
      OBVIOUS
    <3> QED
      BY <3>3, <3>4, <3>5 DEF ListAt
  <2>6. ASSUME InGrammar(line') PROVE Reading(line', openLists', m_args', value')
    <3>1. InGrammar(Append(line, c)) /\ Reading(line, openLists, m_args, value)
      BY <1>0, <2>1, <2>3, <2>6
    <3>2. Reading(Append(line, c), openLists', m_args, value)
      BY <2>3, <2>4, <2>5, <3>1, ReadsOpener
    <3> QED
      BY <2>2, <2>4, <3>2
  <2> QED
    BY <2>2, <2>4, <2>6, ReadsOn
<1>5. ASSUME ReadCloser PROVE ReadSoFar' /\ ReadsByGrammar'
  <2>1. PICK c \in Closers : Take(c)
    BY <1>5 DEF ReadCloser
  <2>2. ~inQuotedString /\ UNCHANGED <<inQuotedString, m_args>> /\ c \in Chars
    BY <1>5 DEF ReadCloser, Chars, Marks
  <2>3. /\ line \in Seq(Chars) /\ line' = Append(line, c) /\ status = "reading"
        /\ Depth(line, Len(line)) = Len(openLists) /\ Len(openLists) \in Nat
        /\ Mark(Append(line, c), Len(line) + 1, Closers)
    BY <2>1, <2>2, NextMark
  <2>4. CASE openLists = <<>>
    BY <1>5, <2>4 DEF ReadCloser, ReadSoFar, ReadsByGrammar
  <2>5. CASE openLists # <<>>
    <3>1. PICK S : openLists \in Seq(S)
      BY DEF IInv, Shape, IsSequence
    <3>2. PICK n \in Nat : n = Len(openLists) - 1
      BY <2>5, <3>1
    <3>3. /\ value' = List(IF isSet(value) THEN Append(openLists[n + 1], value)
                                           ELSE openLists[n + 1])
          /\ openLists' = SubSeq(openLists, 1, n) /\ status' = "reading"
          /\ n + 1 = Len(openLists) /\ Len(openLists) \in Nat \ {0}
      BY <1>5, <2>3, <2>5, <3>2 DEF ReadCloser, Last, Front
    <3>4. Len(openLists') = n /\ \A i \in 1 .. n : openLists'[i] = openLists[i]
      BY <3>1, <3>2, <3>3
    <3>5. \A i \in 0 .. n : i = 0 \/ i \in 1 .. n
      OBVIOUS
    <3>6. /\ Len(openLists') = Len(openLists) - 1
          /\ \A i \in 0 .. Len(openLists) - 1 :
               ListAt(openLists', m_args, i) = ListAt(openLists, m_args, i)
          /\ ListAt(openLists, m_args, Len(openLists)) = openLists[n + 1]
      BY <3>2, <3>3, <3>4, <3>5 DEF ListAt
    <3>7. ASSUME InGrammar(line') PROVE Reading(line', openLists', m_args', value')
      <4>1. Reading(line, openLists, m_args, value)
        BY <1>0, <2>1, <2>2, <3>7
      <4>2. Reading(Append(line, c), openLists', m_args,
                    List(IF isSet(value)
                         THEN Append(ListAt(openLists, m_args, Len(openLists)), value)
                         ELSE ListAt(openLists, m_args, Len(openLists))))
        BY <2>2, <2>3, <3>3, <3>6, <4>1, ReadsCloser
      <4> QED
        BY <2>2, <2>3, <3>3, <3>6, <4>2
    <3> QED
      BY <3>3, <3>7, ReadsOn
  <2> QED
    BY <2>4, <2>5
<1>6. ASSUME ReadText PROVE ReadSoFar' /\ ReadsByGrammar'
  <2>1. PICK c \in Letters : Take(c) /\ value' = Added(value, c)
    BY <1>6 DEF ReadText
  <2>2. ~inQuotedString /\ UNCHANGED <<openLists, inQuotedString, m_args, status>>
    BY <1>6 DEF ReadText
  <2>3. c \in Chars /\ c # Quote /\ c \notin Openers /\ c \notin Closers /\ c \notin Commas
    BY LettersAssumption DEF Chars, Marks, Commas
  <2>4. /\ line \in Seq(Chars) /\ line' = Append(line, c) /\ status = "reading"
        /\ Len(openLists) \in Nat
        /\ \A marks \in {Commas, Openers, Closers} : ~Mark(Append(line, c), Len(line) + 1, marks)
    BY <2>1, <2>3, NextMark
  <2>5. ASSUME InGrammar(line') PROVE Reading(line', openLists', m_args', value')
    <3>1. InGrammar(Append(line, c)) /\ Reading(line, openLists, m_args, value)
      BY <1>0, <2>1, <2>3, <2>5
    <3>2. Reading(Append(line, c), openLists, m_args,
                  IF c = Quote THEN value ELSE Added(value, c))
      BY <2>3, <2>4, <3>1, ReadsText
    <3> QED
      BY <2>1, <2>2, <2>3, <2>4, <3>2
  <2> QED
    BY <2>2, <2>4, <2>5, ReadsOn
<1>7. ASSUME EndOfLine PROVE ReadSoFar' /\ ReadsByGrammar'
  <2>1. /\ status = "reading" /\ line' = line /\ status' # "reading"
        /\ status' = "valid" => openLists = <<>>
    BY <1>7 DEF EndOfLine
  <2>2. ASSUME status' = "valid", InGrammar(line)
        PROVE  m_args' = Items(line)
    <3>1. openLists = <<>> /\ Len(openLists) = 0 /\ line \in Seq(Chars)
      BY <2>1, <2>2 DEF IInv, Shape
    <3>2. Reading(line, openLists, m_args, value)
      BY <2>1, <2>2 DEF ReadSoFar
    <3>3. PICK starts : /\ Open(line, starts, 0)
                        /\ Current(line, starts[0], ListAt(openLists, m_args, 0), value)
      BY <3>1, <3>2 DEF Reading
    <3>4. starts[0] = 0 /\ ListAt(openLists, m_args, 0) = m_args
      BY <3>3 DEF Open, ListAt
    <3>5. IsAllFrom(line, starts[0], m_args, value) /\ IsSequence(m_args)
      BY <3>1, <3>3, <3>4, InnermostIs
    <3>6. Fields(line)[<<0, Len(line)>>] = Append(m_args, value)
      BY <3>4, <3>5 DEF IsAllFrom
    <3>7. Items(line) = IF isSet(value) THEN Append(m_args, value) ELSE m_args
      <4>1. Last(Append(m_args, value)) = value /\ Front(Append(m_args, value)) = m_args
        BY <3>5, AppendedLast
      <4> QED
        BY <3>6, <4>1 DEF Items, Trimmed
    <3> QED
      BY <1>7, <3>1, <3>7 DEF EndOfLine, Commit
  <2> QED
    BY <2>1, <2>2 DEF ReadSoFar, ReadsByGrammar
<1>8. ASSUME NoSeparator PROVE ReadSoFar' /\ ReadsByGrammar'
  BY <1>8 DEF NoSeparator, ReadSoFar, ReadsByGrammar
<1>9. ASSUME UNCHANGED vars PROVE ReadSoFar' /\ ReadsByGrammar'
  BY <1>9 DEF vars, ReadSoFar, ReadsByGrammar
<1> QED
  BY <1>1, <1>2, <1>3, <1>4, <1>5, <1>6, <1>7, <1>8, <1>9 DEF Next

\* The parser is in step with the grammar at every point of every line.
InStep == IInv /\ ReadSoFar /\ ReadsByGrammar

\* It starts in step and each of its steps keeps it so.
LEMMA StaysInStep == Spec => []InStep
<1>1. Init => InStep
  BY InitIInv, InitReadSoFar DEF InStep
<1>2. InStep /\ [Next]_vars => InStep'
  BY NextIInv, NextReadSoFar DEF InStep
<1> QED
  BY <1>1, <1>2, PTL DEF Spec

\* A line of the grammar is read as it says, however long it is and whatever is
\* nested in it, quoted or empty: a stack and one pass read the recursive grammar.
THEOREM ParserReadsGrammar == Spec => []ReadsByGrammar
<1>1. InStep => ReadsByGrammar
  BY DEF InStep
<1> QED
  BY <1>1, StaysInStep, PTL

-----------------------------------------------------------------------------
(* A line that was cut short. *)

\* One list begins with another if they agree as far as the other goes.
LEMMA Begins ==
  ASSUME NEW l, NEW m, IsSequence(l), IsSequence(m),
         Len(l) <= Len(m), \A i \in 1 .. Len(l) : l[i] = m[i]
  PROVE  IsPrefix(l, m)
<1>1. PICK S : l \in Seq(S) /\ m \in Seq(S)
  <2>1. PICK A, B : l \in Seq(A) /\ m \in Seq(B)
    BY DEF IsSequence
  <2>2. l \in Seq(A \cup B) /\ m \in Seq(A \cup B)
    BY <2>1
  <2> QED
    BY <2>2
<1>2. PICK n \in Nat : n = Len(l) /\ n <= Len(m) /\ Len(m) \in Nat
  BY <1>1
<1>3. /\ SubSeq(l, 1, n) \in Seq(S) /\ SubSeq(m, 1, n) \in Seq(S)
      /\ Len(SubSeq(l, 1, n)) = n /\ Len(SubSeq(m, 1, n)) = n
      /\ \A i \in 1 .. n : SubSeq(l, 1, n)[i] = l[i] /\ SubSeq(m, 1, n)[i] = m[i]
  BY <1>1, <1>2
<1>4. SubSeq(l, 1, n) = SubSeq(m, 1, n)
  BY <1>2, <1>3, SeqEqual
<1> QED
  BY <1>2, <1>4 DEF IsPrefix

\* How lists begin, item by item.
StartsWith(m, l) == Len(l) <= Len(m) /\ \A i \in 1 .. Len(l) : l[i] = m[i]

\* A list that grows begins as it did.
LEMMA StartsWithAppend ==
  ASSUME NEW l, NEW m, IsSequence(l), IsSequence(m), StartsWith(m, l), NEW v
  PROVE  StartsWith(Append(m, v), l) /\ IsSequence(Append(m, v))
<1>1. PICK S : m \in Seq(S)
  BY DEF IsSequence
<1>2. m \in Seq(S \cup {v}) /\ v \in S \cup {v}
  BY <1>1
<1>3. PICK k \in Nat : k = Len(m)
  BY <1>1
<1>4. Len(Append(m, v)) = k + 1 /\ \A i \in 1 .. k : Append(m, v)[i] = m[i]
  BY <1>2, <1>3
<1>5. PICK n \in Nat : n = Len(l)
  BY DEF IsSequence
<1>6. n <= k /\ \A i \in 1 .. n : l[i] = m[i] /\ i \in 1 .. k
  BY <1>3, <1>5 DEF StartsWith
<1> QED
  BY <1>3, <1>4, <1>5, <1>6, Appended DEF StartsWith

\* What a list begins with may end earlier.
LEMMA StartsWithFront ==
  ASSUME NEW l, NEW m, IsSequence(l), IsSequence(m), StartsWith(m, l), l # <<>>
  PROVE  StartsWith(m, Front(l)) /\ IsSequence(Front(l))
<1>1. PICK S : l \in Seq(S)
  BY DEF IsSequence
<1>2. PICK n \in Nat : n = Len(l) - 1
  BY <1>1
<1>3. Front(l) = SubSeq(l, 1, n)
  BY <1>2 DEF Front
<1>4. Len(Front(l)) = n /\ \A i \in 1 .. n : Front(l)[i] = l[i]
  BY <1>1, <1>2, <1>3
<1>5. n <= Len(l) /\ Len(l) \in Nat /\ \A i \in 1 .. n : i \in 1 .. Len(l)
  BY <1>1, <1>2
<1>6. Len(m) \in Nat
  BY DEF IsSequence
<1>7. StartsWith(m, Front(l))
  BY <1>4, <1>5, <1>6 DEF StartsWith
<1> QED
  BY <1>7, Closed

\* The fields before the last cut are those before any earlier cut, and more.
LEMMA LaterCut ==
  ASSUME NEW s \in Seq(Chars), NEW m \in 0 .. Len(s),
         NEW c \in {0} \cup Cuts(s, 0, m)
  PROVE  /\ IsSequence(Before(Fields(s), 0, c))
         /\ IsSequence(Before(Fields(s), 0, LastCut(s, 0, m)))
         /\ StartsWith(Before(Fields(s), 0, LastCut(s, 0, m)), Before(Fields(s), 0, c))
<1> DEFINE L == Len(s)
           P(i) == Before(Fields(s), 0, i)
           C(k) == {0} \cup Cuts(s, 0, k)
           T == {k \in 0 .. L : \A i \in C(k) : StartsWith(P(LastCut(s, 0, k)), P(i))}
<1>1. L \in Nat
  OBVIOUS
<1>2. ASSUME NEW i \in 0 .. L PROVE IsSequence(P(i))
  <2>1. CASE i = 0
    <3>1. <<>> \in Seq({})
      OBVIOUS
    <3> QED
      BY <2>1, <3>1 DEF Before, IsSequence
  <2>2. CASE i # 0
    <3>1. i - 1 \in 0 .. L /\ 0 \in 0 .. L /\ 0 <= i - 1
      BY <1>1, <2>2
    <3>2. IsSequence(Fields(s)[<<0, i - 1>>])
      BY <1>1, <3>1, FieldsSequence
    <3> QED
      BY <2>2, <3>2 DEF Before
  <2> QED
    BY <2>1, <2>2
<1>3. ASSUME NEW k \in 0 .. L PROVE LastCut(s, 0, k) \in 0 .. k /\ C(k) \subseteq 0 .. L
  <2>1. k \in Nat /\ 0 <= k
    OBVIOUS
  <2>2. LastCut(s, 0, k) \in 0 .. k
    BY <2>1, LastCutIs
  <2>3. Cuts(s, 0, k) \subseteq 0 .. L
    <3>1. \A i \in 0 + 1 .. k : i \in 0 .. L
      BY <1>1
    <3> QED
      BY <3>1 DEF Cuts
  <2> QED
    BY <1>1, <2>2, <2>3
<1> HIDE DEF L
<1>4. 0 \in T
  <2>1. LastCut(s, 0, 0) = 0
    BY <1>1, <1>3
  <2>2. C(0) = {0}
    <3>1. 0 + 1 .. 0 = {}
      OBVIOUS
    <3> QED
      BY <3>1 DEF Cuts
  <2>3. StartsWith(P(0), P(0))
    BY DEF Before, StartsWith
  <2> HIDE DEF P, C
  <2> QED
    BY <1>1, <2>1, <2>2, <2>3
<1>5. ASSUME NEW k \in 1 .. L, k - 1 \in T
      PROVE  k \in T
  <2>1. k \in Nat /\ k \in 0 .. L /\ k - 1 \in 0 .. L /\ k - 1 \in Nat /\ 0 <= k - 1 /\ 0 <= k
        /\ k # 0 /\ (k - 1) + 1 = k
    BY <1>1
  <2>2. CASE k \in Cuts(s, 0, k)
    <3>1. LastCut(s, 0, k) = k
      BY <2>1, <2>2, CommaCuts DEF Cuts
    <3>2. P(k) = Fields(s)[<<0, k - 1>>]
      BY <2>1 DEF Before
    <3> DEFINE cut == LastCut(s, 0, k - 1)
    <3>3. Fields(s)[<<0, k - 1>>] = Append(P(cut), Field(s, Fields(s), cut, k - 1))
      BY <1>1, <2>1, FieldsAre DEF L
    <3>4. cut \in 0 .. L
      BY <1>1, <1>3, <2>1
    <3>5. ASSUME NEW i \in C(k)
          PROVE  StartsWith(P(k), P(i))
      <4>1. CASE i = k
        <5>1. Len(P(k)) \in Nat
          <6>1. IsSequence(P(k))
            BY <1>2, <2>1
          <6> QED
            BY <6>1 DEF IsSequence
        <5> QED
          BY <4>1, <5>1 DEF StartsWith
      <4>2. CASE i # k
        <5>1. i \in C(k - 1)
          <6>1. \A j \in 0 + 1 .. k : j # k => j \in 0 + 1 .. k - 1
            BY <2>1
          <6> QED
            BY <4>2, <6>1 DEF Cuts
        <5>2. StartsWith(P(cut), P(i))
          BY <1>5, <5>1
        <5>3. IsSequence(P(i)) /\ IsSequence(P(cut))
          BY <1>2, <1>3, <2>1, <3>4, <5>1
        <5> HIDE DEF P, cut
        <5> QED
          BY <3>2, <3>3, <5>2, <5>3, StartsWithAppend
      <4> QED
        BY <4>1, <4>2
    <3> HIDE DEF P, C
    <3> QED
      BY <2>1, <3>1, <3>5
  <2>3. CASE k \notin Cuts(s, 0, k)
    <3>1. Cuts(s, 0, k) = Cuts(s, 0, k - 1)
      <4>1. 0 + 1 .. k = (0 + 1 .. k - 1) \cup {k}
        BY <2>1
      <4>2. k \in 0 + 1 .. k
        BY <2>1
      <4> QED
        BY <2>3, <4>1, <4>2 DEF Cuts
    <3>2. LastCut(s, 0, k) = LastCut(s, 0, k - 1)
      BY <3>1 DEF LastCut
    <3> QED
      BY <1>5, <2>1, <3>1, <3>2
  <2> QED
    BY <2>2, <2>3
<1>6. 0 .. L \subseteq T
  <2> HIDE DEF T
  <2> QED
    BY <1>1, <1>4, <1>5, Induction
<1>7. m \in 0 .. L /\ c \in C(m)
  BY DEF L
<1>8. StartsWith(P(LastCut(s, 0, m)), P(c))
  BY <1>6, <1>7
<1>9. c \in 0 .. L /\ LastCut(s, 0, m) \in 0 .. L
  BY <1>1, <1>3, <1>7
<1> QED
  BY <1>2, <1>8, <1>9

\* What is unquoted of a piece begins what is unquoted of a longer one.
LEMMA LongerText ==
  ASSUME NEW s \in Seq(Chars), NEW c \in Nat, NEW n \in 0 .. Len(s), NEW t \in n .. Len(s)
  PROVE  /\ IsPrefix(Unquoted(s, c, n), Unquoted(s, c, t))
         /\ Unquoted(s, c, n) # <<>> => Unquoted(s, c, t) # <<>>
<1> DEFINE U(k) == Unquoted(s, c, k)
           L == Len(s)
           Longer(k) == IsSequence(U(n)) /\ StartsWith(U(k), U(n))
           T == {k \in 0 .. L : IsSequence(U(k)) /\ (n <= k => Longer(k))}
<1>1. L \in Nat /\ n \in Nat /\ n \in 0 .. L /\ t \in 0 .. L /\ n <= t
  OBVIOUS
<1>2. ASSUME NEW k \in 0 .. L
      PROVE  U(k) = IF k <= c THEN <<>>
                    ELSE IF s[k] = Quote THEN U(k - 1) ELSE Append(U(k - 1), s[k])
  BY <1>1, UnquotedIs
<1>3. IsSequence(<<>>) /\ Len(<<>>) = 0
  <2>1. <<>> \in Seq({}) /\ Len(<<>>) = 0
    OBVIOUS
  <2> QED
    BY <2>1 DEF IsSequence
<1>4. ASSUME NEW l, IsSequence(l) PROVE StartsWith(l, l)
  <2>1. Len(l) \in Nat
    BY <1>4 DEF IsSequence
  <2> QED
    BY <2>1 DEF StartsWith
<1> HIDE DEF U, L
<1>5. ASSUME NEW k \in 0 .. L, k <= c PROVE k \in T
  <2>1. U(k) = <<>>
    BY <1>2, <1>5
  <2>2. n <= k => U(n) = <<>>
    <3>1. n <= k => n <= c
      BY <1>1, <1>5
    <3> QED
      BY <1>1, <1>2, <3>1
  <2> QED
    BY <1>3, <1>4, <2>1, <2>2
<1>6. 0 \in T
  BY <1>1, <1>5
<1>7. ASSUME NEW k \in 1 .. L, k - 1 \in T PROVE k \in T
  <2>1. k \in 0 .. L /\ k - 1 \in 0 .. L /\ (n <= k => n = k \/ n <= k - 1)
    BY <1>1
  <2>2. CASE k <= c
    BY <1>5, <2>1, <2>2
  <2>3. CASE ~(k <= c)
    <3>1. U(k) = U(k - 1) \/ U(k) = Append(U(k - 1), s[k])
      BY <1>2, <2>1, <2>3
    <3>2. IsSequence(U(k - 1)) /\ (n <= k - 1 => Longer(k - 1))
      BY <1>7
    <3>3. IsSequence(U(k))
      BY <3>1, <3>2, Appended
    <3>4. n = k => Longer(k)
      BY <1>4, <3>3
    <3>5. n <= k - 1 => Longer(k)
      BY <3>1, <3>2, StartsWithAppend
    <3> QED
      BY <2>1, <3>3, <3>4, <3>5
  <2> QED
    BY <2>2, <2>3
<1>8. 0 .. L \subseteq T
  <2> HIDE DEF T
  <2> QED
    BY <1>1, <1>6, <1>7, Induction
<1>9. IsSequence(U(t)) /\ IsSequence(U(n)) /\ StartsWith(U(t), U(n))
  <2>1. t \in T
    BY <1>1, <1>8
  <2> QED
    BY <1>1, <2>1
<1>10. IsPrefix(U(n), U(t))
  BY <1>9, Begins DEF StartsWith
<1>11. U(n) # <<>> => U(t) # <<>>
  <2>1. U(n) # <<>> => Len(U(n)) \in Nat \ {0}
    BY <1>9, Closed
  <2> QED
    BY <1>3, <1>9, <2>1 DEF StartsWith
<1> QED
  BY <1>10, <1>11 DEF U

\* The piece a line was cut in ends at the next cut of the whole, if there is one.
LEMMA NextCut ==
  ASSUME NEW s \in Seq(Chars), NEW n \in 0 .. Len(s)
  PROVE  \E t \in n .. Len(s) :
           /\ Cuts(s, 0, t) = Cuts(s, 0, n)
           /\ t = Len(s) \/ t + 1 \in Cuts(s, 0, Len(s))
<1> DEFINE L == Len(s)
           Uncut(k) == Cuts(s, 0, k) = Cuts(s, 0, n)
           Found(k) == \E t \in n .. L : Uncut(t) /\ t + 1 \in Cuts(s, 0, k)
           T == {k \in 0 .. L : n <= k => Uncut(k) \/ Found(k)}
<1>1. L \in Nat /\ n \in Nat /\ n \in 0 .. L
  OBVIOUS
<1> HIDE DEF L
<1>2. 0 \in T
  <2>1. n <= 0 => n = 0
    BY <1>1
  <2> QED
    BY <1>1, <2>1
<1>3. ASSUME NEW k \in 1 .. L, k - 1 \in T PROVE k \in T
  <2>1. /\ k \in 0 .. L /\ k - 1 \in 0 .. L /\ (k - 1) + 1 = k
        /\ (n <= k => n = k \/ (n <= k - 1 /\ k - 1 \in n .. L))
    BY <1>1
  <2>2. n <= k - 1 => Uncut(k - 1) \/ Found(k - 1)
    BY <1>3
  <2>3. 0 + 1 .. k = (0 + 1 .. k - 1) \cup {k}
    BY <2>1
  <2>4. Cuts(s, 0, k - 1) \subseteq Cuts(s, 0, k)
    BY <2>3 DEF Cuts
  <2>5. k \in Cuts(s, 0, k) \/ Cuts(s, 0, k) = Cuts(s, 0, k - 1)
    BY <2>3 DEF Cuts
  <2>6. n <= k - 1 => Uncut(k) \/ Found(k)
    <3>1. Found(k - 1) => Found(k)
      BY <2>4
    <3>2. Uncut(k - 1) /\ k \in Cuts(s, 0, k) /\ n <= k - 1 => Found(k)
      BY <2>1
    <3> QED
      BY <2>2, <2>5, <3>1, <3>2
  <2> QED
    BY <2>1, <2>6
<1>4. 0 .. L \subseteq T
  <2> HIDE DEF T
  <2> QED
    BY <1>1, <1>2, <1>3, Induction
<1>5. Uncut(L) \/ Found(L)
  <2>1. L \in T /\ n <= L
    BY <1>1, <1>4
  <2> QED
    BY <2>1
<1>6. L \in n .. L
  BY <1>1
<1> QED
  BY <1>5, <1>6 DEF L

\* Before a line no bracket is open.
LEMMA DepthNowhere == \A s : Depth(s, 0) = 0
<1> TAKE s
<1>1. SameTo(<<>>, s, 0)
  BY DEF SameTo
<1>2. Depth(<<>>, 0) = Depth(s, 0)
  BY <1>1, SameMarks
<1> QED
  BY <1>2, EmptyLine

\* A field that goes on in the whole is a list that had ended, or text.
LEMMA FieldGoesOn ==
  ASSUME NEW s \in Seq(Chars), InGrammar(s), Balanced(s),
         NEW n \in 0 .. Len(s), NEW t \in n .. Len(s), Depth(s, n) = 0,
         Cuts(s, 0, t) = Cuts(s, 0, n),
         NEW c \in 0 .. n, Depth(s, c) = 0,
         isSet(Field(s, Fields(s), c, n))
  PROVE  /\ CutDown(Field(s, Fields(s), c, n), Field(s, Fields(s), c, t))
         /\ isSet(Field(s, Fields(s), c, t))
<1> DEFINE L == Len(s)
<1>1. L \in Nat /\ n \in Nat /\ t \in Nat /\ c \in Nat /\ n <= t /\ t <= L /\ c <= n
  OBVIOUS
<1>2. CASE n = t
  BY <1>2 DEF CutDown
<1>3. CASE n # t
  <2>1. PICK k \in Nat : k = n + 1 /\ k \in 1 .. L /\ k <= t /\ n = k - 1
    BY <1>1, <1>3
  <2>2. ~Bracketed(s, c, n)
    <3> SUFFICES ASSUME Bracketed(s, c, n) PROVE FALSE
      OBVIOUS
    <3>1. PICK b \in Nat : b = n - 1 /\ n = b + 1 /\ b \in c + 1 .. n - 1 /\ n \in 1 .. L
      BY <1>1 DEF Bracketed
    <3>2. Depth(s, b) > 0
      BY <3>1 DEF Bracketed
    <3>3. Mark(s, n, Closers)
      <4>1. /\ Depth(s, b) \in Int
            /\ Depth(s, b + 1) = Depth(s, b) + (IF Mark(s, b + 1, Openers) THEN 1
                                                ELSE IF Mark(s, b + 1, Closers) THEN -1 ELSE 0)
        BY <3>1, DepthAt
      <4>2. b + 1 = n
        BY <3>1
      <4> QED
        BY <3>2, <4>1, <4>2
    <3>4. n # L
      BY <1>1, <1>3
    <3>5. Mark(s, k, Commas) \/ Mark(s, k, Closers)
      BY <2>1, <3>1, <3>3, <3>4 DEF InGrammar, Mark
    <3>6. CASE Mark(s, k, Closers)
      <4>1. ~Mark(s, k, Openers)
        BY <3>6, MarksDiffer DEF Mark
      <4>2. Depth(s, k) = -1
        BY <1>1, <2>1, <3>6, <4>1, DepthAt
      <4>3. Depth(s, k) >= 0
        BY <2>1 DEF Balanced
      <4> QED
        BY <4>2, <4>3
    <3>7. CASE Mark(s, k, Commas)
      <4>1. ~Mark(s, k, Openers) /\ ~Mark(s, k, Closers)
        BY <3>7, MarksDiffer DEF Mark
      <4>2. Depth(s, k) = 0
        BY <1>1, <2>1, <4>1, DepthAt
      <4>3. Depth(s, 0) = 0
        BY DepthNowhere
      <4>4. k \in 0 + 1 .. t /\ k \notin 0 + 1 .. n
        BY <1>1, <2>1
      <4>5. k \in Cuts(s, 0, t)
        BY <3>7, <4>2, <4>3, <4>4 DEF Cuts
      <4>6. k \notin Cuts(s, 0, n)
        BY <4>4 DEF Cuts
      <4> QED
        BY <4>5, <4>6
    <3> QED
      BY <3>5, <3>6, <3>7
  <2>3. Field(s, Fields(s), c, n) = Text(Unquoted(s, c, n))
    BY <2>2 DEF Field
  <2>4. Unquoted(s, c, n) # <<>>
    BY <2>3 DEF isSet, Text
  <2>5. c # n
    BY <1>1, <2>4, UnquotedIs
  <2>6. ~Bracketed(s, c, t)
    <3>1. n \in c + 1 .. t - 1
      BY <1>1, <1>3, <2>5
    <3> QED
      BY <3>1 DEF Bracketed
  <2>7. Field(s, Fields(s), c, t) = Text(Unquoted(s, c, t))
    BY <2>6 DEF Field
  <2>8. IsPrefix(Unquoted(s, c, n), Unquoted(s, c, t)) /\ Unquoted(s, c, t) # <<>>
    BY <1>1, <2>4, LongerText
  <2> QED
    BY <2>3, <2>7, <2>8 DEF CutDown, isSet, Text
<1> QED
  BY <1>2, <1>3

\* What is read of a line cut short is in the whole, but for the last item.
LEMMA CutItems ==
  ASSUME NEW s \in Seq(Chars), InGrammar(s), Balanced(s),
         NEW n \in 1 .. Len(s), Balanced(SubSeq(s, 1, n)),
         NEW said, said = Items(SubSeq(s, 1, n)), Len(said) > 0
  PROVE  /\ Len(said) <= Len(Items(s))
         /\ IsPrefix(Front(said), Items(s))
         /\ CutDown(said[Len(said)], Items(s)[Len(said)])
<1> DEFINE cut == SubSeq(s, 1, n)
           L == Len(s)
           c == LastCut(s, 0, n)
           e == LastCut(s, 0, L)
           P(i) == Before(Fields(s), 0, i)
           F == Field(s, Fields(s), c, n)
<1>1. n \in Nat /\ n \in 0 .. L /\ L \in Nat /\ n <= L /\ 0 \in 0 .. n /\ 0 \in 0 .. L /\ L \in 0 .. L
  OBVIOUS
<1>2. Len(cut) = n /\ SameTo(cut, s, n)
  <2>1. Len(cut) = n /\ \A i \in 1 .. n : cut[i] = s[i]
    OBVIOUS
  <2> QED
    BY <2>1 DEF SameTo
<1>3. said = Items(cut) /\ Balanced(cut)
  OBVIOUS
<1> HIDE DEF cut, L
<1>4. Depth(s, n) = 0
  BY <1>1, <1>2, <1>3, SameMarks DEF Balanced
<1>5. Fields(cut)[<<0, n>>] = Append(P(c), F)
  <2>1. Fields(cut)[<<0, n>>] = Fields(s)[<<0, n>>]
    <3>1. n \in 0 .. n /\ 0 <= n /\ n <= Len(cut) /\ n <= Len(s) /\ Len(s) \in Nat /\ Len(cut) \in Nat
      BY <1>1, <1>2 DEF L
    <3> QED
      BY <1>1, <1>2, <3>1, SameFields
  <2>2. Fields(s)[<<0, n>>] = Append(P(c), F)
    BY <1>1, FieldsAre DEF L
  <2> QED
    BY <2>1, <2>2
<1>6. Fields(s)[<<0, L>>] = Append(P(e), Field(s, Fields(s), e, L))
  BY <1>1, FieldsAre DEF L
<1>7. /\ c \in 0 .. n /\ Depth(s, c) = 0
      /\ c \in {0} \cup Cuts(s, 0, L)
  <2>1. c \in 0 .. n /\ (c = 0 \/ c \in Cuts(s, 0, n))
    BY <1>1, LastCutIs
  <2>2. \A i \in 0 + 1 .. n : i \in 0 + 1 .. L
    BY <1>1
  <2> HIDE DEF c
  <2> QED
    BY <2>1, <2>2, DepthNowhere DEF Cuts
<1>8. IsSequence(P(c)) /\ IsSequence(P(e)) /\ StartsWith(P(e), P(c))
  <2> HIDE DEF c
  <2> QED
    BY <1>1, <1>7, LaterCut DEF L
<1>9. PICK t \in n .. L : /\ Cuts(s, 0, t) = Cuts(s, 0, n)
                          /\ t = L \/ t + 1 \in Cuts(s, 0, L)
  BY <1>1, NextCut DEF L
<1> DEFINE G == Field(s, Fields(s), c, t)
<1>10. Fields(s)[<<0, t>>] = Append(P(c), G)
  <2>1. t \in 0 .. L
    BY <1>1
  <2>2. LastCut(s, 0, t) = c
    BY <1>9 DEF LastCut
  <2> HIDE DEF c
  <2> QED
    BY <1>1, <2>1, <2>2, FieldsAre DEF L
<1>11. isSet(F) => CutDown(F, G) /\ isSet(G)
  <2> HIDE DEF c
  <2>1. n \in 0 .. Len(s) /\ t \in n .. Len(s)
    BY <1>1 DEF L
  <2>2. Cuts(s, 0, t) = Cuts(s, 0, n)
    BY <1>9
  <2>3. c \in 0 .. n /\ Depth(s, c) = 0
    BY <1>7
  <2> QED
    BY <1>4, <2>1, <2>2, <2>3, FieldGoesOn
<1> HIDE DEF c
<1>12. t + 1 \in Cuts(s, 0, L) => StartsWith(P(e), Append(P(c), G))
  <2> SUFFICES ASSUME t + 1 \in Cuts(s, 0, L) PROVE StartsWith(P(e), Append(P(c), G))
    OBVIOUS
  <2>1. PICK i \in Nat : i = t + 1 /\ i # 0 /\ i - 1 = t
    BY <1>1
  <2>2. P(i) = Append(P(c), G)
    BY <1>10, <2>1 DEF Before
  <2>3. i \in {0} \cup Cuts(s, 0, L)
    BY <2>1
  <2>4. StartsWith(P(e), P(i))
    BY <1>1, <2>3, LaterCut DEF L
  <2> QED
    BY <2>2, <2>4
<1>13. Append(P(c), G) = Append(P(e), Field(s, Fields(s), e, L)) \/ t + 1 \in Cuts(s, 0, L)
  BY <1>6, <1>9, <1>10
<1> HIDE DEF P, e, F, G
<1>14. ASSUME NEW l, IsSequence(l), NEW v
       PROVE  Trimmed(Append(l, v)) = IF isSet(v) THEN Append(l, v) ELSE l
  <2>1. Last(Append(l, v)) = v /\ Front(Append(l, v)) = l
    BY <1>14, AppendedLast
  <2> QED
    BY <2>1 DEF Trimmed
<1>15. /\ said = IF isSet(F) THEN Append(P(c), F) ELSE P(c)
       /\ Items(s) = Trimmed(Append(P(e), Field(s, Fields(s), e, L)))
  <2>1. said = Trimmed(Fields(cut)[<<0, n>>]) /\ Items(s) = Trimmed(Fields(s)[<<0, L>>])
    BY <1>2, <1>3 DEF Items, L
  <2> QED
    BY <1>5, <1>6, <1>8, <1>14, <2>1
<1>16. Items(s) = P(e) \/ Items(s) = Append(P(e), Field(s, Fields(s), e, L))
  BY <1>8, <1>14, <1>15
<1>17. StartsWith(Items(s), P(c)) /\ IsSequence(Items(s))
  BY <1>8, <1>16, StartsWithAppend
<1>18. CASE isSet(F)
  <2>1. StartsWith(Items(s), Append(P(c), G))
    <3>1. IsSequence(Append(P(c), G))
      BY <1>8, Appended
    <3>2. CASE t + 1 \in Cuts(s, 0, L)
      BY <1>8, <1>12, <1>16, <3>1, <3>2, StartsWithAppend
    <3>3. CASE Append(P(c), G) = Append(P(e), Field(s, Fields(s), e, L))
      <4>1. Items(s) = Append(P(c), G)
        BY <1>8, <1>11, <1>14, <1>15, <1>18, <3>3
      <4>2. Len(Append(P(c), G)) \in Nat
        BY <3>1 DEF IsSequence
      <4> QED
        BY <4>1, <4>2 DEF StartsWith
    <3> QED
      BY <1>13, <3>2, <3>3
  <2>2. PICK S : P(c) \in Seq(S)
    BY <1>8 DEF IsSequence
  <2>3. PICK k \in Nat : k = Len(P(c))
    BY <2>2
  <2>4. /\ Len(Append(P(c), F)) = k + 1 /\ Append(P(c), F)[k + 1] = F
        /\ Len(Append(P(c), G)) = k + 1 /\ Append(P(c), G)[k + 1] = G
    <3>1. P(c) \in Seq(S \cup {F, G})
      BY <2>2
    <3> QED
      BY <2>3, <3>1
  <2>5. k + 1 <= Len(Items(s)) /\ Items(s)[k + 1] = G
    BY <2>1, <2>3, <2>4 DEF StartsWith
  <2>6. Front(said) = P(c)
    BY <1>8, <1>15, <1>18, AppendedLast
  <2>7. IsPrefix(Front(said), Items(s))
    BY <1>8, <1>17, <2>6, Begins DEF StartsWith
  <2> QED
    BY <1>11, <1>15, <1>18, <2>4, <2>5, <2>7
<1>19. CASE ~isSet(F)
  <2>1. said = P(c)
    BY <1>15, <1>19
  <2>2. said # <<>>
    OBVIOUS
  <2>3. StartsWith(Items(s), Front(said)) /\ IsSequence(Front(said))
    BY <1>8, <1>17, <2>1, <2>2, StartsWithFront
  <2>4. IsPrefix(Front(said), Items(s))
    BY <1>17, <2>3, Begins DEF StartsWith
  <2>5. Len(said) \in Nat
    BY <1>8, <2>1 DEF IsSequence
  <2>6. Len(said) <= Len(Items(s)) /\ said[Len(said)] = Items(s)[Len(said)]
    BY <1>17, <2>1, <2>5 DEF StartsWith
  <2> QED
    BY <2>4, <2>6 DEF CutDown
<1> QED
  BY <1>18, <1>19

\* A line cut short that is valid still says the same as the whole: it lacks
\* what was cut off, and its last argument is the whole's or a beginning of it.
THEOREM CutLinesKeepArguments == Spec => []CutLineKeepsArguments
<1>1. InStep => CutLineKeepsArguments
  <2> SUFFICES ASSUME InStep, status = "valid", InGrammar(line), NEW n \in DOMAIN line,
                      NEW said, said = Items(SubSeq(line, 1, n)),
                      Balanced(SubSeq(line, 1, n)), Len(said) > 0
               PROVE  /\ Len(said) <= Len(m_args)
                      /\ IsPrefix(Front(said), m_args)
                      /\ CutDown(said[Len(said)], m_args[Len(said)])
    BY DEF CutLineKeepsArguments
  <2>1. line \in Seq(Chars) /\ n \in 1 .. Len(line) /\ m_args = Items(line)
    BY DEF InStep, IInv, Shape, ReadsByGrammar
  <2>2. Balanced(line)
    <3>1. line # <<>>
      BY <2>1
    <3> QED
      BY <3>1 DEF InStep, IInv, ValidIffBalanced
  <2> QED
    BY <2>1, <2>2, CutItems
<1> QED
  BY <1>1, StaysInStep, PTL

-----------------------------------------------------------------------------
(* dateTime(). *)

\* A time of day is split into its hours, minutes and seconds.
LEMMA TimeOfDay ==
  ASSUME NEW s \in Int
  PROVE  86400 * (s \div 86400) + 3600 * ((s \div 3600) % 24) + 60 * ((s \div 60) % 60)
           + (s % 60) = s
<1>1. PICK m \in Int : m = s \div 60 /\ s = 60 * m + (s % 60) /\ s % 60 \in 0 .. 59
  OBVIOUS
<1>2. PICK h \in Int : h = m \div 60 /\ m = 60 * h + (m % 60) /\ m % 60 \in 0 .. 59
  OBVIOUS
<1>3. PICK d \in Int : d = h \div 24 /\ h = 24 * d + (h % 24) /\ h % 24 \in 0 .. 23
  OBVIOUS
<1>4. s \div 3600 = h
  BY <1>1, <1>2
<1>5. s \div 86400 = d
  BY <1>1, <1>2, <1>3
<1>6. /\ s % 60 = s - 60 * m
      /\ (s \div 60) % 60 = m - 60 * h
      /\ (s \div 3600) % 24 = h - 24 * d
  BY <1>1, <1>2, <1>3, <1>4
<1>7. 86400 * d + 3600 * (h - 24 * d) + 60 * (m - 60 * h) + (s - 60 * m) = s
  OBVIOUS
<1> QED
  BY <1>5, <1>6, <1>7

\* The offset's sign goes for its hours and for its minutes.
LEMMA OffsetRead ==
  ASSUME NEW offset \in Int, NEW o,
         o = [negative |-> offset < 0,
              hours |-> (IF offset < 0 THEN -offset ELSE offset) \div 60,
              minutes |-> (IF offset < 0 THEN -offset ELSE offset) % 60]
  PROVE  offsetSeconds(o) = 60 * offset
<1>1. PICK a \in Nat : a = IF offset < 0 THEN -offset ELSE offset
  OBVIOUS
<1>2. PICK h \in Nat : h = a \div 60 /\ a = 60 * h + (a % 60) /\ a % 60 \in 0 .. 59
  OBVIOUS
<1>3. PICK m \in Nat : m = a % 60 /\ a = 60 * h + m
  BY <1>2
<1>4. o.negative <=> offset < 0
  OBVIOUS
<1>5. o.hours = h /\ o.minutes = m
  BY <1>1, <1>2, <1>3
<1>6. 3600 * h + 60 * m = 60 * a
  BY <1>3
<1>7. offsetSeconds(o) = IF offset < 0 THEN -(60 * a) ELSE 60 * a
  BY <1>4, <1>5, <1>6 DEF offsetSeconds
<1> QED
  BY <1>1, <1>7

\* How a fraction of ms milliseconds may be written.
Denotes(fraction, ms) ==
  \/ fraction = Fraction(ms)
  \/ fraction = Append(Fraction(ms), 9)
  \/ Fraction(ms)[3] = 0 /\ fraction = Front(Fraction(ms))

\* Three digits are read as they are written, a fourth is dropped, and a last
\* zero may be left out.
LEMMA FractionRead ==
  ASSUME NEW ms \in Nat, ms < 1000, NEW fraction, Denotes(fraction, ms)
  PROVE  millisecond(fraction) = ms
<1>1. PICK t \in Int : t = ms \div 10 /\ ms = 10 * t + (ms % 10) /\ ms % 10 \in 0 .. 9
  OBVIOUS
<1>2. PICK u \in Int : u = ms % 10
  BY <1>1
<1>3. PICK h \in Int : h = ms \div 100 /\ t = 10 * h + (t % 10)
  BY <1>1
<1>4. PICK d \in Int : d = t % 10
  BY <1>3
<1>5. 100 * h + 10 * d + u = ms
  BY <1>1, <1>2, <1>3, <1>4
<1>6. Fraction(ms) = <<h, d, u>>
  BY <1>1, <1>2, <1>3, <1>4 DEF Fraction
<1>7. CASE fraction = Fraction(ms)
  <2>1. fraction = <<h, d, u>>
    BY <1>6, <1>7
  <2>2. /\ (fraction \o <<0, 0, 0>>)[1] = h /\ (fraction \o <<0, 0, 0>>)[2] = d
        /\ (fraction \o <<0, 0, 0>>)[3] = u
    BY <2>1
  <2> QED
    BY <1>5, <2>2 DEF millisecond
<1>8. CASE fraction = Append(Fraction(ms), 9)
  <2>1. fraction = Append(<<h, d, u>>, 9)
    BY <1>6, <1>8
  <2>2. /\ (fraction \o <<0, 0, 0>>)[1] = h /\ (fraction \o <<0, 0, 0>>)[2] = d
        /\ (fraction \o <<0, 0, 0>>)[3] = u
    BY <2>1
  <2> QED
    BY <1>5, <2>2 DEF millisecond
<1>9. CASE Fraction(ms)[3] = 0 /\ fraction = Front(Fraction(ms))
  <2>1. fraction = SubSeq(<<h, d, u>>, 1, 2) /\ u = 0
    BY <1>6, <1>9 DEF Front
  <2>2. fraction = <<h, d>>
    <3> DEFINE all == <<h, d, u>>
    <3>1. all \in Seq(Int) /\ Len(all) = 3 /\ all[1] = h /\ all[2] = d
      OBVIOUS
    <3> HIDE DEF all
    <3>2. /\ SubSeq(all, 1, 2) \in Seq(Int) /\ Len(SubSeq(all, 1, 2)) = 2
          /\ SubSeq(all, 1, 2)[1] = h /\ SubSeq(all, 1, 2)[2] = d
      BY <3>1
    <3>3. fraction = SubSeq(all, 1, 2)
      BY <2>1 DEF all
    <3>4. <<h, d>> \in Seq(Int) /\ Len(<<h, d>>) = 2
      OBVIOUS
    <3>5. \A i \in 1 .. 2 : SubSeq(all, 1, 2)[i] = <<h, d>>[i]
      BY <3>2
    <3> QED
      BY <3>2, <3>3, <3>4, <3>5, SeqEqual
  <2>3. /\ (fraction \o <<0, 0, 0>>)[1] = h /\ (fraction \o <<0, 0, 0>>)[2] = d
        /\ (fraction \o <<0, 0, 0>>)[3] = 0
    BY <2>2
  <2> QED
    BY <1>5, <2>1, <2>3 DEF millisecond
<1> QED
  BY <1>7, <1>8, <1>9 DEF Denotes

\* A timestamp denotes one instant, whatever zone it is written in.
LEMMA InstantRead ==
  ASSUME NEW instant \in Nat, NEW offset \in Int, NEW fraction,
         Denotes(fraction, instant % 1000)
  PROVE  dateTime(Written(instant, offset, fraction)) = instant
<1> DEFINE t == Written(instant, offset, fraction)
<1>1. PICK s \in Int : s = instant \div 1000 + 60 * offset
  OBVIOUS
<1>2. /\ t.day = s \div 86400 /\ t.hour = (s \div 3600) % 24
      /\ t.minute = (s \div 60) % 60 /\ t.second = s % 60 /\ t.fraction = fraction
      /\ t.offset = [negative |-> offset < 0,
                     hours |-> (IF offset < 0 THEN -offset ELSE offset) \div 60,
                     minutes |-> (IF offset < 0 THEN -offset ELSE offset) % 60]
  BY <1>1 DEF Written
<1> HIDE DEF t
<1>3. millisecond(fraction) = instant % 1000
  <2>1. PICK ms \in Nat : ms = instant % 1000 /\ ms < 1000
    OBVIOUS
  <2>2. Denotes(fraction, ms)
    BY <2>1
  <2>3. millisecond(fraction) = ms
    BY <2>1, <2>2, FractionRead
  <2> QED
    BY <2>1, <2>3
<1>4. offsetSeconds(t.offset) = 60 * offset
  BY <1>2, OffsetRead
<1>5. 86400 * t.day + 3600 * t.hour + 60 * t.minute + t.second = s
  BY <1>2, TimeOfDay
<1>6. dateTime(t) = 1000 * (s - 60 * offset) + (instant % 1000)
  BY <1>2, <1>4, <1>5, <1>3 DEF dateTime
<1>7. 1000 * (instant \div 1000) + (instant % 1000) = instant
  OBVIOUS
<1>8. s - 60 * offset = instant \div 1000
  BY <1>1
<1> QED
  BY <1>6, <1>7, <1>8 DEF t

\* A timestamp denotes one instant whatever zone it is written in, with two,
\* three or four digits of fraction: for every instant and every offset.
THEOREM TimestampsAreInstants == Spec => []TimestampsDenoteInstants
<1>1. ASSUME NEW instant \in Instants,
             NEW offset \in Offsets \cup {-minutes : minutes \in Offsets},
             NEW fraction \in
               {Fraction(instant % 1000), Append(Fraction(instant % 1000), 9)} \cup
                 (IF Fraction(instant % 1000)[3] = 0
                  THEN {Front(Fraction(instant % 1000))} ELSE {})
      PROVE  dateTime(Written(instant, offset, fraction)) = instant
  <2>1. instant \in Nat /\ offset \in Int
    <3>1. instant \in Nat /\ \A minutes \in Offsets : minutes \in Nat
      BY LogLineAssumption
    <3>2. offset \in Offsets \/ \E minutes \in Offsets : offset = -minutes
      OBVIOUS
    <3> QED
      BY <3>1, <3>2
  <2>2. Denotes(fraction, instant % 1000)
    <3> DEFINE digits == Fraction(instant % 1000)
    <3>1. digits[3] = 0 \/ digits[3] # 0
      OBVIOUS
    <3>2. fraction \in {digits, Append(digits, 9)} \cup
                          (IF digits[3] = 0 THEN {Front(digits)} ELSE {})
      OBVIOUS
    <3> HIDE DEF digits
    <3> QED
      BY <3>1, <3>2 DEF digits, Denotes
  <2> QED
    BY <2>1, <2>2, InstantRead
<1>2. TimestampsDenoteInstants
  BY <1>1 DEF TimestampsDenoteInstants
<1>3. TimestampsDenoteInstants'
  BY <1>1 DEF TimestampsDenoteInstants
<1> QED
  BY <1>2, <1>3, PTL
=============================================================================
