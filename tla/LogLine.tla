------------------------------ MODULE LogLine ------------------------------
(***************************************************************************)
(* A line of the combat log (daemon/combatlog/LogLine): parse() reads what *)
(* follows the timestamp one character at a time, with a stack of the      *)
(* lists that are open; dateTime() reads the timestamp.                    *)
(*                                                                         *)
(* How deep a line's brackets are nested is counted here with no stack;    *)
(* what a line says, in LogLineGrammar.                                    *)
(***************************************************************************)
EXTENDS Integers, SequencesExt

CONSTANTS
  Letters,           \* characters with no meaning of their own
  MaxLength,         \* bound: characters after the timestamp
  Instants,          \* instants, in milliseconds since the epoch
  Offsets            \* how far zones are ahead of UTC or behind it, in minutes


ASSUME LogLineAssumption ==
  MaxLength \in Nat /\ Instants \subseteq Nat /\ Offsets \subseteq Nat

VARIABLES
  line,              \* the characters read so far
  openLists, inQuotedString, value,
  m_args,
  status             \* reading, or how parse() ended

vars == <<line, openLists, inQuotedString, value, m_args, status>>

Quote == "\""
Openers == {"[", "("}
Closers == {"]", ")"}
Marks == {",", Quote} \cup Openers \cup Closers
Chars == Letters \cup Marks

ASSUME LettersAssumption == Letters \cap Marks = {}

\* The two kinds of QVariant: a list's toString() is empty.
Text(s) == [list |-> FALSE, text |-> s, items |-> <<>>]
List(s) == [list |-> TRUE, text |-> <<>>, items |-> s]
isSet(v) == v.list \/ v.text # <<>>
Added(v, c) == Text(Append(v.text, c))

Init ==
  /\ line = <<>>
  /\ openLists = <<>>
  /\ inQuotedString = FALSE
  /\ value = Text(<<>>)
  /\ m_args = <<>>
  /\ status = "reading"

-----------------------------------------------------------------------------
(* parse(). *)

\* Mutant of Commit: the list that is open is not looked at.
CommitToLine(v) == m_args' = Append(m_args, v) /\ UNCHANGED openLists

Commit(v) ==
  IF openLists = <<>> THEN m_args' = Append(m_args, v) /\ UNCHANGED openLists
  ELSE /\ openLists' = [openLists EXCEPT ![Len(openLists)] = Append(@, v)]
       /\ UNCHANGED m_args

Take(c) ==
  /\ status = "reading"
  /\ Len(line) < MaxLength
  /\ line' = Append(line, c)

\* Mutant of ReadQuoted: brackets open lists inside quotes too.
ReadQuotedOpensLists(c) ==
  /\ Take(c)
  /\ inQuotedString
  /\ IF c = Quote THEN inQuotedString' = FALSE /\ UNCHANGED value
     ELSE value' = Added(value, c) /\ UNCHANGED inQuotedString
  /\ openLists' = IF c \in Openers THEN Append(openLists, <<>>) ELSE openLists
  /\ UNCHANGED <<m_args, status>>

ReadQuoted(c) ==
  /\ Take(c)
  /\ inQuotedString
  /\ IF c = Quote THEN inQuotedString' = FALSE /\ UNCHANGED value
     ELSE value' = Added(value, c) /\ UNCHANGED inQuotedString
  /\ UNCHANGED <<openLists, m_args, status>>

ReadComma ==
  /\ ~inQuotedString
  /\ Take(",")
  /\ Commit(value)
  /\ value' = Text(<<>>)
  /\ UNCHANGED <<inQuotedString, status>>

ReadQuote ==
  /\ ~inQuotedString
  /\ Take(Quote)
  /\ inQuotedString' = TRUE
  /\ UNCHANGED <<openLists, value, m_args, status>>

ReadOpener ==
  /\ ~inQuotedString
  /\ \E c \in Openers : Take(c)
  /\ openLists' = Append(openLists, <<>>)
  /\ UNCHANGED <<inQuotedString, value, m_args, status>>

\* Mutant of ReadCloser: a closer with nothing open is skipped.
ReadCloserLeniently ==
  /\ ~inQuotedString
  /\ \E c \in Closers : Take(c)
  /\ IF openLists = <<>> THEN UNCHANGED <<openLists, value>>
     ELSE /\ value' = List(IF isSet(value) THEN Append(Last(openLists), value)
                                           ELSE Last(openLists))
          /\ openLists' = Front(openLists)
  /\ UNCHANGED <<inQuotedString, m_args, status>>

\* Mutant of ReadCloser: the last item of a list is forgotten.
ReadCloserForgetful ==
  /\ ~inQuotedString
  /\ \E c \in Closers : Take(c)
  /\ IF openLists = <<>> THEN status' = "invalid" /\ UNCHANGED <<openLists, value>>
     ELSE /\ value' = List(Last(openLists))
          /\ openLists' = Front(openLists)
          /\ UNCHANGED status
  /\ UNCHANGED <<inQuotedString, m_args>>

\* The list that closes becomes the value; which bracket closes it does not matter.
ReadCloser ==
  /\ ~inQuotedString
  /\ \E c \in Closers : Take(c)
  /\ IF openLists = <<>> THEN status' = "invalid" /\ UNCHANGED <<openLists, value>>
     ELSE /\ value' = List(IF isSet(value) THEN Append(Last(openLists), value)
                                           ELSE Last(openLists))
          /\ openLists' = Front(openLists)
          /\ UNCHANGED status
  /\ UNCHANGED <<inQuotedString, m_args>>

ReadText ==
  /\ ~inQuotedString
  /\ \E c \in Letters : Take(c) /\ value' = Added(value, c)
  /\ UNCHANGED <<openLists, inQuotedString, m_args, status>>

\* Also at a newline.
EndOfLine ==
  /\ status = "reading"
  /\ IF isSet(value) THEN Commit(value) ELSE UNCHANGED <<openLists, m_args>>
  /\ status' = IF openLists = <<>> /\ m_args' # <<>> THEN "valid" ELSE "invalid"
  /\ UNCHANGED <<line, inQuotedString, value>>

\* No two spaces end the timestamp.
NoSeparator ==
  /\ status = "reading" /\ line = <<>>
  /\ status' = "invalid"
  /\ UNCHANGED <<line, openLists, inQuotedString, value, m_args>>

Next ==
  \/ \E c \in Chars : ReadQuoted(c)
  \/ ReadComma \/ ReadQuote \/ ReadOpener \/ ReadCloser \/ ReadText
  \/ EndOfLine \/ NoSeparator

Spec == Init /\ [][Next]_vars

-----------------------------------------------------------------------------
(* dateTime(), of a timestamp that matches the pattern: a day, the time of *)
(* day, the digits of the fraction, and the offset's sign, hours, minutes. *)

millisecond(fraction) ==
  LET digits == fraction \o <<0, 0, 0>> IN 100 * digits[1] + 10 * digits[2] + digits[3]

\* Mutant of offsetSeconds: only the hours have the sign.
offsetSecondsOfHours(offset) ==
  (IF offset.negative THEN -3600 ELSE 3600) * offset.hours + 60 * offset.minutes

offsetSeconds(offset) ==
  LET seconds == 3600 * offset.hours + 60 * offset.minutes
  IN  IF offset.negative THEN -seconds ELSE seconds

dateTime(t) ==
  1000 * (86400 * t.day + 3600 * t.hour + 60 * t.minute + t.second - offsetSeconds(t.offset))
    + millisecond(t.fraction)

-----------------------------------------------------------------------------
(* The reference. *)

Count(s, n, marks) == Cardinality({i \in 1 .. n : s[i] \in marks})
Quoted(s, i) == Count(s, i - 1, {Quote}) % 2 = 1
Mark(s, i, marks) == s[i] \in marks /\ ~Quoted(s, i)
Depth(s, n) ==
  Cardinality({i \in 1 .. n : Mark(s, i, Openers)})
    - Cardinality({i \in 1 .. n : Mark(s, i, Closers)})
Balanced(s) == Depth(s, Len(s)) = 0 /\ \A n \in DOMAIN s : Depth(s, n) >= 0

\* The digits of a fraction, and a timestamp that says an instant in a zone.
Fraction(ms) == <<ms \div 100, (ms \div 10) % 10, ms % 10>>
Written(instant, offset, fraction) ==
  LET second == instant \div 1000 + 60 * offset IN
  [day |-> second \div 86400, hour |-> (second \div 3600) % 24,
   minute |-> (second \div 60) % 60, second |-> second % 60, fraction |-> fraction,
   offset |-> [negative |-> offset < 0,
               hours |-> (IF offset < 0 THEN -offset ELSE offset) \div 60,
               minutes |-> (IF offset < 0 THEN -offset ELSE offset) % 60]]

-----------------------------------------------------------------------------
(* Properties. *)

\* While a line is read, a list is open for each bracket that is, and a quoted
\* bracket or comma is text: the flag and the stack never get out of step with
\* the line, at any point where it might be cut.
StackFollowsLine ==
  status = "reading" =>
    /\ Len(openLists) = Depth(line, Len(line))
    /\ inQuotedString = Quoted(line, Len(line) + 1)

\* "unbalancedBracketIsInvalid": a line is valid if and only if its brackets
\* balance and it is more than empty quotes.
ValidIffBalanced ==
  line # <<>> /\ status # "reading" =>
    (status = "valid" <=> Balanced(line) /\ \E i \in DOMAIN line : line[i] # Quote)

\* A timestamp denotes one instant whatever zone it is written in, behind UTC
\* and with half hours too, with two, three or four digits of fraction.
TimestampsDenoteInstants ==
  line = <<>> =>
    \A instant \in Instants, offset \in Offsets \cup {-minutes : minutes \in Offsets} :
      LET digits == Fraction(instant % 1000) IN
      \A fraction \in {digits, Append(digits, 9)} \cup
           (IF digits[3] = 0 THEN {Front(digits)} ELSE {}) :
        dateTime(Written(instant, offset, fraction)) = instant
=============================================================================
