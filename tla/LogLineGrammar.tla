--------------------------- MODULE LogLineGrammar ---------------------------
(***************************************************************************)
(* What a line of the combat log says, read from the whole of it: a line   *)
(* is cut at its outermost commas, and a field is a list if a bracket      *)
(* opens it and the matching one ends it.  LogLine's parser, which sees    *)
(* one character at a time, is checked against this reading, which knows   *)
(* no stack but is recursive.                                              *)
(*                                                                         *)
(* A piece of the line is what follows position "from", up to "to".        *)
(***************************************************************************)
EXTENDS LogLine

Commas == {","}

Pieces(s) == (0 .. Len(s)) \X (0 .. Len(s))

\* A field is one list or has none: no text stands beside a list.
InGrammar(s) ==
  \A i \in DOMAIN s :
    /\ Mark(s, i, Openers) => i = 1 \/ Mark(s, i - 1, Commas \cup Openers)
    /\ Mark(s, i, Closers) => i = Len(s) \/ Mark(s, i + 1, Commas \cup Closers)

Cuts(s, from, to) ==
  {i \in from + 1 .. to : Mark(s, i, Commas) /\ Depth(s, i) = Depth(s, from)}
LastCut(s, from, to) == Max({from} \cup Cuts(s, from, to))

Bracketed(s, from, to) ==
  /\ to - from > 1
  /\ Depth(s, to) = Depth(s, from)
  /\ \A n \in from + 1 .. to - 1 : Depth(s, n) > Depth(s, from)

Unquoted(s, from, to) ==
  LET text[n \in 0 .. Len(s)] ==
        IF n <= from THEN <<>>
        ELSE IF s[n] = Quote THEN text[n - 1] ELSE Append(text[n - 1], s[n])
  IN  text[to]

\* An empty last field, quoted or not, is none.
Trimmed(fields) == IF isSet(Last(fields)) THEN fields ELSE Front(fields)

\* A field, and the fields before a cut, where f has those of shorter pieces.
Field(s, f, from, to) ==
  IF Bracketed(s, from, to) THEN List(Trimmed(f[<<from + 1, to - 1>>]))
  ELSE Text(Unquoted(s, from, to))
Before(f, from, cut) == IF cut = from THEN <<>> ELSE f[<<from, cut - 1>>]

Fields(s) ==
  LET f[p \in Pieces(s)] ==
        LET cut == LastCut(s, p[1], p[2]) IN
        Append(Before(f, p[1], cut), Field(s, f, cut, p[2]))
  IN  f

Items(s) == Trimmed(Fields(s)[<<0, Len(s)>>])

-----------------------------------------------------------------------------
(* Properties. *)

\* A line of the grammar in LogLine.h is read as it says, whatever is nested,
\* quoted or empty.
ReadsByGrammar == status = "valid" /\ InGrammar(line) => m_args = Items(line)

\* What is left of an argument: all of it or, if it is text, a beginning.
CutDown(v, w) == v = w \/ (~v.list /\ ~w.list /\ IsPrefix(v.text, w.text))

\* A line that was cut short and is valid still says the same as the whole: it
\* lacks what was cut off, and its last argument may be cut down.
CutLineKeepsArguments ==
  status = "valid" /\ InGrammar(line) =>
    \A n \in DOMAIN line :
      LET said == Items(SubSeq(line, 1, n))
          last == Len(said)
      IN  Balanced(SubSeq(line, 1, n)) /\ last > 0 =>
            /\ last <= Len(m_args)
            /\ IsPrefix(Front(said), m_args)
            /\ CutDown(said[last], m_args[last])
=============================================================================
