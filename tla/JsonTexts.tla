------------------------------- MODULE JsonTexts -------------------------------
(***************************************************************************)
(* Texts put together piece by piece, read by Json::parse and by           *)
(* Json::parse_multi under either strategy, and values printed by          *)
(* Json::dump and read back.                                               *)
(***************************************************************************)
EXTENDS JsonGrammar

CONSTANTS
  Family,    \* names of sets of texts
  Opening,   \* the piece the texts of a family begin with
  Pieces,    \* the pieces that may follow
  MaxPieces, \* and how many of them
  Values     \* values a program builds

VARIABLES
  family,  \* the set of texts this one belongs to, or "values"
  text,    \* what is read
  pieces,  \* pieces of it written so far
  value    \* the value it was printed from

vars == <<family, text, pieces, value>>

Init ==
  /\ \/ family \in Family /\ text = Opening[family]
     \/ family = "values" /\ text = <<>>
  /\ pieces = 0
  /\ value = JNull

\* One more piece of input.
Write ==
  /\ family \in Family
  /\ \E piece \in Pieces[family] : text' = text \o piece
  /\ pieces < MaxPieces[family]
  /\ pieces' = pieces + 1
  /\ UNCHANGED <<family, value>>

\* A program builds a value and prints it.
Build == \E v \in Values :
  /\ family = "values" /\ text = <<>>
  /\ value' = v
  /\ text' = Dump(v)
  /\ UNCHANGED <<family, pieces>>

Next == Write \/ Build

Spec == Init /\ [][Next]_vars

Strategies == BOOLEAN

-------------------------------------------------------------------------------
(* Properties *)

\* Json::parse accepts the texts of the grammar and no other (gaps before,
\* between and after, the leading zero, the depth, and nothing behind), and
\* no index passes the end of the text on whichever path it gives up:
\* get_next_token, consume_comment and parse_number move i unchecked.
AcceptsGrammar == \A comments \in Strategies :
  LET v == Parse(text, comments) IN
  /\ v.p.failed # IsDocument(text, comments)
  /\ v.p.top <= Len(text)

\* The bytes of a text between its quotes, every escaped unit encoded alone.
RECURSIVE UnitsOfText(_)
UnitsOfText(s) ==
  IF s = <<>> THEN <<>>
  ELSE IF s[1] # BACKSLASH THEN <<s[1]>> \o UnitsOfText(Tail(s))
  ELSE IF s[2] # 117 THEN <<Unescape(s[2])>> \o UnitsOfText(From(s, 2))
  ELSE LET unit == FoldLeft(LAMBDA n, ch : 16 * n + HexValue(ch), 0,
                            Part(s, 2, 6))
       IN EncodeUtf8(unit) \o UnitsOfText(From(s, 6))

\* Every character of four bytes taken apart into its two units.
RECURSIVE UnitsOfBytes(_)
UnitsOfBytes(s) ==
  IF s = <<>> THEN <<>>
  ELSE IF s[1] < 240 THEN <<s[1]>> \o UnitsOfBytes(Tail(s))
  ELSE LET above == (s[1] - 240) * 262144 + (s[2] - 128) * 4096
                      + (s[3] - 128) * 64 + (s[4] - 128) - 65536
       IN EncodeUtf8(55296 + above \div 1024)
            \o EncodeUtf8(56320 + (above % 1024))
            \o UnitsOfBytes(From(s, 4))

\* A string keeps what its escapes say: a pair of surrogates becomes the one
\* character it stands for, no unit that waited for its other half is lost
\* or written twice, and the units come out in the order they were written.
EscapesMeanTheirUnits == LET v == Parse(text, FALSE) IN
  ~v.p.failed /\ v.r.type = "STRING" =>
    LET from == SelectInSeq(text, LAMBDA b : b = QUOTE)
        to == SelectLastInSeq(text, LAMBDA b : b = QUOTE)
    IN UnitsOfBytes(v.r.str) = UnitsOfText(Part(text, from, to - 1))

\* What a program built is what the other side reads.
ReadsWhatWasBuilt ==
  family = "values" /\ text # <<>> =>
    LET v == Parse(text, FALSE) IN ~v.p.failed /\ Equals(v.r, value)

\* parse_multi stops where the last complete value and its gap end: up to
\* there the text is those values and no error, and behind it none starts.
MultiStopsBehindLast == \A comments \in Strategies :
  LET UpTo(n) == ParseMulti(SubSeq(text, 1, n), comments)
      Behind(n) == ParseMulti(SubSeq(text, n + 1, Len(text)), comments)
      Stopped(all, head, rest) ==
        LET good == Len((IF all.p.failed THEN head ELSE all).values) IN
        /\ ~head.p.failed /\ head.stop = all.stop
        /\ head.values = SubSeq(all.values, 1, good)
        /\ all.p.failed <=> all.stop < Len(text)
        /\ rest.stop = 0
      Holds(all) == Stopped(all, UpTo(all.stop), Behind(all.stop))
  IN Holds(ParseMulti(text, comments))
===============================================================================
