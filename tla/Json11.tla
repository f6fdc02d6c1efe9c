-------------------------------- MODULE Json11 --------------------------------
(***************************************************************************)
(* The JSON library of the verifier, lib/verifier/json11.cpp: the printer, *)
(* the parser and the comparison of values, as operators.                  *)
(*                                                                         *)
(* A text is a sequence of bytes.  How %.17g lays a double out is not      *)
(* modelled.                                                               *)
(*                                                                         *)
(* A parser is a record: the text, the strategy, the index i, whether and  *)
(* why it failed, and the largest i it has had.                            *)
(***************************************************************************)
EXTENDS JsonValues, SequencesExt

CONSTANTS
  MaxDepth,   \* max_depth
  IntDigits   \* numeric_limits<int>::digits10

ASSUME LimitAssumption == MaxDepth \in Nat /\ IntDigits \in Nat

-------------------------------------------------------------------------------
(* Values *)

\* m * 10^e with the zeros moved into e.
RECURSIVE Normal(_, _)
Normal(n, exp) ==
  IF n = 0 THEN <<0, 0>>
  ELSE IF n % 10 = 0 THEN Normal(n \div 10, exp + 1) ELSE <<n, exp>>

Magnitude(n) == LET k == Normal(Abs(n.m), n.e) IN <<Sign(n.m) * k[1], k[2]>>

\* Bytes as a map or string orders them.
RECURSIVE TextLess(_, _)
TextLess(s, t) ==
  IF t = <<>> THEN FALSE ELSE IF s = <<>> THEN TRUE
  ELSE s[1] < t[1] \/ (s[1] = t[1] /\ TextLess(Tail(s), Tail(t)))

SortedKeys(f) == SetToSortSeq(DOMAIN f, TextLess)

RECURSIVE Equals(_, _)
Equals(a, b) ==
  /\ a.type = b.type
  /\ CASE a.type = "NUMBER" -> Magnitude(a) = Magnitude(b)
       [] a.type = "ARRAY" ->
              /\ Len(a.items) = Len(b.items)
              /\ \A n \in DOMAIN a.items : Equals(a.items[n], b.items[n])
       [] a.type = "OBJECT" ->
              /\ DOMAIN a.map = DOMAIN b.map
              /\ \A k \in DOMAIN a.map : Equals(a.map[k], b.map[k])
       [] OTHER -> a = b

-------------------------------------------------------------------------------
(* The printer *)

RECURSIVE Decimal(_)
Decimal(n) == IF n < 0 THEN <<MINUS>> \o Decimal(-n)
              ELSE IF n < 10 THEN <<48 + n>>
              ELSE Append(Decimal(n \div 10), 48 + (n % 10))

\* Mutant: the escape character itself is not escaped.
DumpByte_Raw(ch) ==
  IF ch = QUOTE THEN <<BACKSLASH, ch>>
  ELSE IF ch <= 31 THEN <<BACKSLASH, 117, 48, 48, HexOf(ch \div 16),
                          HexOf(ch % 16)>>
  ELSE <<ch>>

DumpByte(ch) ==
  LET short == [b \in {8, 12, 10, 13, 9} |-> CASE b = 8 -> 98 [] b = 12 -> 102
                  [] b = 10 -> 110 [] b = 13 -> 114 [] b = 9 -> 116]
  IN IF ch \in {BACKSLASH, QUOTE} THEN <<BACKSLASH, ch>>
     ELSE IF ch \in DOMAIN short THEN <<BACKSLASH, short[ch]>>
     ELSE IF ch <= 31 THEN <<BACKSLASH, 117, 48, 48, HexOf(ch \div 16),
                             HexOf(ch % 16)>>
     ELSE <<ch>>

\* The line separators U+2028 and U+2029 are escaped as a whole.
RECURSIVE DumpBytes(_)
DumpBytes(s) ==
  IF s = <<>> THEN <<>>
  ELSE IF Len(s) >= 3 /\ s[1] = 226 /\ s[2] = 128 /\ s[3] \in {168, 169}
  THEN <<BACKSLASH, 117, 50, 48, 50, s[3] - 112>> \o
       DumpBytes(SubSeq(s, 4, Len(s)))
  ELSE DumpByte(s[1]) \o DumpBytes(Tail(s))

DumpString(s) == <<QUOTE>> \o DumpBytes(s) \o <<QUOTE>>

DumpNumber(j) == IF j.int THEN Decimal(j.m)
                 ELSE Decimal(j.m) \o <<101>> \o Decimal(j.e)

RECURSIVE Joined(_)
Joined(parts) ==
  IF Len(parts) = 0 THEN <<>>
  ELSE IF Len(parts) = 1 THEN parts[1]
  ELSE parts[1] \o <<COMMA, SPACE>> \o Joined(Tail(parts))

RECURSIVE Dump(_)
Dump(j) ==
  CASE j.type = "NUL" -> NULLWORD
    [] j.type = "BOOL" -> IF j.bool THEN TRUEWORD ELSE FALSEWORD
    [] j.type = "NUMBER" -> DumpNumber(j)
    [] j.type = "STRING" -> DumpString(j.str)
    [] j.type = "ARRAY" ->
         <<LBRACKET>> \o Joined([n \in DOMAIN j.items |-> Dump(j.items[n])])
           \o <<RBRACKET>>
    [] j.type = "OBJECT" ->
         LET keys == SortedKeys(j.map) IN
         <<LBRACE>> \o Joined([n \in DOMAIN keys |->
              DumpString(keys[n]) \o <<COLON, SPACE>> \o Dump(j.map[keys[n]])])
           \o <<RBRACE>>

-------------------------------------------------------------------------------
(* The parser: characters *)

Parser(text, comments) ==
  [str |-> text, comments |-> comments, i |-> 0, top |-> 0, failed |-> FALSE,
   err |-> "none"]

Size(p) == Len(p.str)
CharAt(p, k) == IF k < Size(p) THEN p.str[k + 1] ELSE NUL
Char(p) == CharAt(p, p.i)
MoveTo(p, k) == [p EXCEPT !.i = k, !.top = IF k > @ THEN k ELSE @]
Advance(p, n) == MoveTo(p, p.i + n)

\* The first failure is the one reported.
Fail(p, why) == IF p.failed THEN p
                ELSE [p EXCEPT !.failed = TRUE, !.err = why]

\* A parser, and what a method of it returned.
Ret(p, r) == [p |-> p, r |-> r]

\* The first index from k on whose byte is not in S (the text ends in a NUL).
Past(p, k, S) == IF k > Size(p) THEN k ELSE CHOOSE n \in k..Size(p) :
  CharAt(p, n) \notin S /\ \A x \in k..(n - 1) : CharAt(p, x) \in S

ConsumeWhitespace(p) == MoveTo(p, Past(p, p.i, Blank))

\* Mutant: the closing tokens are looked for from the opening ones on.
ConsumeComment_Overlap(p) ==
  LET ends == {k \in (p.i + 1)..(Size(p) - 2) :
                 CharAt(p, k) = STAR /\ CharAt(p, k + 1) = SLASH}
  IN IF Char(p) # SLASH THEN Ret(p, FALSE)
     ELSE IF CharAt(p, p.i + 1) # STAR \/ ends = {}
     THEN Ret(Fail(p, "comment"), FALSE)
     ELSE Ret(MoveTo(p, 2 + CHOOSE k \in ends : \A x \in ends : k <= x), TRUE)

\* Whether there was a comment; the parser is behind it, or has failed.
ConsumeComment(p) ==
  LET q == Advance(p, 1)
      line == {k \in (q.i + 1)..Size(p) : CharAt(p, k) = NEWLINE \/ k = Size(p)}
      block == {k \in (q.i + 1)..(Size(p) - 2) :
                  CharAt(p, k) = STAR /\ CharAt(p, k + 1) = SLASH}
  IN IF Char(p) # SLASH THEN Ret(p, FALSE)
     ELSE IF q.i = Size(p) THEN Ret(Fail(q, "end in comment"), FALSE)
     ELSE IF Char(q) = SLASH
     THEN Ret(MoveTo(q, CHOOSE k \in line : \A x \in line : k <= x), TRUE)
     ELSE IF Char(q) # STAR THEN Ret(Fail(q, "malformed comment"), FALSE)
     ELSE IF block = {}
     THEN Ret(Fail(MoveTo(q, IF q.i + 1 < Size(p) THEN Size(p) - 1
                             ELSE q.i + 1), "end in comment"), FALSE)
     ELSE Ret(MoveTo(q, 2 + CHOOSE k \in block : \A x \in block : k <= x),
              TRUE)

RECURSIVE ConsumeComments(_), BehindComment(_)
ConsumeComments(p) == BehindComment(ConsumeComment(p))
BehindComment(c) ==
  IF c.p.failed THEN c.p
  ELSE IF c.r THEN ConsumeComments(ConsumeWhitespace(c.p))
  ELSE ConsumeWhitespace(c.p)

ConsumeGarbage(p) == LET q == ConsumeWhitespace(p) IN
  IF p.comments THEN ConsumeComments(q) ELSE q

TokenAt(p) ==
  IF p.failed THEN Ret(p, NUL)
  ELSE IF p.i = Size(p) THEN Ret(Fail(p, "unexpected end"), NUL)
  ELSE Ret(Advance(p, 1), Char(p))

GetNextToken(p) == TokenAt(ConsumeGarbage(p))

-------------------------------------------------------------------------------
(* The parser: strings and numbers *)

\* The UTF-8 bytes of a code point, none for a negative one.
EncodeUtf8(pt) ==
  LET Trail(n) == 128 + ((pt \div 64^n) % 64) IN
  CASE pt < 0 -> <<>>
    [] pt \in 0..127 -> <<pt>>
    [] pt \in 128..2047 -> <<192 + pt \div 64, Trail(0)>>
    [] pt \in 2048..65535 -> <<224 + pt \div 4096, Trail(1), Trail(0)>>
    [] OTHER -> <<240 + pt \div 262144, Trail(2), Trail(1), Trail(0)>>

High(pt) == pt \in 55296..56319
Low(pt) == pt \in 56320..57343

\* Mutant: the base of the supplementary planes is not added.
Combine_NoBase(high, low) == (high - 55296) * 1024 + (low - 56320)

\* The character a pair of surrogates stands for.
Combine(high, low) == (high - 55296) * 1024 + (low - 56320) + 65536

\* The escapes of one character.
Unescape(ch) == CASE ch = 98 -> 8 [] ch = 102 -> 12 [] ch = 110 -> 10
                  [] ch = 114 -> 13 [] ch = 116 -> 9 [] OTHER -> ch
Escapes == {98, 102, 110, 114, 116, QUOTE, BACKSLASH, SLASH}

\* The loop of parse_string: out is what has been read, and last the escaped
\* code point that has yet to be written, or -1.
RECURSIVE StringLoop(_, _, _)
StringLoop(p, out, last) ==
  LET ch == Char(p)
      q == Advance(p, 1)                \* behind ch
      written == out \o EncodeUtf8(last)
      esc == Char(q)
      u == Advance(q, 1)                \* behind the escape
      hex == [n \in 0..3 |-> CharAt(u, u.i + n)]
      code == HexValue(hex[0]) * 4096 + HexValue(hex[1]) * 256
                + HexValue(hex[2]) * 16 + HexValue(hex[3])
  IN IF p.i = Size(p) THEN Ret(Fail(p, "end in string"), <<>>)
     ELSE IF ch = QUOTE THEN Ret(q, written)
     ELSE IF ch \in 0..31 THEN Ret(Fail(q, "unescaped"), <<>>)
     ELSE IF ch # BACKSLASH THEN StringLoop(q, Append(written, ch), -1)
     ELSE IF q.i = Size(p) THEN Ret(Fail(q, "end in string"), <<>>)
     ELSE IF esc # 117 THEN
       IF esc \in Escapes
       THEN StringLoop(u, Append(written, Unescape(esc)), -1)
       ELSE Ret(Fail(u, "invalid escape"), <<>>)
     ELSE IF u.i + 4 > Size(p) \/ \E n \in 0..3 : hex[n] \notin HexDigit
     THEN Ret(Fail(u, "bad \\u escape"), <<>>)
     ELSE IF High(last) /\ Low(code)
     THEN StringLoop(Advance(u, 4), out \o EncodeUtf8(Combine(last, code)), -1)
     ELSE StringLoop(Advance(u, 4), written, code)

ParseString(p) == StringLoop(p, <<>>, -1)

\* The number the digits from a to b - 1 spell.
DigitsValue(p, a, b) ==
  FoldLeft(LAMBDA n, ch : 10 * n + (ch - 48), 0, SubSeq(p.str, a + 1, b))

\* atoi, for a text short enough, and strtod.
ParseNumber(p) ==
  LET start == p.i
      neg == Char(p) = MINUS
      int == IF neg THEN start + 1 ELSE start
      intEnd == IF CharAt(p, int) = 48 THEN int + 1 ELSE Past(p, int, Digit)
      frac == CharAt(p, intEnd) = DOT
      fracEnd == IF frac THEN Past(p, intEnd + 1, Digit) ELSE intEnd
      exp == CharAt(p, fracEnd) \in Exponent
      signed == exp /\ CharAt(p, fracEnd + 1) \in {PLUS, MINUS}
      expStart == fracEnd + (IF signed THEN 2 ELSE 1)
      expEnd == Past(p, expStart, Digit)
      Signed(n) == IF neg THEN -n ELSE n
      digits == DigitsValue(p, int, intEnd)
                  * 10^(IF frac THEN fracEnd - intEnd - 1 ELSE 0)
                + (IF frac THEN DigitsValue(p, intEnd + 1, fracEnd) ELSE 0)
      power == (IF ~exp THEN 0
                ELSE IF CharAt(p, fracEnd + 1) = MINUS
                THEN -DigitsValue(p, expStart, expEnd)
                ELSE DigitsValue(p, expStart, expEnd))
               - (IF frac THEN fracEnd - intEnd - 1 ELSE 0)
  IN IF CharAt(p, int) \notin Digit
     THEN Ret(Fail(MoveTo(p, int), "invalid number"), JNull)
     ELSE IF CharAt(p, int) = 48 /\ CharAt(p, intEnd) \in Digit
     THEN Ret(Fail(MoveTo(p, intEnd), "leading 0"), JNull)
     ELSE IF ~frac /\ CharAt(p, intEnd) \notin Exponent
             /\ intEnd - start <= IntDigits
     THEN Ret(MoveTo(p, intEnd), JInt(Signed(digits)))
     ELSE IF frac /\ fracEnd = intEnd + 1
     THEN Ret(Fail(MoveTo(p, fracEnd), "no digit in fraction"), JNull)
     ELSE IF exp /\ CharAt(p, expStart) \notin Digit
     THEN Ret(Fail(MoveTo(p, expStart), "no digit in exponent"), JNull)
     ELSE Ret(MoveTo(p, IF exp THEN expEnd ELSE fracEnd),
              JDouble(Signed(digits), power))

\* The word starts at the character that was just read.
Expect(p, word, res) ==
  IF /\ p.i - 1 + Len(word) <= Size(p)
     /\ SubSeq(p.str, p.i, p.i - 1 + Len(word)) = word
  THEN Ret(MoveTo(p, p.i - 1 + Len(word)), res)
  ELSE Ret(Fail(MoveTo(p, p.i - 1), "expected a word"), JNull)

-------------------------------------------------------------------------------
(* The parser: values *)

RECURSIVE ParseJson(_, _), ParseValue(_, _), ObjectLoop(_, _, _),
          ObjectKey(_, _, _), ObjectColon(_, _, _, _), ObjectValue(_, _, _, _),
          ObjectMore(_, _, _), ArrayLoop(_, _, _), ArrayValue(_, _, _),
          ArrayMore(_, _, _)

\* The loop over the members, from the token that is to start one; each step
\* has what was read last.
ObjectLoop(t, data, depth) ==
  IF t.r # QUOTE THEN Ret(Fail(t.p, "expected a key"), JNull)
  ELSE ObjectKey(ParseString(t.p), data, depth)
ObjectKey(key, data, depth) ==
  IF key.p.failed THEN Ret(key.p, JNull)
  ELSE ObjectColon(GetNextToken(key.p), key.r, data, depth)
ObjectColon(colon, key, data, depth) ==
  IF colon.r # COLON THEN Ret(Fail(colon.p, "expected :"), JNull)
  ELSE ObjectValue(ParseJson(colon.p, depth + 1), key, data, depth)
ObjectValue(val, key, data, depth) ==
  IF val.p.failed THEN Ret(val.p, JNull)
  ELSE ObjectMore(GetNextToken(val.p),
                  [k \in DOMAIN data \union {key} |->
                     IF k = key THEN val.r ELSE data[k]], depth)
ObjectMore(more, data, depth) ==
  IF more.r = RBRACE THEN Ret(more.p, JObject(data))
  ELSE IF more.r # COMMA THEN Ret(Fail(more.p, "expected ,"), JNull)
  ELSE ObjectLoop(GetNextToken(more.p), data, depth)

\* The token that starts an element has been read: step back.
ArrayLoop(t, data, depth) ==
  ArrayValue(ParseJson(MoveTo(t.p, t.p.i - 1), depth + 1), data, depth)
ArrayValue(val, data, depth) ==
  IF val.p.failed THEN Ret(val.p, JNull)
  ELSE ArrayMore(GetNextToken(val.p), Append(data, val.r), depth)
ArrayMore(more, data, depth) ==
  IF more.r = RBRACKET THEN Ret(more.p, JArray(data))
  ELSE IF more.r # COMMA THEN Ret(Fail(more.p, "expected ,"), JNull)
  ELSE ArrayLoop(GetNextToken(more.p), data, depth)

ParseObject(t, depth) ==
  IF t.r = RBRACE THEN Ret(t.p, JObject([k \in {} |-> 0]))
  ELSE ObjectLoop(t, [k \in {} |-> 0], depth)
ParseArray(t, depth) ==
  IF t.r = RBRACKET THEN Ret(t.p, JArray(<<>>)) ELSE ArrayLoop(t, <<>>, depth)

\* The value that starts with the token t.
ParseValue(t, depth) ==
  LET ch == t.r  q == t.p  str == ParseString(q)
  IN IF q.failed THEN Ret(q, JNull)
     ELSE IF ch = MINUS \/ ch \in Digit THEN ParseNumber(MoveTo(q, q.i - 1))
     ELSE IF ch = TRUEWORD[1] THEN Expect(q, TRUEWORD, JBool(TRUE))
     ELSE IF ch = FALSEWORD[1] THEN Expect(q, FALSEWORD, JBool(FALSE))
     ELSE IF ch = NULLWORD[1] THEN Expect(q, NULLWORD, JNull)
     ELSE IF ch = QUOTE THEN Ret(str.p, JString(str.r))
     ELSE IF ch = LBRACE THEN ParseObject(GetNextToken(q), depth)
     ELSE IF ch = LBRACKET THEN ParseArray(GetNextToken(q), depth)
     ELSE Ret(Fail(q, "expected a value"), JNull)

TooDeep(depth) == depth > MaxDepth

ParseJson(p, depth) ==
  IF TooDeep(depth) THEN Ret(Fail(p, "too deep"), JNull)
  ELSE ParseValue(GetNextToken(p), depth)

\* Nothing but a gap may follow the value v.
WholeText(v) == LET p == ConsumeGarbage(v.p) IN
  IF p.failed THEN Ret(p, JNull)
  ELSE IF p.i # Size(p) THEN Ret(Fail(p, "trailing"), JNull)
  ELSE Ret(p, v.r)

\* Json::parse, with the parser it leaves: failed is err being set.
Parse(text, comments) == WholeText(ParseJson(Parser(text, comments), 0))

RECURSIVE MultiLoop(_, _, _)

\* Mutant: the stop position is taken before the gap behind a value.
MultiNext_StopsEarly(v, q, values, stop) ==
  IF q.failed
  THEN [values |-> Append(values, v.r), stop |-> stop, p |-> q]
  ELSE MultiLoop(q, Append(values, v.r), v.p.i)

\* v has been read, and the gap behind it up to q.
MultiNext(v, q, values, stop) ==
  IF q.failed
  THEN [values |-> Append(values, v.r), stop |-> stop, p |-> q]
  ELSE MultiLoop(q, Append(values, v.r), q.i)

\* Json::parse_multi: the values, and where the last good one and what
\* follows it end.
MultiLoop(p, values, stop) ==
  IF p.i = Size(p) THEN [values |-> values, stop |-> stop, p |-> p]
  ELSE LET v == ParseJson(p, 0) IN
       MultiNext(v, ConsumeGarbage(v.p), values, stop)

ParseMulti(text, comments) == MultiLoop(Parser(text, comments), <<>>, 0)
===============================================================================
