------------------------------ MODULE JsonGrammar ------------------------------
(***************************************************************************)
(* What json11.h promises of a text, stated without a parser: the grammar  *)
(* of RFC 7159, and of the comments of JsonParse::COMMENTS, as predicates  *)
(* on whole texts.                                                         *)
(***************************************************************************)
EXTENDS Json11

\* The bytes of s behind the first a, up to b.
Part(s, a, b) == SubSeq(s, a + 1, b)
From(s, a) == Part(s, a, Len(s))
Splits(s) == {<<a, b>> \in (0..Len(s)) \X (0..Len(s)) : a <= b}

Over(s, S) == \A n \in DOMAIN s : s[n] \in S

IsDigits(s) == s # <<>> /\ Over(s, Digit)
IsFraction(s) == s = <<>> \/ (s[1] = DOT /\ IsDigits(Tail(s)))
IsExponent(s) ==
  \/ s = <<>>
  \/ /\ s[1] \in Exponent
     /\ \/ IsDigits(Tail(s))
        \/ Len(s) > 1 /\ s[2] \in {PLUS, MINUS} /\ IsDigits(From(s, 2))
IsUnsigned(s) == \E x \in Splits(s) :
  /\ IsDigits(Part(s, 0, x[1]))
  /\ s[1] = 48 => x[1] = 1
  /\ IsFraction(Part(s, x[1], x[2]))
  /\ IsExponent(From(s, x[2]))
IsNumber(s) == s # <<>> /\
  IsUnsigned(IF s[1] = MINUS THEN Tail(s) ELSE s)

RECURSIVE IsCharacters(_)
IsCharacters(s) ==
  \/ s = <<>>
  \/ /\ s[1] \notin (0..31) \union {QUOTE, BACKSLASH}
     /\ IsCharacters(Tail(s))
  \/ /\ Len(s) >= 2 /\ s[1] = BACKSLASH /\ s[2] \in Escapes
     /\ IsCharacters(From(s, 2))
  \/ /\ Len(s) >= 6 /\ s[1] = BACKSLASH /\ s[2] = 117
     /\ Over(Part(s, 2, 6), HexDigit)
     /\ IsCharacters(From(s, 6))
IsString(s) ==
  /\ Len(s) >= 2 /\ s[1] = QUOTE /\ s[Len(s)] = QUOTE
  /\ IsCharacters(Part(s, 1, Len(s) - 1))

\* A comment in a block ends at the first end there is.
IsBlockComment(s) ==
  LET n == Len(s) IN
  /\ n >= 4 /\ Part(s, 0, 2) = <<SLASH, STAR>>
  /\ Part(s, n - 2, n) = <<STAR, SLASH>>
  /\ \A k \in 3..(n - 2) : ~(s[k] = STAR /\ s[k + 1] = SLASH)
IsLineComment(s) ==
  /\ Len(s) >= 2 /\ Part(s, 0, 2) = <<SLASH, SLASH>>
  /\ \A k \in DOMAIN s : s[k] # NEWLINE

\* What may stand between tokens; a comment on a line ends with its line,
\* the last one perhaps with the text.
RECURSIVE IsGap(_, _, _)
IsGap(s, comments, last) ==
  \/ s = <<>>
  \/ s[1] \in Blank /\ IsGap(Tail(s), comments, last)
  \/ comments /\ \E k \in DOMAIN s :
       /\ \/ IsBlockComment(Part(s, 0, k))
          \/ /\ IsLineComment(Part(s, 0, k))
             /\ IF k < Len(s) THEN s[k + 1] = NEWLINE ELSE last
       /\ IsGap(From(s, k), comments, last)

\* s is f's text with gaps on both sides.
Padded(s, comments, f(_)) == \E x \in Splits(s) :
  /\ IsGap(Part(s, 0, x[1]), comments, FALSE)
  /\ IsGap(From(s, x[2]), comments, FALSE)
  /\ f(Part(s, x[1], x[2]))

RECURSIVE IsValue(_, _, _), IsElements(_, _, _), IsMembers(_, _, _)
IsValue(s, comments, depth) ==
  LET inner == Part(s, 1, Len(s) - 1)
      empty == IsGap(inner, comments, FALSE)
  IN
  /\ depth <= MaxDepth
  /\ \/ s \in {TRUEWORD, FALSEWORD, NULLWORD}
     \/ IsNumber(s)
     \/ IsString(s)
     \/ /\ Len(s) >= 2 /\ s[1] = LBRACKET /\ s[Len(s)] = RBRACKET
        /\ empty \/ IsElements(inner, comments, depth + 1)
     \/ /\ Len(s) >= 2 /\ s[1] = LBRACE /\ s[Len(s)] = RBRACE
        /\ empty \/ IsMembers(inner, comments, depth + 1)
IsElements(s, comments, depth) ==
  LET V(x) == IsValue(x, comments, depth) IN
  \/ Padded(s, comments, V)
  \/ \E k \in {n \in DOMAIN s : s[n] = COMMA} :
       /\ Padded(Part(s, 0, k - 1), comments, V)
       /\ IsElements(From(s, k), comments, depth)
IsMembers(s, comments, depth) ==
  LET V(x) == IsValue(x, comments, depth)
      Member(x) == \E k \in {n \in DOMAIN x : x[n] = COLON} :
        /\ Padded(Part(x, 0, k - 1), comments, IsString)
        /\ Padded(From(x, k), comments, V)
  IN \/ Member(s)
     \/ \E k \in {n \in DOMAIN s : s[n] = COMMA} :
          /\ Member(Part(s, 0, k - 1))
          /\ IsMembers(From(s, k), comments, depth)

IsDocument(s, comments) == \E x \in Splits(s) :
  /\ IsGap(Part(s, 0, x[1]), comments, FALSE)
  /\ IsGap(From(s, x[2]), comments, TRUE)
  /\ IsValue(Part(s, x[1], x[2]), comments, 0)
===============================================================================
