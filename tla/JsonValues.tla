------------------------------ MODULE JsonValues ------------------------------
(***************************************************************************)
(* The values of the verifier's JSON library, lib/verifier/json11.cpp, and *)
(* how a program looks into them.                                          *)
(*                                                                         *)
(* A value is a record of its type and its content; a number's content is  *)
(* the decimal m * 10^e, with no zero at the end of m, and whether it is   *)
(* held as an int (the 53 bits of a double are not modelled).              *)
(***************************************************************************)
EXTENDS Integers, Sequences

NUL == 0       TAB == 9       NEWLINE == 10  RETURN == 13   SPACE == 32
QUOTE == 34    STAR == 42     PLUS == 43     COMMA == 44    MINUS == 45
DOT == 46      SLASH == 47    COLON == 58    LBRACKET == 91 BACKSLASH == 92
RBRACKET == 93 LBRACE == 123  RBRACE == 125
Digit == 48..57
HexDigit == Digit \union (65..70) \union (97..102)
Blank == {SPACE, RETURN, NEWLINE, TAB}
Exponent == {69, 101}
TRUEWORD == <<116, 114, 117, 101>>
FALSEWORD == <<102, 97, 108, 115, 101>>
NULLWORD == <<110, 117, 108, 108>>

-------------------------------------------------------------------------------
(* Values *)

JNull == [type |-> "NUL"]
JBool(b) == [type |-> "BOOL", bool |-> b]
JString(s) == [type |-> "STRING", str |-> s]
JArray(s) == [type |-> "ARRAY", items |-> s]
JObject(f) == [type |-> "OBJECT", map |-> f]
JInt(n) == [type |-> "NUMBER", int |-> TRUE, m |-> n, e |-> 0]
JDouble(n, exp) == [type |-> "NUMBER", int |-> FALSE, m |-> n, e |-> exp]

Sign(n) == IF n < 0 THEN -1 ELSE IF n = 0 THEN 0 ELSE 1
Abs(n) == IF n < 0 THEN -n ELSE n

\* The accessors give a default for the wrong type.
StringValue(j) == IF j.type = "STRING" THEN j.str ELSE <<>>
ObjectItems(j) == IF j.type = "OBJECT" THEN j.map ELSE [k \in {} |-> 0]
IntValue(j) ==
  IF j.type # "NUMBER" THEN 0
  ELSE IF j.int THEN j.m
  ELSE IF j.e >= 0 THEN j.m * 10^j.e
  ELSE Sign(j.m) * (Abs(j.m) \div 10^(-j.e))

Field(j, key) ==
  IF key \in DOMAIN ObjectItems(j) THEN j.map[key] ELSE JNull

-------------------------------------------------------------------------------
(* Hexadecimal digits *)

HexOf(n) == IF n < 10 THEN 48 + n ELSE 87 + n

HexValue(ch) == IF ch <= 57 THEN ch - 48 ELSE (ch % 32) + 9
===============================================================================
