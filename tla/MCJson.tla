-------------------------------- MODULE MCJson --------------------------------
(* Small texts and values for JsonTexts. *)
EXTENDS JsonTexts

Bytes(S) == {<<b>> : b \in S}
U(a, b, c, d) == <<BACKSLASH, 117, a, b, c, d>>

Families == {"numbers", "strings", "escapes", "structures", "comments",
             "behind", "words"}

FamilyOpening == [f \in Families |->
  CASE f \in {"strings", "escapes"} -> <<QUOTE>>
    [] f = "comments" -> <<SLASH>> [] f = "behind" -> <<49>> [] OTHER -> <<>>]

FamilyPieces == [f \in Families |->
  CASE f = "numbers" -> Bytes({MINUS, PLUS, DOT, 48, 49, 101})
    [] f = "strings" -> Bytes({QUOTE, BACKSLASH, 117, 110, 48, 10, 195})
    [] f = "escapes" -> {U(100, 56, 48, 49), U(68, 67, 48, 50),
                         U(50, 48, 50, 56), U(48, 48, 103, 48),
                         U(48, 48, 69, 57), <<97>>, <<BACKSLASH, 110>>,
                         <<226, 128, 169>>, <<QUOTE>>, <<QUOTE, SPACE>>}
    [] f = "structures" -> {<<LBRACKET>>, <<RBRACKET>>, <<LBRACE>>,
                            <<RBRACE>>, <<COMMA>>, <<COLON>>,
                            <<QUOTE, 97, QUOTE>>}
    [] f \in {"comments", "behind"} ->
         Bytes({SLASH, STAR, NEWLINE, 49, LBRACKET, RBRACKET})
    [] f = "words" -> {TRUEWORD, FALSEWORD, NULLWORD, <<116, 114>>,
                       <<110, 117>>, <<COMMA>>, <<LBRACKET>>, <<RBRACKET>>}]

FamilyMax == [f \in Families |->
  CASE f \in {"numbers", "structures", "comments", "behind"} -> 5
    [] OTHER -> 4]

Str(s) == JString(s)
A == <<97>>  B == <<97, 98>>
MCValues ==
  {JNull, JBool(FALSE), JBool(TRUE), JInt(0), JInt(10), JInt(-7),
   JDouble(1, 1), JDouble(25, -1), JDouble(-7, 2),
   Str(<<>>), Str(A), Str(B), Str(<<QUOTE, BACKSLASH, SLASH>>),
   Str(<<8, 12, 10, 13, 9, 1, 31, 127>>), Str(<<226, 128, 168>>),
   Str(<<226, 128>>), Str(<<195, 169, 0>>),
   JArray(<<>>), JArray(<<JInt(1)>>), JArray(<<JInt(1), JNull>>),
   JArray(<<JNull, Str(A)>>),
   JObject([k \in {} |-> 0]), JObject([k \in {A} |-> JInt(1)]),
   JObject([k \in {A, B} |-> JInt(1)]), JObject([k \in {B} |-> JNull]),
   JObject([k \in {A, <<QUOTE>>} |-> JArray(<<JBool(TRUE)>>)])}
===============================================================================
