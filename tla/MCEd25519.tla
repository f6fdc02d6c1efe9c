----------------------------- MODULE MCEd25519 -----------------------------
EXTENDS Ed25519

Unit(i, n) == [Fe0 EXCEPT ![i] = n]
MCElements ==
  {Unit(i, n) : i \in Limb, n \in {1, -3}} \union
  {[i \in Limb |-> IF i % 2 = 0 THEN 4 ELSE 2],
   [i \in Limb |-> IF i % 2 = 0 THEN -4 ELSE -2],
   [i \in Limb |-> IF i % 3 = 0 THEN 4 ELSE -1],
   Fe0}
MCLoaded == {2^k : k \in 0..25} \union {2^k - 1 : k \in 1..26}
              \union {2^26 - 1 - 2^k : k \in 0..25} \union {Prime - 1, Prime}
MCWorth ==
  [i \in Limb |-> 2^(<<0, 3, 5, 8, 10, 13, 15, 18, 20, 23>>[i + 1])]
MCCut == [i \in Limb |-> 2^(<<0, 4, 6, 8, 11, 13, 15, 18, 20, 23>>[i + 1])]

Digits(n, top) ==
  {[k \in 1..n |-> IF k = n THEN top ELSE 3], [k \in 1..n |-> 0],
   [k \in 1..n |-> IF k = n THEN 0 ELSE k % 4],
   [k \in 1..n |-> IF k = n THEN top ELSE 0]} \union
  {[k \in 1..n |-> IF k = j THEN 3 ELSE 0] : j \in 1..n}
MCScalars == Digits(12, 5)
MCWideScalars ==
  Digits(24, 31) \union
  {[k \in 1..24 |-> IF k \in {i, j} THEN 3 ELSE IF k < i THEN 1 ELSE 0] :
     i \in 1..23, j \in 1..24}
MCScWorth == [i \in 0..11 |-> 4^i]
MCDelta == <<1, 1, 1, -2, 0, -1>>

MCHash(x) ==
  CASE x[1] = "seed" -> x[2] * 30011 + 4051
    [] x[1] = "nonce" -> x[2] * 31 + x[3] * 57 + 11
    [] x[1] = "hram" -> x[2].y * 5 + x[2].sign * 3 + x[3].y * 7 + x[3].sign
                          + x[4] * 17
MCOtherKeys == {[y |-> 1, sign |-> 0], [y |-> 1022, sign |-> 1],
                [y |-> 1020, sign |-> 0], [y |-> 2, sign |-> 0],
                [y |-> 7, sign |-> 1], [y |-> BaseY, sign |-> 1]}
MCOtherScalars == {0, 130, 2047, 5461, 7777, 8191, 8192, 16000}
=============================================================================
