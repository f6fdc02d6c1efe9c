-------------------------------- MODULE Report --------------------------------
(***************************************************************************)
(* The verifier's attestation report, lib/verifier/report.cpp: read from   *)
(* the bytes the security monitor wrote, printed as JSON, read from JSON   *)
(* again by the verifying side, and verified.                              *)
(*                                                                         *)
(* The names of the members are single letters in the order of the names.  *)
(* What printing and parsing do is left open here; MCReport takes Json11.  *)
(* A signature counts when it was issued for that key and that message, or *)
(* is another form of one that was: ed25519_verify does not reject all of  *)
(* them.                                                                   *)
(***************************************************************************)
EXTENDS JsonValues, SequencesExt

CONSTANTS
  JsonDump(_),      \* the JSON library's printer
  JsonParse(_, _),  \* its parser: a parser p and the value r it returned
  MDSIZE, PUBLIC_KEY_SIZE, SIGNATURE_SIZE, ATTEST_DATA_MAXLEN,
  WordSpan,   \* 2^64
  Genuine,        \* the reports the devices wrote
  DeviceKey,      \* the device's public key, which the verifier knows
  OtherForms(_),  \* what else ed25519_verify accepts in place of a signature
  OtherReports,   \* what a buffer may hold that no device wrote
  OtherTexts,     \* what may arrive in place of the text that was sent
  Noise,          \* bytes that damage puts into a text
  MaxDamage       \* number of changes to what is carried

ASSUME SizeAssumption ==
  /\ {MDSIZE, PUBLIC_KEY_SIZE, SIGNATURE_SIZE} \subseteq Nat \ {0, 1}
  /\ ATTEST_DATA_MAXLEN \in Nat /\ WordSpan \in Nat

VARIABLES
  report,   \* struct report_t of the verifier's Report object
  text,     \* the JSON on its way to the verifier
  damage,   \* changes made to it, or to the buffer the report came in
  origin,   \* the genuine report it comes from
  state,    \* "new", "loaded" or "thrown"
  verdict   \* "none" or what verify() returned

vars == <<report, text, damage, origin, state, verdict>>

-------------------------------------------------------------------------------
(* struct report_t.  The fields lie one behind the other; data_len, which    *)
(* precedes data, is kept apart.                                             *)

EnclaveHash == 0
EnclaveData == MDSIZE
EnclaveSignature == EnclaveData + ATTEST_DATA_MAXLEN
SmHash == EnclaveSignature + SIGNATURE_SIZE
SmKey == SmHash + MDSIZE
SmSignature == SmKey + PUBLIC_KEY_SIZE
DevKey == SmSignature + SIGNATURE_SIZE
SizeOfReport == DevKey + PUBLIC_KEY_SIZE

ASSUME GenuineAssumption == \A g \in Genuine :
  /\ g.data_len \in 0..ATTEST_DATA_MAXLEN
  /\ g.mem \in [0..(SizeOfReport - 1) -> 0..255]

\* Nothing bounds the length in another buffer.
ASSUME OthersAssumption == \A r \in OtherReports :
  r.data_len \in Nat /\ r.mem \in [0..(SizeOfReport - 1) -> 0..255]

\* The n bytes at offset at, those there are.
BytesAt(r, at, n) == [k \in 1..n |->
  IF at + k <= SizeOfReport THEN r.mem[at + k - 1] ELSE 0]

\* What the device and the security monitor sign.
SmMessage(r) == BytesAt(r, SmHash, MDSIZE + PUBLIC_KEY_SIZE)
EnclaveMessage(r) == <<BytesAt(r, EnclaveHash, MDSIZE), r.data_len,
                       BytesAt(r, EnclaveData, r.data_len)>>

Forms(sig) == {sig} \union OtherForms(sig)

IssuedBySm(key, message, sig) == \E g \in Genuine :
  /\ key = BytesAt(g, SmKey, PUBLIC_KEY_SIZE) /\ message = EnclaveMessage(g)
  /\ sig \in Forms(BytesAt(g, EnclaveSignature, SIGNATURE_SIZE))
IssuedByDevice(key, message, sig) == \E g \in Genuine :
  /\ key = DeviceKey /\ message = SmMessage(g)
  /\ sig \in Forms(BytesAt(g, SmSignature, SIGNATURE_SIZE))

\* The key a monitor signs with is its own: two reports with the same key are
\* of one monitor.  The device makes the key when it boots the monitor.
OneMonitorPerKey == \A g, h \in Genuine :
  BytesAt(g, SmKey, PUBLIC_KEY_SIZE) = BytesAt(h, SmKey, PUBLIC_KEY_SIZE) =>
    SmMessage(g) = SmMessage(h)

-------------------------------------------------------------------------------
(* Hexadecimal *)

HexDigits(n) == <<HexOf(n \div 16), HexOf(n % 16)>>
BytesToHex(bytes) ==
  [n \in 1..(2 * Len(bytes)) |->
     HexDigits(bytes[(n + 1) \div 2])[IF n % 2 = 1 THEN 1 ELSE 2]]

IsHex(ch) == ch \in HexDigit
Skipped == {9, 10, 11, 12, 13, 32}

\* `ss >> std::hex >> data` of at most two characters: blanks are skipped, a
\* sign is read, and what follows the digits is left in the stream.
HexByte(s) ==
  LET first == IF s # <<>> THEN s[1] ELSE NUL
      second == IF Len(s) > 1 THEN s[2] ELSE NUL
  IN CASE IsHex(first) /\ IsHex(second) -> HexValue(first) * 16
                                             + HexValue(second)
       [] IsHex(first) /\ ~IsHex(second) -> HexValue(first)
       [] first \in Skipped \union {PLUS} /\ IsHex(second) -> HexValue(second)
       [] first = MINUS /\ IsHex(second) -> (256 - HexValue(second)) % 256
       [] OTHER -> 0

\* The k-th two characters of a text; the last may be one or none.
Pair(hex, k) ==
  SubSeq(hex, 2 * k + 1, IF 2 * k + 2 > Len(hex) THEN Len(hex) ELSE 2 * k + 2)
Written(mem, at, n, hex) == [x \in DOMAIN mem |->
  IF x \in at..(at + n - 1) THEN HexByte(Pair(hex, x - at)) ELSE mem[x]]
Larger(a, b) == IF a > b THEN a ELSE b
Smaller(a, b) == IF a < b THEN a ELSE b

\* The report with n bytes from offset at read; top is the end of the writes.
Filled(r, at, n, hex) == [r EXCEPT !.mem = Written(r.mem, at, n, hex),
                                   !.top = Larger(at + n, r.top)]

\* len bytes are read, until the text has no more: substr throws only when it
\* begins behind the end.
There(hex) == Len(hex) \div 2 + 1
HexToBytes(r, at, len, hex) ==
  IF r.thrown THEN r
  ELSE [Filled(r, at, Smaller(len, There(hex)), hex)
          EXCEPT !.thrown = len > There(hex)]

-------------------------------------------------------------------------------
(* JSON *)

Name == [device_pubkey |-> <<100>>, enclave |-> <<101>>,
         security_monitor |-> <<109>>, data |-> <<97>>, datalen |-> <<98>>,
         hash |-> <<104>>, pubkey |-> <<107>>, signature |-> <<115>>,
         error |-> <<111>>]

Object(f) == JObject([k \in {Name[n] : n \in DOMAIN f} |->
  f[CHOOSE n \in DOMAIN f : Name[n] = k]])

Hex(r, at, n) == JString(BytesToHex(BytesAt(r, at, n)))

\* Mutant: the bytes of the data section are printed, not those in use.
ReportJson_AllData(r) ==
  Object([
    device_pubkey |-> Hex(r, DevKey, PUBLIC_KEY_SIZE),
    security_monitor |-> Object([
      hash |-> Hex(r, SmHash, MDSIZE),
      pubkey |-> Hex(r, SmKey, PUBLIC_KEY_SIZE),
      signature |-> Hex(r, SmSignature, SIGNATURE_SIZE)]),
    enclave |-> Object([
      hash |-> Hex(r, EnclaveHash, MDSIZE),
      datalen |-> JInt(ATTEST_DATA_MAXLEN),
      data |-> Hex(r, EnclaveData, ATTEST_DATA_MAXLEN),
      signature |-> Hex(r, EnclaveSignature, SIGNATURE_SIZE)])])

ReportJson(r) ==
  Object([
    device_pubkey |-> Hex(r, DevKey, PUBLIC_KEY_SIZE),
    security_monitor |-> Object([
      hash |-> Hex(r, SmHash, MDSIZE),
      pubkey |-> Hex(r, SmKey, PUBLIC_KEY_SIZE),
      signature |-> Hex(r, SmSignature, SIGNATURE_SIZE)]),
    enclave |-> Object([
      hash |-> Hex(r, EnclaveHash, MDSIZE),
      datalen |-> JInt(r.data_len),
      data |-> Hex(r, EnclaveData, r.data_len),
      signature |-> Hex(r, EnclaveSignature, SIGNATURE_SIZE)])])

\* stringfy()
Printed(r) ==
  IF r.data_len > ATTEST_DATA_MAXLEN
  THEN JsonDump(Object([error |-> JString(Name["error"])]))
  ELSE JsonDump(ReportJson(r))

SetDataLen(r, len) == IF r.thrown THEN r ELSE [r EXCEPT !.data_len = len]

\* A member that is missing is an empty string or a zero, and the length
\* becomes unsigned.
ReadJson(r, json) ==
  LET sm == Field(json, Name["security_monitor"])
      enclave == Field(json, Name["enclave"])
      Str(j, name) == StringValue(Field(j, Name[name]))
      n == IntValue(Field(enclave, Name["datalen"]))
      len == IF n < 0 THEN WordSpan + n ELSE n
      r1 == HexToBytes(r, DevKey, PUBLIC_KEY_SIZE, Str(json, "device_pubkey"))
      r2 == HexToBytes(r1, SmHash, MDSIZE, Str(sm, "hash"))
      r3 == HexToBytes(r2, SmKey, PUBLIC_KEY_SIZE, Str(sm, "pubkey"))
      r4 == HexToBytes(r3, SmSignature, SIGNATURE_SIZE, Str(sm, "signature"))
      r5 == HexToBytes(r4, EnclaveHash, MDSIZE, Str(enclave, "hash"))
      r6 == SetDataLen(r5, len)
      r7 == HexToBytes(r6, EnclaveData, len, Str(enclave, "data"))
  IN HexToBytes(r7, EnclaveSignature, SIGNATURE_SIZE, Str(enclave, "signature"))

\* fromJson(): the parser's error is not looked at.
Read(r, jsonstr) == ReadJson(r, JsonParse(jsonstr, FALSE).r)

-------------------------------------------------------------------------------
(* Verification *)

\* Mutant: the security monitor's own report is not verified.
CheckSignaturesOnly_NoSm(r, dev_public_key) ==
  IssuedBySm(BytesAt(r, SmKey, PUBLIC_KEY_SIZE), EnclaveMessage(r),
             BytesAt(r, EnclaveSignature, SIGNATURE_SIZE))

CheckSignaturesOnly(r, dev_public_key) ==
  /\ IssuedByDevice(dev_public_key, SmMessage(r),
                    BytesAt(r, SmSignature, SIGNATURE_SIZE))
  /\ IssuedBySm(BytesAt(r, SmKey, PUBLIC_KEY_SIZE), EnclaveMessage(r),
                BytesAt(r, EnclaveSignature, SIGNATURE_SIZE))

Verifies(r, enclave_hash, sm_hash, dev_public_key) ==
  /\ BytesAt(r, EnclaveHash, MDSIZE) = enclave_hash
  /\ BytesAt(r, SmHash, MDSIZE) = sm_hash
  /\ CheckSignaturesOnly(r, dev_public_key)

-------------------------------------------------------------------------------
(* The two sides *)

NoText == <<>>

Init ==
  /\ \E b \in {0, 255} : report = [data_len |-> 0, top |-> 0, thrown |-> FALSE,
                                   mem |-> [x \in 0..(SizeOfReport - 1) |-> b]]
  /\ text = NoText /\ damage = 0
  /\ origin \in Genuine
  /\ state = "new" /\ verdict = "none"

\* The bytes of a buffer are copied as they are, the length among them.
FromBytes == \E bin \in {origin} \union OtherReports :
  /\ state = "new"
  /\ bin = origin \/ damage < MaxDamage
  /\ damage' = IF bin = origin THEN damage ELSE damage + 1
  /\ report' = [report EXCEPT !.data_len = bin.data_len, !.mem = bin.mem]
  /\ state' = "loaded"
  /\ UNCHANGED <<text, origin, verdict>>

\* The report is printed and sent.
Stringfy ==
  /\ state = "loaded" /\ verdict # "none" /\ text = NoText
  /\ text' = Printed(report)
  /\ UNCHANGED <<report, damage, origin, state, verdict>>

\* On its way a byte is lost, added or changed, or another text takes its place.
Damage ==
  /\ text # NoText /\ damage < MaxDamage
  /\ \/ \E k \in DOMAIN text, b \in Noise : text' \in
          {RemoveAt(text, k), InsertAt(text, k, b), ReplaceAt(text, k, b)}
     \/ text' \in OtherTexts
  /\ damage' = damage + 1
  /\ UNCHANGED <<report, origin, state, verdict>>

\* The verifier reads it, into a new object or one used before.
FromJson == \E old \in {report.mem, [x \in DOMAIN report.mem |-> 0]} :
  /\ text # NoText /\ state = "loaded"
  /\ report' = Read([report EXCEPT !.mem = old], text)
  /\ state' = IF report'.thrown THEN "thrown" ELSE "loaded"
  /\ verdict' = "none"
  /\ text' = NoText
  /\ UNCHANGED <<damage, origin>>

\* verify() against the hashes the verifier expects and the device's key.
Verify ==
  /\ state = "loaded" /\ verdict = "none"
  /\ verdict' = IF Verifies(report, BytesAt(origin, EnclaveHash, MDSIZE),
                            BytesAt(origin, SmHash, MDSIZE), DeviceKey)
                THEN "valid" ELSE "invalid"
  /\ UNCHANGED <<report, text, damage, origin, state>>

Next == FromBytes \/ Stringfy \/ Damage \/ FromJson \/ Verify

Spec == Init /\ [][Next]_vars

-------------------------------------------------------------------------------
(* Properties *)

\* The same report, but for the device's key and for the data not in use.
Same(r, g) ==
  /\ r.data_len = g.data_len
  /\ \A x \in (0..(DevKey - 1)) \ ((EnclaveData + g.data_len)..
                                   (EnclaveSignature - 1)) :
       r.mem[x] = g.mem[x]

\* The bytes that are signed: the enclave's hash, length and data in use, and
\* the monitor's hash and key.
Signed(g) ==
  (0..(EnclaveData + g.data_len - 1)) \union (SmHash..(SmSignature - 1))
SaysTheSame(r, g) ==
  r.data_len = g.data_len /\ \A x \in Signed(g) : r.mem[x] = g.mem[x]

\* verify() accepts a report only when it says what a device and a monitor
\* signed together, about an enclave and a monitor with the hashes the verifier
\* expects, whatever the buffer held and whatever happened to the text: one
\* that was half read, or read leniently, is the report it was or is not valid.
VerifiesOnlyGenuine ==
  verdict = "valid" => \E g \in Genuine :
    /\ SaysTheSame(report, g)
    /\ BytesAt(g, EnclaveHash, MDSIZE) = BytesAt(origin, EnclaveHash, MDSIZE)
    /\ BytesAt(g, SmHash, MDSIZE) = BytesAt(origin, SmHash, MDSIZE)

\* A report that was printed, carried and read undamaged is the same report,
\* into a new object or a used one, and is valid on both sides.
ArrivesWhole ==
  damage = 0 =>
    /\ state # "thrown"
    /\ state = "loaded" => Same(report, origin)
    /\ verdict # "invalid"

\* What fromJson() writes and what verify() hashes lies in struct report_t,
\* which holds no more data than ATTEST_DATA_MAXLEN: stringfy() calls a larger
\* data_len an "invalid data length" (report.cpp:73-75).
StaysInStruct ==
  /\ report.top <= SizeOfReport
  /\ verdict # "none" => EnclaveData + report.data_len <= SizeOfReport
===============================================================================
