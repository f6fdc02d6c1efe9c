------------------------------- MODULE MCReport -------------------------------
(* Two security monitors of one device, and the reports of their enclaves,  *)
(* carried by the library's own printer and parser.                         *)
EXTENDS Report

CONSTANTS MaxDepth, IntDigits

Json == INSTANCE Json11

MCDump(json) == Json!Dump(json)
MCParse(text_, comments) == Json!Parse(text_, comments)

Made(len, bytes) ==
  [data_len |-> len, mem |-> [x \in 0..(Len(bytes) - 1) |-> bytes[x + 1]]]

\* hash, data, signature, then the monitor's hash, key, signature, device key
MCGenuine == {
  Made(0, <<10, 171, 0, 0, 161, 16, 18, 10, 7, 0, 33, 20, 15, 15>>),
  Made(1, <<10, 171, 16, 0, 162, 17, 18, 10, 7, 0, 33, 20, 15, 15>>),
  Made(2, <<10, 171, 16, 1, 163, 18, 18, 10, 7, 0, 33, 20, 15, 15>>),
  Made(2, <<10, 171, 16, 1, 164, 19, 19, 10, 8, 11, 34, 21, 15, 15>>)}

\* S + L in place of S: L is 32 in the last byte, where a change of one digit
\* reaches it.
MCOtherForms(sig) == {<<sig[1], sig[2] + 32>>}

\* Buffers of a monitor with more room for data, of which one length still ends
\* within the struct, one that nobody signed, and one of the other monitor, that
\* gives itself the first one's hash.
MCOtherReports ==
  {[g EXCEPT !.data_len = len] : g \in MCGenuine, len \in {3, 13}}
    \union {Made(2, <<10, 171, 16, 1, 0, 0, 18, 10, 7, 0, 0, 0, 15, 15>>),
            Made(2, <<10, 171, 16, 1, 164, 19, 18, 10, 8, 11, 34, 21, 15, 15>>)}

\* Texts of such reports, texts with members missing or of another type, and
\* texts of other reports.
Members(json) == {[json EXCEPT !.map = Restrict(@, S)] :
                    S \in SUBSET DOMAIN json.map}
MCOtherTexts == {MCDump(json) : json \in
  {ReportJson(r) : r \in MCGenuine \union MCOtherReports}
    \union UNION {Members(ReportJson(g)) : g \in MCGenuine}
    \union UNION {{JObject([ReportJson(g).map EXCEPT ![Name["enclave"]] = e]) :
                     e \in Members(ReportJson(g).map[Name["enclave"]])} :
                   g \in MCGenuine}
    \union {JNull}}

MCNoise == {QUOTE, COMMA, BACKSLASH, SPACE, MINUS, RBRACE, 48, 49, 51, 97}
MCDeviceKey == <<15, 15>>

ASSUME MonitorAssumption == OneMonitorPerKey

\* The library reads back what it printed of a report (ParserReadsBack).
ASSUME ParserAssumption ==
  \A len \in 0..ATTEST_DATA_MAXLEN, b \in [0..3 -> {0, 10, 127, 255}] :
    LET json == ReportJson([data_len |-> len,
                            mem |-> [x \in 0..(SizeOfReport - 1) |-> b[x % 4]]])
    IN  JsonParse(JsonDump(json), FALSE).r = json
===============================================================================
