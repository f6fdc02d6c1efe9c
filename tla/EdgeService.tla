------------------------------ MODULE EdgeService ------------------------------
(***************************************************************************)
(* What the code in an enclave may rely on when it makes an edge call: the *)
(* host's function for that call is applied once, to the arguments of that *)
(* call, and its result is what the caller sees.  Nothing is said of a     *)
(* shared buffer, offsets, tables or status words.                         *)
(***************************************************************************)
EXTENDS Integers

CONSTANT Page   \* pages the enclave keeps in the host's page stores

VARIABLES
  call,     \* the call being served, or NoCall
  answer,   \* what the caller sees of it, or NoAnswer
  pages,    \* the array page store: a version for each page, 0 for none
  kept      \* the map page store, which keeps what was put first

NoCall == [to |-> "none"]
NoAnswer == [kind |-> "none"]
Gone == [kind |-> "gone"]          \* the host process is no more
Failed == [kind |-> "failed"]
Done == [kind |-> "done"]
Garbage == [kind |-> "garbage"]
Text == [kind |-> "text"]
Number(n) == [kind |-> "number", n |-> n]
Content(p, v) == [kind |-> "page", page |-> p, ver |-> v]
FileBytes(n) == [kind |-> "file", n |-> n]

\* The answers to a call whose arguments the host can see.
Answers(c) ==
  CASE c.to = "print_value" -> {Done}
    [] c.to = "print_buffer" -> {Number(c.arg.n)}
    [] c.to = "get_string" -> {Text}
    [] c.to = "store_page" -> {Number(1)}
    [] c.to = "insert_page" -> {Done}
    [] c.to = "fetch_page" ->
         IF pages[c.arg.page] = 0 THEN {Garbage}
         ELSE {Content(c.arg.page, pages[c.arg.page])}
    [] c.to = "find_page" ->
         IF kept[c.arg.page] = 0 THEN {Garbage, Gone}
         ELSE {Content(c.arg.page, kept[c.arg.page])}
    [] c.to = "full_trace" -> {Done, Failed}
    [] c.to = "call_exit" -> {Gone}
    [] c.to = "read" -> {FileBytes(c.arg.n)}
    [] c.to = "sync" -> {Number(0)}
    [] c.to = "other syscall" -> {Failed}
    [] c.to = "nobody" -> {Failed}
    [] c.to = "behind the table" -> {Failed, Gone}

Init ==
  /\ call = NoCall /\ answer = NoAnswer
  /\ pages = [p \in Page |-> 0] /\ kept = [p \in Page |-> 0]

\* The enclave makes a call.
Ask ==
  /\ call = NoCall
  /\ call' # NoCall
  /\ UNCHANGED <<answer, pages, kept>>

\* The host refuses arguments that do not fit its side of the buffer.
Refuse ==
  /\ call # NoCall /\ answer = NoAnswer /\ ~call.fits
  /\ answer' = Failed
  /\ UNCHANGED <<call, pages, kept>>

\* The function is applied to the arguments.
Serve ==
  /\ call # NoCall /\ answer = NoAnswer /\ call.fits
  /\ answer' \in Answers(call)
  /\ pages' = IF call.to = "store_page"
                THEN [pages EXCEPT ![call.arg.page] = call.arg.ver] ELSE pages
  /\ kept' = IF call.to = "insert_page" /\ kept[call.arg.page] = 0
               THEN [kept EXCEPT ![call.arg.page] = call.arg.ver] ELSE kept
  /\ UNCHANGED call

\* The caller goes on with the answer.
Take ==
  /\ answer \notin {NoAnswer, Gone}
  /\ call' = NoCall /\ answer' = NoAnswer
  /\ UNCHANGED <<pages, kept>>

Next == Ask \/ Refuse \/ Serve \/ Take

Spec == Init /\ [][Next]_<<call, answer, pages, kept>>
================================================================================
