--------------------------------- MODULE MCEdge --------------------------------
\* Instances of EdgeCall for TLC: words of five bits, a table of ten entries.
EXTENDS EdgeCall

\* The host's buffer is shorter than the enclave's, or ends at the last word.
SmallBuffers ==
  {[host |-> [start |-> 8, len |-> 16], enclave |-> [start |-> 3, len |-> 20]],
   [host |-> [start |-> 15, len |-> 16], enclave |-> [start |-> 0, len |-> 16]]}

\* Id 0 has no handler; the last entry of the table has one.
Handlers ==
  [id \in 1..9 |->
     CASE id = 1 -> "print_buffer" [] id = 2 -> "print_value"
       [] id = 3 -> "call_exit"    [] id = 4 -> "get_string"
       [] id = 5 -> "full_trace"   [] id = 6 -> "insert_page"
       [] id = 7 -> "find_page"    [] id = 8 -> "fetch_page"
       [] id = 9 -> "store_page"]
===============================================================================
