-------------------------------- MODULE MCHost --------------------------------
(* KeystoneHost on small sets of objects and enclave ids. *)
EXTENDS KeystoneHost

CONSTANTS k1, k2, e1, e2

\* The first object may be initialised again, the other once.
FirstTwice == [o \in Obj |-> IF o = k1 THEN 2 ELSE 1]

OnceEach == [o \in Obj |-> 1]
===============================================================================
