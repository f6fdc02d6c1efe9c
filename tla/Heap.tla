--------------------------------- MODULE Heap ---------------------------------
(***************************************************************************)
(* What the comment at the head of lib/app/src/tiny-malloc.c promises the  *)
(* client of malloc, free and realloc: every chunk is at a place of its    *)
(* own, holds what the client stored in it, and changes only when its      *)
(* owner asks; realloc keeps the bytes both sizes have.  A request may     *)
(* always fail, and then nothing changes.                                  *)
(***************************************************************************)
EXTENDS Integers

CONSTANTS
  Chunk,   \* what the client keeps in memory, one chunk each
  Null     \* the null pointer

VARIABLES
  place,   \* the address of each chunk, or Null
  bytes    \* what each chunk holds: a function on 0..(length - 1)

vars == <<place, bytes>>

Extent(a, content) == {a + i : i \in DOMAIN content}

Nothing == [i \in {} |-> i]

Init ==
  /\ place = [c \in Chunk |-> Null]
  /\ bytes = [c \in Chunk |-> Nothing]

OthersUntouched(c) == \A d \in Chunk \ {c} :
  /\ place'[d] = place[d]
  /\ bytes'[d] = bytes[d]

\* c's memory is c's own.
OwnPlace(c) == \A d \in Chunk \ {c} : place[d] # Null =>
  /\ place'[c] # place[d]
  /\ Extent(place'[c], bytes'[c]) \intersect Extent(place[d], bytes[d]) = {}

Alloc(c) ==
  /\ place[c] = Null /\ place'[c] # Null
  /\ OwnPlace(c) /\ OthersUntouched(c)

Free(c) ==
  /\ place[c] # Null /\ place'[c] = Null
  /\ bytes'[c] = Nothing
  /\ OthersUntouched(c)

Realloc(c) ==
  /\ place[c] # Null /\ place'[c] # Null
  /\ \A i \in DOMAIN bytes[c] \intersect DOMAIN bytes'[c] :
       bytes'[c][i] = bytes[c][i]
  /\ OwnPlace(c) /\ OthersUntouched(c)

Next == \E c \in Chunk : Alloc(c) \/ Free(c) \/ Realloc(c)

Spec == Init /\ [][Next]_vars
===============================================================================
