----------------------------- MODULE OcallService -----------------------------
(***************************************************************************)
(* What the host promises the code inside an enclave: an ocall made while  *)
(* the host has a dispatch function is answered exactly once before the    *)
(* enclave runs again, and whatever else stops the enclave is invisible to *)
(* it.  This is the contract that ocall() in lib/app/src/syscall.c relies  *)
(* on and that Keystone::run implements.                                   *)
(***************************************************************************)
CONSTANT Enclave

VARIABLES
  phase,    \* what the code inside each enclave is doing
  handled   \* whether the host has a dispatch function for the enclave

Init == /\ phase = [e \in Enclave |-> "off"]
        /\ handled \in [Enclave -> BOOLEAN]

Step(e, from, to) == /\ phase[e] = from
                     /\ phase' = [phase EXCEPT ![e] = to]

Start(e) == Step(e, "off", "computing")

Call(e) == Step(e, "computing", "calling")

Answer(e) == handled[e] /\ Step(e, "calling", "answered")

Continue(e) == Step(e, "answered", "computing")

\* Without a dispatch function the call is dropped.
Drop(e) == ~handled[e] /\ Step(e, "calling", "computing")

Finish(e) == Step(e, "computing", "off")

\* Losing the enclave is visible; it can never be a way to answer a call.
Lose(e) == /\ phase[e] # "off"
           /\ phase' = [phase EXCEPT ![e] = "off"]

\* The host may change its dispatch function between runs only.
SetHandler == /\ \A e \in Enclave : handled'[e] # handled[e] => phase[e] = "off"
              /\ UNCHANGED phase

Work(e) == \/ Start(e) \/ Call(e) \/ Answer(e) \/ Continue(e) \/ Drop(e)
           \/ Finish(e) \/ Lose(e)

Next == \/ (\E e \in Enclave : Work(e)) /\ UNCHANGED handled
        \/ SetHandler

Spec == Init /\ [][Next]_<<phase, handled>>
===============================================================================
