---------------------------- MODULE InputOutcome ----------------------------
(***************************************************************************)
(* What `PtySession::write_input` promises the desktop about each call     *)
(* (crates/session-service/src/pty.rs, InputDeliveryError): it answers at  *)
(* most once, "delivered" only for bytes that reached the terminal whole,  *)
(* and "definitely unsent" only for bytes of which none ever reaches it.   *)
(* An "indeterminate" call promises nothing; its bytes may still arrive.   *)
(***************************************************************************)
CONSTANT Calls

VARIABLES answer,  \* the answer of each call, "none" before it
          effect   \* what reached the terminal of each call

Init == answer = [c \in Calls |-> "none"] /\ effect = [c \in Calls |-> "none"]

Reach(c, how) ==
  /\ effect[c] = "none" /\ answer[c] \in {"none", "indeterminate"}
  /\ effect' = [effect EXCEPT ![c] = how]
  /\ UNCHANGED answer

Answer(c, result) ==
  /\ answer[c] = "none"
  /\ result = "delivered" => effect[c] = "whole"
  /\ result = "unsent" => effect[c] = "none"
  /\ answer' = [answer EXCEPT ![c] = result]
  /\ UNCHANGED effect

Next == \E c \in Calls :
  \/ \E how \in {"whole", "part"} : Reach(c, how)
  \/ \E result \in {"delivered", "unsent", "indeterminate"} : Answer(c, result)

Spec == Init /\ [][Next]_<<answer, effect>>
=============================================================================
