----------------------------- MODULE TensorGraph -----------------------------
(***************************************************************************)
(* What a transformer trace promises to who reads it from its first record *)
(* to its last: an operation finds the tensors it takes given or made, the *)
(* operations it depends on performed, and no operation comes twice.       *)
(***************************************************************************)
CONSTANT Given(_)    \* the tensors that are there from the beginning

VARIABLES
  current,     \* the operation performed last
  performed,   \* the identities of all that were performed
  made         \* the tensors they made

Init == performed = {} /\ made = {}

Perform ==
  /\ current'.record_id \notin performed
  /\ current'.logical_dependencies \subseteq performed
  /\ \A t \in current'.inputs : Given(t) \/ t \in made
  /\ performed' = performed \cup {current'.record_id}
  /\ made \cup current'.outputs \subseteq made'

Spec == Init /\ [][Perform]_<<current, performed, made>>
=============================================================================
