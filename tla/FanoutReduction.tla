--------------------------- MODULE FanoutReduction ---------------------------
(***************************************************************************)
(* What the fan-out of one execution promises: the tasks that were fanned  *)
(* out settle, in any order and never back, and when all of them have the  *)
(* reducer commits, at most once.                                          *)
(***************************************************************************)
CONSTANT Ids        \* tasks an execution can have

VARIABLES
  members,    \* the tasks of this execution
  settled,    \* those known to be settled
  reduced     \* has the reducer committed?

Init ==
  /\ members \subseteq Ids
  /\ settled = {}
  /\ reduced = FALSE

\* several at once when the chain is published late or a request cancels them
Settle ==
  /\ settled' \in SUBSET members
  /\ settled \subseteq settled'
  /\ UNCHANGED <<members, reduced>>

Reduce ==
  /\ ~reduced
  /\ settled = members
  /\ reduced' = TRUE
  /\ UNCHANGED <<members, settled>>

Next == Settle \/ Reduce

Spec == Init /\ [][Next]_<<members, settled, reduced>>

=============================================================================
