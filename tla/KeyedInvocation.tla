--------------------------- MODULE KeyedInvocation ---------------------------
(***************************************************************************)
(* What an idempotency key promises: at most one call owns it at a time,   *)
(* the owner alone reaches adapters, within its budget and before it is on *)
(* record, and once it is on record it owns the key for good and every     *)
(* later call is answered with it.                                         *)
(***************************************************************************)
EXTENDS Naturals

CONSTANTS
  Calls,      \* the calls that name a key
  Keys,
  KeyOf,      \* the key each call names
  Budget      \* how often each may reach an adapter

VARIABLES
  owners,     \* per key: the call that owns it, if any
  recorded,   \* the calls on record
  reached,    \* per call: how often it has reached an adapter
  answered    \* the calls answered with the one on record

Owns(i) == owners[KeyOf[i]] = {i}

Init ==
  /\ owners = [k \in Keys |-> {}]
  /\ recorded = {} /\ answered = {}
  /\ reached = [i \in Calls |-> 0]

Take(i) ==
  /\ owners[KeyOf[i]] = {} /\ i \notin answered
  /\ owners' = [owners EXCEPT ![KeyOf[i]] = {i}]
  /\ UNCHANGED <<recorded, reached, answered>>

Reach(i) ==
  /\ Owns(i) /\ i \notin recorded /\ reached[i] < Budget[i]
  /\ reached' = [reached EXCEPT ![i] = @ + 1]
  /\ UNCHANGED <<owners, recorded, answered>>

Record(i) ==
  /\ Owns(i) /\ i \notin recorded
  /\ recorded' = recorded \cup {i}
  /\ UNCHANGED <<owners, reached, answered>>

\* several at once when the process they run in dies
GiveUp ==
  /\ \E S \in SUBSET Keys :
       /\ \A k \in S : owners[k] \cap recorded = {}
       /\ owners' = [k \in Keys |-> IF k \in S THEN {} ELSE owners[k]]
  /\ UNCHANGED <<recorded, reached, answered>>

Answer(i) ==
  /\ ~Owns(i) /\ owners[KeyOf[i]] \cap recorded # {}
  /\ answered' = answered \cup {i}
  /\ UNCHANGED <<owners, recorded, reached>>

Next == GiveUp \/ \E i \in Calls : Take(i) \/ Reach(i) \/ Record(i) \/ Answer(i)

Spec == Init /\ [][Next]_<<owners, recorded, reached, answered>>
=============================================================================
