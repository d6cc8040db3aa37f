--------------------------- MODULE EnforcedVersion ---------------------------
(***************************************************************************)
(* What the bindings of a gate policy promise: at every time one version   *)
(* is in force, or none before the first change; a change takes effect     *)
(* from the present on and rewrites nothing of the past; and it is made    *)
(* for one request, at most once, and only while the change that the       *)
(* request wants replaced is the last one.                                 *)
(***************************************************************************)
EXTENDS Naturals

CONSTANTS
  Times,      \* the times asked about
  Versions,   \* what can be in force
  Ids         \* names of requests

VARIABLES
  clock,
  changes,    \* how many changes have been made
  inForce,    \* per time: the changes in force, each with its version
  asked,      \* the names used so far
  requests    \* requests that wait for a decision

Nothing == [t \in Times |-> {}]
From(now, change, before) == [t \in Times |-> IF t < now THEN before[t] ELSE {change}]

Init ==
  /\ clock = 0
  /\ asked = {} /\ requests = {}
  /\ \/ changes = 0 /\ inForce = Nothing
     \/ changes = 1 /\ \E v \in Versions : inForce = From(0, <<1, v>>, Nothing)

Pass ==
  /\ clock' = clock + 1
  /\ UNCHANGED <<changes, inForce, asked, requests>>

Ask ==
  /\ \E id \in Ids \ asked, v \in Versions, n \in 0 .. changes :
       /\ asked' = asked \cup {id}
       /\ requests' = requests \cup {[id |-> id, version |-> v, expected |-> n]}
  /\ UNCHANGED <<clock, changes, inForce>>

Withdraw ==
  /\ \E r \in requests : requests' = requests \ {r}
  /\ UNCHANGED <<clock, changes, inForce, asked>>

Change ==
  /\ \E r \in requests :
       /\ r.expected = changes
       /\ inForce' = From(clock, <<changes + 1, r.version>>, inForce)
       /\ requests' = requests \ {r}
  /\ changes' = changes + 1
  /\ UNCHANGED <<clock, asked>>

Next == Pass \/ Ask \/ Withdraw \/ Change

Spec == Init /\ [][Next]_<<clock, changes, inForce, asked, requests>>
=============================================================================
