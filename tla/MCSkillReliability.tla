-------------------------- MODULE MCSkillReliability --------------------------
(* Model-checking instances of SkillReliability.  c1 may be retried and fall *)
(* back on the adapter that c3, a call of another extension point, resolves  *)
(* to; c2 is an external write through the adapter of c1.  c1 and c3 share   *)
(* an idempotency key, c2 and c3 a quota scope.  In SkillSafety w2 is w1.    *)
EXTENDS SkillReliability, TLC

CONSTANTS c1, c2, c3, w1, w2, a1, a2, project, tenant, key

Policy(externalWrite, skillCalls, modelCalls) ==
  [mutation |-> FALSE, externalWrite |-> externalWrite, idempotent |-> TRUE, lowRisk |-> TRUE,
   skillCalls |-> skillCalls, modelCalls |-> modelCalls, reconciles |-> ~externalWrite]

Of3(x1, x2, x3) == [c \in Calls |-> CASE c = c1 -> x1 [] c = c2 -> x2 [] c = c3 -> x3]

MCWorker   == Of3(w1, w1, w2)
MCAdapter  == Of3(a1, a1, a2)
MCFallback == Of3(a2, a2, a1)
MCScopes   == Of3({tenant}, {project}, {project, tenant})
MCIdem     == Of3(key, None, key)
MCProfile  == Of3(Policy(FALSE, 3, 2), Policy(TRUE, 3, 3), Policy(FALSE, 1, 1))
MCLimit    == project :> 1 @@ tenant :> 1
=============================================================================
