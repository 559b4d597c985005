------------------------------- MODULE Policy -------------------------------
(***************************************************************************)
(* The gateway's policy decision (internal/web/policy.go, risk.go) as pure *)
(* operators.  The answer of the policy checker (OPA) is an input: one of  *)
(* the three decisions, the empty string, an error, or no checker at all.  *)
(***************************************************************************)
EXTENDS Integers

Risks       == {"read", "low", "medium", "high"}
Decisions   == {"allow", "require_approval", "deny"}
ActionTypes == {"read", "write"}

\* What s.Policy.Check may come back with.  "unconfigured" is a server
\* without a checker, "error" an OPA that cannot be reached.
NoDecision == ""
Answers == Decisions \cup {NoDecision, "error", "unconfigured"}

\* A handler's action is a read exactly when its risk is "read".
ActionType(risk) == IF risk = "read" THEN "read" ELSE "write"

TierForRisk(risk) ==
    CASE risk = "read"              -> "read"
      [] risk \in {"low", "medium"} -> "safe"
      [] OTHER                      -> "break_glass"

\* blastRadius: how far a plan with that many targets reaches.
MutantBlastRadius(namespaced, targets) ==
    CASE targets <= 0 \/ (targets <= 10 /\ namespaced) -> "namespace"
      [] targets > 51 -> "account"
      [] OTHER        -> "cluster"
BlastRadius(namespaced, targets) ==
    CASE targets <= 0 \/ (targets <= 10 /\ namespaced) -> "namespace"
      [] targets > 50 -> "account"
      [] OTHER        -> "cluster"

\* The rules policyDecision applies, in the order it applies them, to the
\* decision of a checker that answered.
ProdRule(d, write, prod)  == IF write /\ prod /\ d = "allow"
                             THEN "require_approval" ELSE d
RiskRule(d, write, risk)  == IF write /\ d = "allow" /\ risk \notin {"read", "low"}
                             THEN "require_approval" ELSE d
MutantBlastRule(d, write, blast) == IF write /\ blast \in {"cluster", "account"}
                                    THEN "require_approval" ELSE d
BlastRule(d, write, blast) == IF write /\ blast = "account"
                              THEN "require_approval" ELSE d

MutantBreakGlassRule(d, write, risk, breakGlass) ==
    IF write /\ d = "allow" /\ TierForRisk(risk) = "break_glass" /\ ~breakGlass
    THEN "deny" ELSE d
BreakGlassRule(d, write, risk, breakGlass) ==
    IF write /\ TierForRisk(risk) = "break_glass" /\ ~breakGlass
    THEN "deny" ELSE d

\* policyDecision: a decision, or "error" (the handlers answer 403).
PolicyDecision(answer, actionType, prod, risk, blast, breakGlass) ==
    LET write    == actionType = "write"
        answered == IF answer = NoDecision THEN "allow" ELSE answer
    IN  CASE answer = "unconfigured"          -> "allow"
          [] answer = "error" /\ ~write       -> "allow"
          [] answer = "error" /\ write        -> "error"
          [] answer \in Decisions \cup {NoDecision} ->
               BreakGlassRule(
                 BlastRule(
                   RiskRule(ProdRule(answered, write, prod), write, risk),
                   write, blast),
                 write, risk, breakGlass)

\* The switch every plan-creating handler and :execute make on a decision:
\* "require_approval" lets only a write go on.
Proceeds(decision, actionType) ==
    \/ decision = "allow"
    \/ decision = "require_approval" /\ actionType = "write"
=============================================================================
