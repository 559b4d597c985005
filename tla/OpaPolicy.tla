----------------------------- MODULE OpaPolicy ------------------------------
(***************************************************************************)
(* The repository's Rego rules (policies/policy/assistant/v1), as operators*)
(* on the input document:                                                  *)
(*   type, risk, tier, blast, targets   the action and its risk            *)
(*   env       the environment, in lower case                              *)
(*   actor     whether the actor has an id                                 *)
(*   roles     the actor's roles                                           *)
(***************************************************************************)
EXTENDS Integers

WriteAction(in) == in.type = "write"
ProdEnv(in) == in.env = "prod"
WriteRoleOK(in) == in.roles \cap {"admin", "operator"} # {}

\* env_allowed has the default true, so it is never undefined.
EnvAllowed(in) == TRUE

DenyWrite(in) ==
    /\ WriteAction(in)
    /\ \/ ~EnvAllowed(in)
       \/ in.env = "prod" /\ in.targets > 10
       \/ ~WriteRoleOK(in)

AllowRead(in) == in.type = "read" /\ in.actor

MutantAllowLowWrite(in) == WriteAction(in) /\ in.risk = "low" /\ WriteRoleOK(in)
AllowLowWrite(in) ==
    /\ WriteAction(in) /\ in.risk = "low" /\ ~ProdEnv(in) /\ in.blast # "account"
    /\ WriteRoleOK(in) /\ ~DenyWrite(in)

RequireApprovalWrite(in) ==
    /\ WriteAction(in) /\ ~DenyWrite(in)
    /\ \/ /\ WriteRoleOK(in)
          /\ ProdEnv(in) \/ in.blast = "account" \/ in.risk \in {"medium", "high"}
       \/ in.tier = "break_glass"

OpaDecision(in) ==
    IF AllowRead(in) \/ AllowLowWrite(in) THEN "allow"
    ELSE IF RequireApprovalWrite(in) THEN "require_approval"
    ELSE "deny"
=============================================================================
