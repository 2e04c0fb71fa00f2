----------------------------- MODULE MCOperator -----------------------------
(***************************************************************************)
(* One policy that may change its store path; two, with store paths of     *)
(* their own; or two that share the default path, which Translate fills in *)
(* when neither spec names one.                                            *)
(***************************************************************************)
EXTENDS Operator

MCPolicies  == {"prod", "dev"}
OnePolicy   == {"prod"}
OwnPaths    == [p \in MCPolicies |-> IF p = "prod" THEN {"prodA", "prodB"} ELSE {"dev"}]
DefaultPath == [p \in MCPolicies |-> {"default"}]
=============================================================================
