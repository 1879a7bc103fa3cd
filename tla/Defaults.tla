------------------------------- MODULE Defaults -----------------------------
(***************************************************************************)
(* Optional properties, which the constructs and managers read with        *)
(* `value ?? default` or with `value ? ... : default`.                     *)
(***************************************************************************)
EXTENDS Naturals

CONSTANT NotSet     \* the value of a property its caller left out

Coalesce(value, default) == IF value = NotSet THEN default ELSE value

Truthy(value, default) == IF value \in {NotSet, 0} THEN default ELSE value
=============================================================================
