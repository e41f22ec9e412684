------------------------------ MODULE MCSessions ------------------------------
(* Small instances of Sessions for TLC. *)
EXTENDS Sessions

CONSTANTS owner, customer, manage

\* The owner's role has the permission, the customer's has not.
RoleGrants == [r \in {owner, customer} |-> IF r = owner THEN {manage} ELSE {}]

=============================================================================
