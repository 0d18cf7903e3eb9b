---------------------- MODULE MCTemplateInstantiation ----------------------
(* Template instantiation on small templates. *)
EXTENDS TemplateInstantiation, TLC

\* One role with one permission: every kind of call once.
OneRole == <<"organization", "member", "role", "permission", "assignment">>

\* Two roles, the second without permissions.
TwoRoles == OneRole \o <<"role", "assignment">>
=============================================================================
