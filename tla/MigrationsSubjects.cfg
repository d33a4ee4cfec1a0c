\* A tenant, a user, a role, their link and the Casbin rule that repeats it as
\* text: three rows are enough for a conversion to part the rule from its user.
SPECIFICATION Spec
CONSTANTS
  Modelled = {"tenants", "users", "roles", "user_has_roles", "casbin_rules"}
  Populated = {"users", "roles", "casbin_rules"}
  MaxBorn = 3
INVARIANT SubjectsKept
CHECK_DEADLOCK FALSE
