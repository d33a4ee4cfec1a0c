\* Every table of the chain; six of them get rows, three at any time: a user
\* with a role, a tenant of its own with a user, a rule that names a user.
SPECIFICATION Spec
CONSTANTS
  Modelled = {"tenants", "users", "user_profiles", "user_settings",
    "user_security", "user_contacts", "user_addresses", "user_verifications",
    "user_sessions", "todos", "authorization_resources", "permissions", "roles",
    "role_permissions", "user_has_roles", "casbin_rules", "audit_logs",
    "error_traces", "login_attempts"}
  Populated = {"tenants", "users", "user_profiles", "roles", "user_has_roles",
    "casbin_rules"}
  MaxBorn = 3
INVARIANTS TypeOK RefsKept SchemaKept UuidsRestored
PROPERTY StopsOnlyAtNewRows
CHECK_DEADLOCK FALSE
