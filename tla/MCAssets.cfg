SPECIFICATION Spec
CONSTANTS
    identities <- MCIdentities
    roles <- MCRoles
    RoleOf <- MCRoleOf
    MaxStops = 3
    MaxRuns = 5
CHECK_DEADLOCK FALSE
INVARIANTS AcceptedIsComplete RolesUsable RenderedAgrees
PROPERTIES KeysKept
