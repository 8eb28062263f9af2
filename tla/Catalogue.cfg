CONSTANTS
    Instances = {i1, i2}
    Requests = {r1, r2}
    All = {p1}
    Basic = {p1}
    NewNames = {x}
    Endpoints = {"createRole", "updateRole", "deleteRole", "assign", "createPermission", "updatePermission", "deletePermission", "deleteAdmin", "register"}
    MaxPerms = 2
    MaxRoles = 3
    MaxCrashes = 1
    MaxCalls = 2
SPECIFICATION FairSpec
INVARIANTS TypeOK ServesSeeded RevokedPermissionsStayRevoked AccountsHaveTheirRole
PROPERTIES BootConverges
CHECK_DEADLOCK FALSE
