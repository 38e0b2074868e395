CONSTANTS
    u1 = u1
    u2 = u2
    w1 = w1
    w2 = w2
    Users = {u1, u2}
    TenantOf <- OneTenant
    Workers = {w1}
    Texts = {"unit", "Unit", "e2e", ""}
    Blank = ""
    Normal <- Lowered
    ResourceScopes = {"e2e"}
    Payloads <- MixedPayloads
    FirstAdmins <- OneAdmin
    Bootstrapper = Bootstrapper
    Nobody = Nobody
    MaxAssignments = 3
    MaxRequests = 1
    MaxCrashes = 0
SPECIFICATION Spec
PROPERTY RequestRefusalIsTrue
