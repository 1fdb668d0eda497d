CONSTANTS
    User = {"ada", "bob"}
    Desk = {1, 2}
    Device = {3}
    SignedIn <- AdaAndBob
    MaxSessions = 2
    MaxRequests = 2
    Editor = {1, 2}
    Project = {"p1"}
    Slot = {"implement", "grilling"}
    Harness = {"claude", "pi"}
    Enabled = {"claude", "pi"}
    Supported = {"claude", "pi"}
    Capable = {"claude"}
    ClaudeOnly = {"grilling"}
    Inherit = "inherit"
    Keep = "keep"
SPECIFICATION FairSpec
INVARIANTS AnAdminRemains EveryLaunchAllowed
PROPERTIES RevocationLands
