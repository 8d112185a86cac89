CONSTANTS
    s1 = s1
    s2 = s2
    Ssids = {s1, s2}
    NIL = NIL
    Servers = {"here"}
    Uploads <- TheUploads
    Scans <- TheScans
    MaxChanges = 1
    MaxRequests = 2
    MaxLosses = 1
SPECIFICATION Spec
PROPERTIES   FollowsTheMenu
CHECK_DEADLOCK FALSE
