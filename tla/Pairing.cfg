SPECIFICATION FairSpec
CONSTANTS
    NoOwner = NoOwner NoReq = NoReq Torn = Torn
    Codes = {p1, p2}
    Subjects = {alice, bob}
    Reqs = {r1, r2}
    MaxFaults = 2
INVARIANTS OneDevicePerPairing CredentialsStored NoOrphanDevice ApprovedIsServed
PROPERTY ApprovedGetsPaired
