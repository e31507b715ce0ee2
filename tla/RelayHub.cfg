SPECIFICATION FairSpec
CONSTANTS
    d1 = d1 alice = alice bob = bob
    NoConn = NoConn NoCall = NoCall
    Devices = {d1}
    Subjects = {alice, bob}
    Conns = {c1, c2}
    Calls = {k1}
    DeviceOf <- OneDevice
    OwnerOf <- AliceOwns
    MaxInFlight = 1
INVARIANTS ClosedHasNoPending NoOrphanConn
PROPERTIES OfflineOnlyWhenDone ClosingFailsCalls RegisterCompletes
