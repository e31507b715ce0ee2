SPECIFICATION AccessFairSpec
CONSTANTS
    d1 = d1 alice = alice bob = bob
    NoConn = NoConn NoCall = NoCall
    Devices = {d1}
    Subjects = {alice, bob}
    Conns = {c1, c2, c3}
    Calls = {}
    DeviceOf <- OneDevice
    OwnerOf <- AliceOwns
    MaxInFlight = 1
INVARIANTS RevokedOnlyStale
PROPERTY RevokedGoesOffline
