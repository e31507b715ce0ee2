SPECIFICATION SysSpec
CONSTANTS
    d1 = d1 alice = alice
    NoConn = NoConn NoCall = NoCall
    Devices = {d1}
    Subjects = {alice}
    Conns = {c1}
    Calls = {k1, k2, k3}
    DeviceOf <- OneDevice
    OwnerOf <- AliceOwns
    MaxInFlight = 2
INVARIANT InFlightBounded
PROPERTY ImplementsRemoteCall
SYMMETRY CallSymmetry
