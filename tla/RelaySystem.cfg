SPECIFICATION SysSpec
CONSTANTS
    d1 = d1 alice = alice
    NoConn = NoConn NoCall = NoCall
    Devices = {d1}
    Subjects = {alice}
    Conns = {c1, c2}
    Calls = {k1}
    DeviceOf <- OneDevice
    OwnerOf <- AliceOwns
    MaxInFlight = 1
PROPERTY ImplementsRemoteCall
