SPECIFICATION FairSpec
CONSTANTS
    k1 = k1
    k2 = k2
    k3 = k3
    ip1 = ip1
    ip2 = ip2
    Attempts = {k1, k2, k3}
    IPs = {ip1, ip2}
    IPOf <- MCIPOf
    MaxOpen = 2
    MaxOpenPerIP = 1
INVARIANTS AdmissionExact ShutdownSafe
PROPERTIES ShutdownEnds
CHECK_DEADLOCK FALSE
