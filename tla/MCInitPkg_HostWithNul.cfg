\* P6 for host names holding a NUL byte.
CONSTANTS
    V4Addrs <- MCV4Addrs
    V6Addrs <- MCV6Addrs
    Hosts <- MCHostsWithNul
    Ports <- MCPorts
SPECIFICATION Spec
INVARIANT RoundTrip
