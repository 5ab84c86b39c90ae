\* P6 over IPv4, IPv6 and host-name requests without NUL bytes.
CONSTANTS
    V4Addrs <- MCV4Addrs
    V6Addrs <- MCV6Addrs
    Hosts <- MCHosts
    Ports <- MCPorts
SPECIFICATION Spec
INVARIANT RoundTrip
