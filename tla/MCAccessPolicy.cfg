\* can_access against the byte-level definition of localhost.
CONSTANTS
    V4Addrs <- MCV4Addrs
    V6Addrs <- MCV6Addrs
SPECIFICATION Spec
INVARIANT AccessRejectsLoopback
