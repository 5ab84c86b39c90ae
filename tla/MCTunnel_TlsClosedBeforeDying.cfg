\* The TLS path with a client_shutdown that may come at any point.
CONSTANTS
    t1 = t1
    Tunnels = {t1}
    Configs <- MCTlsConfigs
    MaxReads = 2
SPECIFICATION Spec
INVARIANT TlsClosedBeforeDying
