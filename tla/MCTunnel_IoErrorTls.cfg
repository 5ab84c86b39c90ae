\* A failed I/O completion on the TLS path (client read in tls_streaming).
CONSTANTS
    t1 = t1
    Tunnels = {t1}
    Configs <- MCTlsConfigs
    MaxReads = 4
SPECIFICATION Spec
PROPERTY IoErrorEndsTunnel
