\* One client connection under every configuration; checks TlsServerDataHandled.
CONSTANTS
    t1 = t1
    Tunnels = {t1}
    Configs <- MCConfigs
    MaxReads = 4
SPECIFICATION Spec
INVARIANT TlsServerDataHandled
