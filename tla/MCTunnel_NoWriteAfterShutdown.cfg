\* One client connection under every configuration; checks NoWriteAfterShutdown.
CONSTANTS
    t1 = t1
    Tunnels = {t1}
    Configs <- MCConfigs
    MaxReads = 4
SPECIFICATION Spec
PROPERTY NoWriteAfterShutdown
