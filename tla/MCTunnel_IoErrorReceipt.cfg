\* A failed I/O completion on the raw path with feedback (receipt write).
CONSTANTS
    t1 = t1
    Tunnels = {t1}
    Configs <- MCRawFeedbackConfigs
    MaxReads = 4
SPECIFICATION Spec
PROPERTY IoErrorEndsTunnel
