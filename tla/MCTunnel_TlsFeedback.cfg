\* The TLS path with a cipher whose protocol asks for feedback.
CONSTANTS
    t1 = t1
    Tunnels = {t1}
    Configs <- MCTlsFeedbackConfigs
    MaxReads = 4
SPECIFICATION Spec
INVARIANT UpstreamTranscript
