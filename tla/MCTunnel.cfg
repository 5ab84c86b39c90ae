\* One client connection under every configuration: raw and TLS paths,
\* literal and resolved server address, debug and release builds, ciphers
\* with and without a feedback round.
CONSTANTS
    t1 = t1
    Tunnels = {t1}
    Configs <- MCConfigs
    MaxReads = 4
SPECIFICATION Spec
INVARIANT TypeOK
INVARIANT HandlerPreconditions
INVARIANT ClientTranscript
INVARIANT UpstreamTranscript
INVARIANT TlsStoppedBeforeDying
PROPERTY TeardownCompletes
PROPERTY SessionRefinement
