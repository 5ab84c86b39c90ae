------------------------------ MODULE MCTunnel ------------------------------
(***************************************************************************)
(* Model-checking instance of Tunnel.  The tunnel is a model value; the    *)
(* configurations are subsets of ConfigType chosen per run.               *)
(***************************************************************************)
EXTENDS Tunnel

CONSTANT t1

\* Every configuration but a TLS one whose cipher asks for feedback: that
\* combination is run on its own (MCTlsFeedbackConfigs).
MCConfigs == {c \in ConfigType : c.over_tls_enable => ~c.need_feedback}

MCTlsFeedbackConfigs == {c \in ConfigType : c.over_tls_enable /\ c.need_feedback /\ c.release}

\* The raw path with a cipher that asks for feedback, and the TLS path.
MCRawFeedbackConfigs == {c \in ConfigType : ~c.over_tls_enable /\ c.need_feedback}

MCTlsConfigs == {c \in ConfigType : c.over_tls_enable /\ ~c.need_feedback}
=============================================================================
