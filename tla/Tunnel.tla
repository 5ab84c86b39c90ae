------------------------------- MODULE Tunnel -------------------------------
(***************************************************************************)
(* The per-connection tunnel of the ShadowsocksR native client,            *)
(* src/src/client/client.c.  One record per accepted SOCKS5 connection     *)
(* holds the stage of the session machine (enum tunnel_stage), the read    *)
(* and write state machines of its two sockets (incoming = toward the      *)
(* SOCKS5 client, outgoing = toward the SSR server), the pending uv        *)
(* request on the outgoing socket, the cipher/init_pkg pair, the state of  *)
(* the TLS transport, and the bytes written on each wire (abstracted to    *)
(* message kinds).                                                         *)
(*                                                                         *)
(* Every completion callback of the socket shim (tunnel.c, not in src/)    *)
(* sets the socket's state to "done", stores its result and calls do_next; *)
(* an action below is one such callback together with the whole handler    *)
(* do_next runs for it.  Handlers are written as operators from the        *)
(* tunnel record to the SET of records the handler may produce, the set    *)
(* enumerating what the collaborators (SOCKS5 parser, cipher, DNS, TCP)    *)
(* may answer.  An ASSERT of the code that fails is recorded in the        *)
(* record's "faults" and the handler then goes on as a release build does. *)
(***************************************************************************)
EXTENDS Naturals, Sequences, FiniteSets, SequencesExt

CONSTANTS
    Tunnels,    \* the client connections the listener may accept
    Configs,    \* the server_config values (and cipher kinds) a run starts with
    MaxReads    \* bound on successful socket reads per tunnel (peers send finitely)

Sockets   == {"in", "out"}                 \* tunnel->incoming, tunnel->outgoing
IOStates  == {"busy", "done", "stop", "dead"}
Results   == {"ok", "err"}                 \* socket->result >= 0, < 0
AddrClass == {"loopback", "public"}
AuthMethods == {"none", "passwd"}          \* s5_auth_none, s5_auth_passwd

Stages == {"handshake", "handshake_auth", "handshake_replied", "s5_request",
           "s5_udp_accoc", "tls_connecting", "tls_first_package",
           "tls_streaming", "resolve_ssr_server_host_done",
           "connecting_ssr_server", "ssr_auth_sent", "ssr_waiting_feedback",
           "ssr_receipt_of_feedback_sent", "auth_complition_done",
           "streaming", "kill"}

\* What the tunnel writes.  To the client: "\5\0", "\5\377", the UDP
\* ASSOCIATE reply, the three error replies, "\5\0\0"||init_pkg, payload.
\* To the server: the encrypted init_pkg, the feedback receipt, payload.
ClientMsgs == {"method_none", "no_acceptable", "udp_reply", "host_unreachable",
               "not_allowed", "refused", "success", "data"}
ServerMsgs == {"auth", "receipt", "data"}
ErrorReplies == {"host_unreachable", "not_allowed", "refused"}

\* ASSERTs of the stage machine (tag = the function holding them) and the
\* ASSERTs on what the TLS transport and the cipher hand to the callbacks.
HandlerFaults == {"do_next", "do_handshake", "do_wait_s5_request",
                  "do_parse_s5_request", "do_resolve_ssr_server_host_aftercare",
                  "do_connect_ssr_server", "do_connect_ssr_server_done",
                  "do_ssr_auth_sent", "do_ssr_receipt_for_feedback",
                  "do_socks5_reply_success", "do_launch_streaming",
                  "tunnel_tls_do_launch_streaming",
                  "tunnel_tls_on_connection_established",
                  "tunnel_tls_client_incoming_streaming", "unreachable"}
ProtocolFaults == {"tls_feedback", "tls_data_outside_first_package"}

ConfigType == [over_tls_enable : BOOLEAN,   \* config->over_tls_enable
               remote_literal  : BOOLEAN,   \* remote_host is an IP literal
               remote_addr     : AddrClass, \* what remote_host resolves to
               release         : BOOLEAN,   \* built with NDEBUG
               need_feedback   : BOOLEAN]   \* tunnel_cipher_client_need_feedback

ASSUME Configs \subseteq ConfigType /\ Configs # {}
ASSUME MaxReads \in Nat

VARIABLES
    config,      \* env->config: fixed for the life of the process
    tun,         \* [Tunnels -> tunnel record]
    registry,    \* env->tunnel_set
    closingAll   \* client_shutdown has been called

vars == <<config, tun, registry, closingAll>>

SockType == [rd : IOStates, wr : IOStates, result : Results]
TunnelType ==
    [life     : {"idle", "live", "closing", "dead"},
     stage    : Stages,
     sock     : [Sockets -> SockType],
     req      : {"none", "getaddrinfo", "connect"},
     cipher   : {"none", "live", "released"},      \* ctx->cipher and ctx->init_pkg
     tls      : {"none", "connecting", "established", "closing", "closed"},
     reads    : 0..MaxReads,
     dest     : {"none"} \cup AddrClass,            \* tunnel->desired_addr
     sent     : [in : Seq(ClientMsgs), out : Seq(ServerMsgs)],
     feedback : BOOLEAN,                           \* decrypt returned feedback
     faults   : SUBSET (HandlerFaults \cup ProtocolFaults)]

-----------------------------------------------------------------------------
(* Socket shim primitives (tunnel.c, modelled from the spec, section 4.1). *)

Other(s) == IF s = "in" THEN "out" ELSE "in"

AllStop(x) == \A s \in Sockets : x.sock[s].rd = "stop" /\ x.sock[s].wr = "stop"

SocketRead(x, s) == [x EXCEPT !.sock[s].rd = "busy"]

SocketWrite(x, s, m) == [x EXCEPT !.sock[s].wr = "busy", !.sent[s] = Append(@, m)]

\* tunnel_shutdown: idempotent; the shim cancels pending I/O and closes both
\* handles, and tunnel_dying runs from the close callbacks.
TunnelShutdown(x) == [x EXCEPT !.life = IF @ = "live" THEN "closing" ELSE @]

\* tls_client_shutdown: the transport closes and later calls on_shutting_down.
TlsClientShutdown(x) == [x EXCEPT !.tls = IF @ \in {"connecting", "established"}
                                           THEN "closing" ELSE @]

Asserted(x, cond, tag) == IF cond THEN x ELSE [x EXCEPT !.faults = @ \cup {tag}]

\* socket->result as the handlers read it.
Failed(x, s) == x.sock[s].result = "err"

-----------------------------------------------------------------------------
(* Access policy: can_auth_none, can_auth_passwd, can_access.              *)

CanAuthNone == TRUE
CanAuthPasswd == FALSE

\* can_access(addr): a debug build allows everything; a release build
\* rejects 127.0.0.0/8, ::1 and ::ffff:127.x.x.x.
CanAccess(addr) == ~config.release \/ addr # "loopback"

-----------------------------------------------------------------------------
(* The stage handlers.                                                      *)

\* Mutant: the success reply written to the wrong socket.
DoSocks5ReplySuccessToServer(x) ==
    [SocketWrite(x, "out", "success") EXCEPT !.stage = "auth_complition_done"]

\* do_socks5_reply_success: "\5\0\0" || init_pkg to the client.
DoSocks5ReplySuccess(x) ==
    LET y == Asserted(x, AllStop(x), "do_socks5_reply_success")
    IN  [SocketWrite(y, "in", "success") EXCEPT !.stage = "auth_complition_done"]

\* Mutant: "\5\377" is written but the stage is not moved to kill.
DoHandshakeNoKill(x) ==
    IF Failed(x, "in") THEN {TunnelShutdown(x)}
    ELSE {SocketRead(x, "in"), TunnelShutdown(x),
          [SocketWrite(x, "in", "method_none") EXCEPT !.stage = "handshake_replied"],
          SocketWrite(x, "in", "no_acceptable")}

\* do_handshake, after do_next latched incoming->rdstate.  The parse of the
\* greeting answers need-more, junk or an error, or auth-select with the
\* offered methods.
DoHandshake(x) ==
    LET y == Asserted(x, AllStop(x), "do_handshake")
        Select(m) ==
            IF "none" \in m /\ CanAuthNone
            THEN [SocketWrite(y, "in", "method_none") EXCEPT !.stage = "handshake_replied"]
            ELSE IF "passwd" \in m /\ CanAuthPasswd
            THEN TunnelShutdown(y)
            ELSE [SocketWrite(y, "in", "no_acceptable") EXCEPT !.stage = "kill"]
    IN  IF Failed(y, "in") THEN {TunnelShutdown(y)}
        ELSE {SocketRead(y, "in"), TunnelShutdown(y)}
             \cup {Select(m) : m \in SUBSET AuthMethods}

\* do_handshake_auth: UNREACHABLE(), then tunnel_shutdown.
DoHandshakeAuth(x) == TunnelShutdown(Asserted(x, FALSE, "unreachable"))

\* do_wait_s5_request, after the method-selection reply was written.
DoWaitS5Request(x) ==
    LET y == Asserted(x, AllStop(x), "do_wait_s5_request")
    IN  IF Failed(y, "in") THEN TunnelShutdown(y)
        ELSE [SocketRead(y, "in") EXCEPT !.stage = "s5_request"]

\* do_connect_ssr_server: access check on outgoing->addr, then uv connect,
\* which may fail synchronously.
DoConnectSsrServer(x) ==
    LET y == Asserted(x, AllStop(x), "do_connect_ssr_server")
    IN  IF ~CanAccess(config.remote_addr)
        THEN {[SocketWrite(y, "in", "not_allowed") EXCEPT !.stage = "kill"]}
        ELSE {TunnelShutdown(y),
              [y EXCEPT !.req = "connect", !.stage = "connecting_ssr_server"]}

\* do_parse_s5_request.  A CONNECT creates init_pkg and the cipher, then
\* launches TLS, or connects to a literal address, or resolves remote_host.
DoParseS5Request(x) ==
    LET y == Asserted(x, AllStop(x), "do_parse_s5_request")
        Connect(d) ==
            LET z == [y EXCEPT !.dest = d, !.cipher = "live"]
            IN  IF config.over_tls_enable
                THEN {[z EXCEPT !.stage = "tls_connecting", !.tls = "connecting"]}
                ELSE IF config.remote_literal
                THEN DoConnectSsrServer(z)
                ELSE {[z EXCEPT !.req = "getaddrinfo",
                                !.stage = "resolve_ssr_server_host_done"]}
    IN  IF Failed(y, "in") THEN {TunnelShutdown(y)}
        ELSE {SocketRead(y, "in"),                                 \* need more
              TunnelShutdown(y),                                   \* junk, error, BIND
              [SocketWrite(y, "in", "udp_reply") EXCEPT !.stage = "s5_udp_accoc"]}
             \cup UNION {Connect(d) : d \in AddrClass}

\* do_resolve_ssr_server_host_aftercare.
DoResolveSsrServerHostAftercare(x) ==
    LET y == Asserted(x, AllStop(x), "do_resolve_ssr_server_host_aftercare")
    IN  IF Failed(y, "out")
        THEN {[SocketWrite(y, "in", "host_unreachable") EXCEPT !.stage = "kill"]}
        ELSE DoConnectSsrServer(y)

\* Mutant: the refusal is written but the stage is not moved to kill.
DoConnectSsrServerDoneNoKill(x) ==
    IF Failed(x, "out") THEN {SocketWrite(x, "in", "refused")}
    ELSE {[SocketWrite(x, "out", "auth") EXCEPT !.stage = "ssr_auth_sent"], TunnelShutdown(x)}

\* do_connect_ssr_server_done: send the encrypted clone of init_pkg.
DoConnectSsrServerDone(x) ==
    LET y == Asserted(x, AllStop(x), "do_connect_ssr_server_done")
    IN  IF Failed(y, "out")
        THEN {[SocketWrite(y, "in", "refused") EXCEPT !.stage = "kill"]}
        ELSE {[SocketWrite(y, "out", "auth") EXCEPT !.stage = "ssr_auth_sent"],
              TunnelShutdown(y)}                             \* encrypt failed

\* Mutant: the feedback read is armed and the success reply sent as well.
DoSsrAuthSentNoElse(x) ==
    IF Failed(x, "out") THEN TunnelShutdown(x)
    ELSE DoSocks5ReplySuccess([SocketRead(x, "out") EXCEPT !.stage = "ssr_waiting_feedback"])

\* do_ssr_auth_sent.
DoSsrAuthSent(x) ==
    LET y == Asserted(x, AllStop(x), "do_ssr_auth_sent")
    IN  IF Failed(y, "out") THEN TunnelShutdown(y)
        ELSE IF config.need_feedback
        THEN [SocketRead(y, "out") EXCEPT !.stage = "ssr_waiting_feedback"]
        ELSE DoSocks5ReplySuccess(y)

\* Mutant: the feedback returned by decrypt is never sent back.
DoSsrReceiptForFeedbackDropped(x) ==
    IF Failed(x, "out") THEN {DoSocks5ReplySuccess(TunnelShutdown(x))}
    ELSE {DoSocks5ReplySuccess([x EXCEPT !.feedback = f]) :
              f \in IF config.need_feedback THEN BOOLEAN ELSE {FALSE}}

\* do_ssr_receipt_for_feedback together with its caller in do_next, which
\* sends the success reply whenever it returns false.
DoSsrReceiptForFeedback(x) ==
    LET y == Asserted(x, AllStop(x), "do_ssr_receipt_for_feedback")
        fb == IF config.need_feedback THEN BOOLEAN ELSE {FALSE}
    IN  IF Failed(y, "out")
        THEN {DoSocks5ReplySuccess(TunnelShutdown(y))}
        ELSE {IF f
              THEN [SocketWrite(y, "out", "receipt") EXCEPT
                        !.stage = "ssr_receipt_of_feedback_sent", !.feedback = TRUE]
              ELSE DoSocks5ReplySuccess(y) : f \in fb}

\* do_launch_streaming.
DoLaunchStreaming(x) ==
    LET y == Asserted(x, AllStop(x), "do_launch_streaming")
    IN  IF Failed(y, "in") THEN TunnelShutdown(y)
        ELSE [SocketRead(SocketRead(y, "in"), "out") EXCEPT !.stage = "streaming"]

\* Mutant: a failed success-reply write tears the tunnel down directly.
TunnelTlsDoLaunchStreamingDirect(x) ==
    IF Failed(x, "in") THEN TunnelShutdown(x)
    ELSE [SocketRead(x, "in") EXCEPT !.stage = "tls_streaming"]

\* tunnel_tls_do_launch_streaming.
TunnelTlsDoLaunchStreaming(x) ==
    LET y == Asserted(x, AllStop(x), "tunnel_tls_do_launch_streaming")
    IN  IF Failed(y, "in") THEN TlsClientShutdown(y)
        ELSE [SocketRead(y, "in") EXCEPT !.stage = "tls_streaming"]

\* tunnel_extract_data: the bytes of a read go through the cipher (encrypt
\* from the client, decrypt from the server) into a fresh buffer, or NULL
\* when the cipher fails.  The decrypt of the streaming stage is not
\* expected to return feedback (ASSERT(false) if it does).
TunnelExtractData == {"data", "null"}

\* tunnel_traditional_streaming (tunnel.c, from the spec, section 4.3): a
\* read is transformed by the cipher and written to the other socket; the
\* read is re-armed once that write completes.
TunnelTraditionalStreaming(x, s) ==
    IF x.sock[s].rd = "done"
    THEN LET y == [x EXCEPT !.sock[s].rd = "stop"]
         IN  IF Failed(y, s) THEN {TunnelShutdown(y)}
             ELSE {IF e = "data" THEN SocketWrite(y, Other(s), "data") ELSE TunnelShutdown(y) :
                       e \in TunnelExtractData}
    ELSE LET y == [x EXCEPT !.sock[s].wr = "stop"]
         IN  IF Failed(y, s) THEN {TunnelShutdown(y)}
             ELSE {SocketRead(y, Other(s))}

\* tunnel_tls_client_incoming_streaming: a read of the client is encrypted
\* (tunnel_extract_data) and handed to the TLS transport; the read is
\* re-armed at once since the data was copied.  The handler does not look
\* at socket->result: a failed read hands a negative length to
\* buffer_create_from, whose outcome the model leaves open (a buffer that
\* is sent, or NULL); such garbage sends count against MaxReads, since the
\* re-armed read fails again and again.
TunnelTlsClientIncomingStreaming(x, s) ==
    LET y == Asserted(x, s = "in" /\ (x.sock.in.wr = "done") # (x.sock.in.rd = "done"),
                    "tunnel_tls_client_incoming_streaming")
        z == [y EXCEPT !.sock.in.rd = "stop"]
        Send == [z EXCEPT !.sent.out = Append(@, "data"),
                          !.reads = IF Failed(z, "in") THEN @ + 1 ELSE @]
        Bounded(e) == ~(e = "data" /\ Failed(z, "in") /\ z.reads = MaxReads)
    IN  IF y.sock.in.wr = "done" THEN {[y EXCEPT !.sock.in.wr = "stop"]}
        ELSE {SocketRead(IF e = "data" THEN Send ELSE TlsClientShutdown(z), "in") :
                  e \in {e \in TunnelExtractData : Bounded(e)}}

\* do_next, case tunnel_stage_kill.
DoKill(x) == {TunnelShutdown(x)}

\* do_next: the single entry point of every completion on socket s.  The
\* cases that start with an ASSERT and a latch of the completed state are
\* written out here; the other cases call their handler directly.
Latch(x, s, op) == [Asserted(x, x.sock[s][op] = "done", "do_next") EXCEPT !.sock[s][op] = "stop"]

DoNext(x, s) ==
    CASE x.stage = "handshake"          -> DoHandshake(Latch(x, "in", "rd"))
      [] x.stage = "handshake_auth"     -> {DoHandshakeAuth(x)}
      [] x.stage = "handshake_replied"  -> {DoWaitS5Request(Latch(x, "in", "wr"))}
      [] x.stage = "s5_request"         -> DoParseS5Request(Latch(x, "in", "rd"))
      [] x.stage = "s5_udp_accoc"       -> {TunnelShutdown(Latch(x, "in", "wr"))}
      [] x.stage = "resolve_ssr_server_host_done" -> DoResolveSsrServerHostAftercare(x)
      [] x.stage = "connecting_ssr_server"        -> DoConnectSsrServerDone(x)
      [] x.stage = "ssr_auth_sent"      -> {DoSsrAuthSent(Latch(x, "out", "wr"))}
      [] x.stage = "ssr_waiting_feedback" -> DoSsrReceiptForFeedback(Latch(x, "out", "rd"))
      [] x.stage = "ssr_receipt_of_feedback_sent" ->
                                           {DoSocks5ReplySuccess(Latch(x, "out", "wr"))}
      [] x.stage = "auth_complition_done" ->
             {IF config.over_tls_enable
              THEN TunnelTlsDoLaunchStreaming(Latch(x, "in", "wr"))
              ELSE DoLaunchStreaming(Latch(x, "in", "wr"))}
      [] x.stage = "tls_streaming"      -> TunnelTlsClientIncomingStreaming(x, s)
      [] x.stage = "streaming"          -> TunnelTraditionalStreaming(x, s)
      [] x.stage = "kill"               -> DoKill(x)
      [] OTHER                          -> {Asserted(x, FALSE, "unreachable")}

-----------------------------------------------------------------------------
(* The actions.                                                             *)

Fresh == [life |-> "idle", stage |-> "handshake",
          sock |-> [s \in Sockets |-> [rd |-> "stop", wr |-> "stop", result |-> "ok"]],
          req |-> "none", cipher |-> "none", tls |-> "none", reads |-> 0,
          dest |-> "none", sent |-> [in |-> <<>>, out |-> <<>>],
          feedback |-> FALSE, faults |-> {}]

Init ==
    /\ config \in Configs
    /\ tun = [t \in Tunnels |-> Fresh]
    /\ registry = {}
    /\ closingAll = FALSE

\* Apply one handler outcome to tunnel t.
Become(t, S) == \E y \in S : tun' = [tun EXCEPT ![t] = y]

\* client_tunnel_initialize / init_done_cb: the listener accepts a client,
\* the tunnel is registered, the parser initialised, and the shim arms the
\* first read on the incoming socket.  No accept follows client_shutdown:
\* that assumes the listener is closed at exit, which client.c leaves to
\* its caller.
Accept(t) ==
    /\ ~closingAll
    /\ tun[t].life = "idle"
    /\ tun' = [tun EXCEPT ![t] = [@ EXCEPT !.life = "live", !.stage = "handshake",
                                           !.sock.in.rd = "busy"]]
    /\ registry' = registry \cup {t}
    /\ UNCHANGED <<config, closingAll>>

\* tunnel_read_done: a read on socket s completes (data, or EOF/error).
ReadDone(t, s) ==
    /\ tun[t].life = "live"
    /\ tun[t].sock[s].rd = "busy"
    /\ \E r \in Results :
          /\ r = "ok" => tun[t].reads < MaxReads
          /\ Become(t, DoNext([tun[t] EXCEPT !.sock[s].rd = "done", !.sock[s].result = r,
                                             !.reads = IF r = "ok" THEN @ + 1 ELSE @], s))
    /\ UNCHANGED <<config, registry, closingAll>>

\* tunnel_write_done: a write on socket s completes.
WriteDone(t, s) ==
    /\ tun[t].life = "live"
    /\ tun[t].sock[s].wr = "busy"
    /\ \E r \in Results :
          Become(t, DoNext([tun[t] EXCEPT !.sock[s].wr = "done", !.sock[s].result = r], s))
    /\ UNCHANGED <<config, registry, closingAll>>

\* tunnel_getaddrinfo_done and tunnel_outgoing_connected_done: the uv
\* request on the outgoing socket completes.
RequestDone(t, req) ==
    /\ tun[t].life = "live"
    /\ tun[t].req = req
    /\ \E r \in Results :
          Become(t, DoNext([tun[t] EXCEPT !.req = "none", !.sock.out.result = r], "out"))
    /\ UNCHANGED <<config, registry, closingAll>>

\* tunnel_tls_on_connection_established: send the encrypted init_pkg.
TlsOnConnectionEstablished(t) ==
    /\ tun[t].life = "live"
    /\ tun[t].tls = "connecting"
    /\ LET x == Asserted([tun[t] EXCEPT !.tls = "established"], AllStop(tun[t]),
                         "tunnel_tls_on_connection_established")
       IN  Become(t, {[x EXCEPT !.stage = "tls_first_package", !.sent.out = Append(@, "auth")],
                      TlsClientShutdown(x)})
    /\ UNCHANGED <<config, registry, closingAll>>

\* tunnel_tls_on_data_received: the server answers the first package (and
\* may go on sending).  Only tls_first_package is handled.
TlsOnDataReceived(t) ==
    /\ tun[t].life = "live"
    /\ tun[t].tls = "established"
    /\ tun[t].sent.out # <<>>
    /\ tun[t].reads < MaxReads
    /\ LET x == [tun[t] EXCEPT !.reads = @ + 1]
           fb == IF config.need_feedback THEN BOOLEAN ELSE {FALSE}
       IN  IF x.stage = "tls_first_package"
           THEN Become(t, {DoSocks5ReplySuccess(Asserted([x EXCEPT !.feedback = f], ~f,
                                                         "tls_feedback")) : f \in fb}
                          \cup {TlsClientShutdown(x)})
           ELSE Become(t, {Asserted(x, FALSE, "tls_data_outside_first_package")})
    /\ UNCHANGED <<config, registry, closingAll>>

\* The TLS transport fails to connect, or the server closes the session.
TlsTransportClosed(t) ==
    /\ tun[t].life = "live"
    /\ tun[t].tls \in {"connecting", "established"}
    /\ tun' = [tun EXCEPT ![t] = TlsClientShutdown(@)]
    /\ UNCHANGED <<config, registry, closingAll>>

\* Mutant: the callback only records that the transport is closed.
TlsOnShuttingDownNoShutdown(t) ==
    /\ tun[t].life \in {"live", "closing"}
    /\ tun[t].tls = "closing"
    /\ tun' = [tun EXCEPT ![t].tls = "closed"]
    /\ UNCHANGED <<config, registry, closingAll>>

\* tunnel_tls_on_shutting_down.
TlsOnShuttingDown(t) ==
    /\ tun[t].life \in {"live", "closing"}
    /\ tun[t].tls = "closing"
    /\ tun' = [tun EXCEPT ![t] = TunnelShutdown([@ EXCEPT !.tls = "closed"])]
    /\ UNCHANGED <<config, registry, closingAll>>

\* tunnel_dying, run by the shim once both handles are closed.
TunnelDying(t) ==
    /\ tun[t].life = "closing"
    /\ tun' = [tun EXCEPT ![t] = [@ EXCEPT
                  !.life = "dead", !.req = "none",
                  !.sock = [s \in Sockets |-> [@[s] EXCEPT !.rd = "dead", !.wr = "dead"]],
                  !.cipher = IF @ = "live" THEN "released" ELSE @]]
    /\ registry' = registry \ {t}
    /\ UNCHANGED <<config, closingAll>>

\* client_shutdown: tunnel_shutdown on every tunnel of the registry.
ClientShutdown ==
    /\ ~closingAll
    /\ closingAll' = TRUE
    /\ tun' = [t \in Tunnels |-> IF t \in registry THEN TunnelShutdown(tun[t]) ELSE tun[t]]
    /\ UNCHANGED <<config, registry>>

\* Every accepted tunnel is gone and no more will be accepted, or every
\* tunnel of the model has been used: the process only waits.
Quiescent ==
    /\ \A t \in Tunnels : tun[t].life \in {"idle", "dead"}
    /\ closingAll \/ \A t \in Tunnels : tun[t].life = "dead"
    /\ UNCHANGED vars

Next ==
    \/ \E t \in Tunnels :
          \/ Accept(t)
          \/ \E s \in Sockets : ReadDone(t, s) \/ WriteDone(t, s)
          \/ \E req \in {"getaddrinfo", "connect"} : RequestDone(t, req)
          \/ TlsOnConnectionEstablished(t)
          \/ TlsOnDataReceived(t)
          \/ TlsTransportClosed(t)
          \/ TlsOnShuttingDown(t)
          \/ TunnelDying(t)
    \/ ClientShutdown
    \/ Quiescent

\* libuv completes every issued write (with success or an error: the
\* replies are a few bytes), runs close callbacks, and the TLS transport
\* reports its own shutdown.  Nothing obliges a peer to send data, so reads,
\* DNS, connects and the TLS handshake get no fairness.
Fairness ==
    \A t \in Tunnels :
        /\ \A s \in Sockets : WF_vars(WriteDone(t, s))
        /\ WF_vars(TunnelDying(t))
        /\ WF_vars(TlsOnShuttingDown(t))

Spec == Init /\ [][Next]_vars /\ Fairness

-----------------------------------------------------------------------------
(* Properties.                                                              *)

TypeOK ==
    /\ config \in Configs
    /\ tun \in [Tunnels -> TunnelType]
    /\ registry \subseteq Tunnels
    /\ closingAll \in BOOLEAN

\* P2 of the spec: every handler do_next enters finds the read/write state
\* machines of both sockets as its ASSERTs demand -- the completed operation
\* "done", everything else "stop".  It fails if any path of the stage
\* machine leaves a second operation in flight or forgets to latch one.
HandlerPreconditions == \A t \in Tunnels : tun[t].faults \cap HandlerFaults = {}

Replies == ErrorReplies \cup {"udp_reply", "success"}

\* What the SOCKS5 client reads is a well-formed RFC 1928 conversation: the
\* method-selection reply ("\5\0", or "\5\377" and nothing after), then at
\* most one reply to the request, and payload only after a success reply.
\* It fails if a stage re-enters a handler that already replied, or if an
\* error path goes on to stream.
ClientTranscript ==
    \A t \in Tunnels :
        LET c == tun[t].sent.in
        IN  \/ c \in {<<>>, <<"no_acceptable">>}
            \/ /\ c[1] = "method_none"
               /\ Len(c) >= 2 => c[2] \in Replies
               /\ \A i \in 3..Len(c) : c[i] = "data" /\ c[2] = "success"

\* What the SSR server reads starts with the encrypted init_pkg, carries the
\* feedback receipt right after it whenever the cipher produced feedback,
\* and carries client payload only once the client was told success.  It
\* relates the two wires: a path that starts streaming before the obfs
\* handshake is complete breaks it.
UpstreamTranscript ==
    \A t \in Tunnels :
        LET o == tun[t].sent.out
        IN  /\ o # <<>> => o[1] = "auth"
            /\ \A i \in 1..Len(o) : o[i] = "receipt" => i = 2
            /\ \A i \in 1..Len(o) :
                  o[i] = "data" =>
                     /\ Contains(tun[t].sent.in, "success")
                     /\ tun[t].feedback => o[2] = "receipt"

\* Every way a teardown starts ends in tunnel_dying: an error reply queued
\* in stage kill (its write completion must reach tunnel_shutdown), a
\* tunnel_shutdown (the close callbacks must run), or a
\* tls_client_shutdown (the transport must call on_shutting_down, which
\* must call tunnel_shutdown).  Reads get no fairness, so a path that
\* waits for the peer after starting a teardown breaks it.
TeardownStarted(t) ==
    \/ tun[t].life = "closing"
    \/ tun[t].life = "live" /\ (tun[t].stage = "kill" \/ tun[t].tls = "closing")

TeardownCompletes ==
    \A t \in Tunnels : TeardownStarted(t) ~> tun[t].life = "dead"

\* The TLS transport holds the tunnel and calls back into it, so on the
\* TLS path client.c tears a tunnel down through tls_client_shutdown: the
\* transport closes, its on_shutting_down calls tunnel_shutdown, and only
\* then may tunnel_dying free client_ctx and the cipher.  A tunnel that
\* reaches tunnel_dying while its transport is still open (connecting,
\* established, or closing without having called back) leaves the
\* transport with a dangling tunnel.
TlsOpenAtDying(t) ==
    tun[t].life = "dead" /\ tun[t].tls \in {"connecting", "established", "closing"}

\* Every teardown the stage machine and the TLS callbacks start on the TLS
\* path stops the transport before tunnel_dying; only client_shutdown,
\* which calls tunnel_shutdown on every tunnel, bypasses it.
TlsStoppedBeforeDying == \A t \in Tunnels : TlsOpenAtDying(t) => closingAll

-----------------------------------------------------------------------------
(* Refinement: what the peers observe of a tunnel is a SocksSession.  The  *)
(* message logs are the two sessions' transcripts; a session is over once  *)
(* tunnel_dying has run.                                                  *)

Session == INSTANCE SocksSession WITH
               Sessions <- Tunnels,
               toClient <- [t \in Tunnels |-> tun[t].sent.in],
               toServer <- [t \in Tunnels |-> tun[t].sent.out],
               over     <- [t \in Tunnels |-> tun[t].life = "dead"]

\* The stage machine, the TLS callbacks, client_shutdown and the shim's
\* teardown together only produce transcripts the abstract session allows,
\* one message per step, and every turned-away client (no acceptable
\* method, an error reply, the UDP ASSOCIATE reply) sees its tunnel end.
SessionRefinement == Session!Spec

-----------------------------------------------------------------------------
(* Properties the spec states and the code does not keep (violation runs). *)

\* Section 7: an I/O error ends the tunnel; no error "recovers in place".
\* So no step of a tunnel that is shutting down (or shuts down in that very
\* step) writes anything to either peer.
NoWriteAfterShutdown ==
    [][\A t \in Tunnels, s \in Sockets :
         Len(tun'[t].sent[s]) > Len(tun[t].sent[s]) => tun'[t].life = "live"]_vars

\* Section 7: "I/O error -> log and shutdown".  A read or write that
\* completes with an error (socket->result < 0) starts the teardown in the
\* same do_next call: tunnel_shutdown, or, on the TLS path,
\* tls_client_shutdown.  The write of the feedback receipt and the client
\* read of tls_streaming are the completions whose result is not looked at.
ShutdownStarted(t) == tun'[t].life # "live" \/ tun'[t].tls = "closing"

IoErrorEndsTunnel ==
    [][\A t \in Tunnels, s \in Sockets :
         (ReadDone(t, s) \/ WriteDone(t, s)) /\ tun'[t].sock[s].result = "err"
            => ShutdownStarted(t)]_vars

\* Section 3 invariant 5 and scenario 1: in a release build a CONNECT to a
\* loopback destination is refused ("\5\2..."), never answered with success.
LoopbackDestinationRefused ==
    config.release =>
        \A t \in Tunnels : tun[t].dest = "loopback" => ~Contains(tun[t].sent.in, "success")

\* Section 5: "tunnels in any non-terminal stage transition safely to
\* teardown because all in-flight I/O is cancellable and teardown drains";
\* the TLS transport's shutdown is the teardown of the TLS path (section 7).
\* So no tunnel reaches tunnel_dying with its TLS transport still open,
\* client_shutdown included.
TlsClosedBeforeDying == \A t \in Tunnels : ~TlsOpenAtDying(t)

\* Sections 4.3 and 4.5: on the TLS path the data the server sends arrives
\* through tunnel_tls_on_data_received; no stage may receive it and drop it.
TlsServerDataHandled ==
    \A t \in Tunnels : "tls_data_outside_first_package" \notin tun[t].faults

=============================================================================
