# TLA+ models of the shadowsocksr-native SOCKS5 client (`src/src/client/client.c`)

## 1. The system and its parts

`client.c` is the local end of an SSR tunnel. It accepts a SOCKS5 client,
runs the SOCKS5 handshake and request, connects to the SSR server, sends the
encrypted initial package (the "auth") and, when the cipher needs it, a
feedback receipt, replies success to the client and then pipes data both ways.
There is also a TLS-wrapped variant, where the TLS transport drives the
tunnel through three callbacks.

| Part | Source | State | Operations |
|---|---|---|---|
| Stage machine | `do_next`, the `do_*` handlers | `ctx->stage` (16 stages); each socket's `rdstate`/`wrstate` (busy/done/stop/dead) and its one `result` | every completion (read, write, getaddrinfo, connect) enters `do_next`, which latches the completed operation and calls the stage's handler |
| Upstream session | `do_resolve_…`, `do_connect_ssr_server(_done)`, `do_ssr_auth_sent`, `do_ssr_receipt_for_feedback`, `do_socks5_reply_success` | `ctx->cipher`, `init_pkg` | DNS, connect, the auth write, the feedback read, the receipt write, the success reply |
| TLS variant | `tunnel_tls_*` | stage `tls_connecting/first_package/streaming`; the TLS client | connection established, data received, shutting down; client→server streaming |
| Registry | `init_done_cb`, `tunnel_dying`, `client_shutdown` | `env->tunnel_set` | add on accept, remove on dying, shut every tunnel down at exit |
| Access policy | `can_auth_*`, `can_access` | the NDEBUG build switch | method choice; the loopback filter |
| Not in `src/` | `tunnel.c` shim, `s5.c` parser, cipher/obfs, `tls_cli.c` | | events and outcomes delivered to the tunnel |

The parts interact through the tunnel record. The shim turns libuv callbacks
into `do_next` calls. Handlers issue the next read or write through the shim.
`tunnel_shutdown` closes both sockets and, once both close callbacks have run,
calls `tunnel_dying`, which leaves the registry. The TLS callbacks act on the
same record.

Hard behaviours: several completions and TLS callbacks are pending at once;
socket `result` is shared by every operation on that socket; errors at every
step; a feedback round that may or may not happen; `client_shutdown` arriving
in any stage; the undefined behaviour on a failed read in
`tunnel_tls_client_incoming_streaming` (it never checks `result`).

## 2. Modules

* `Tunnel.tla` is the whole client side. `tun[t]` is one record per tunnel,
  holding `life` (idle/live/closing/dead), `stage`, `sock[in|out]` with `rd`,
  `wr` and `result`, the pending request `req`, the `cipher` and `tls`
  states, a read counter, the destination class `dest`, the message logs
  `sent.in`/`sent.out` (what each peer has been sent) and `faults` (the
  ASSERTs that failed; execution then goes on as in a release build). Other
  state: `config` (one of `Configs`), `registry` (= `tunnel_set`) and
  `closingAll` (set by `client_shutdown`).
  - Each `do_*` handler is an operator `Do…(x)` from a tunnel record to the
    set of its possible successors. The set covers the parser's verdict, the
    cipher's result and the peer's address class. `DoNext(x, s)` is the
    switch of `do_next`, and `Latch` is its `ASSERT(done); = stop`.
    `TunnelExtractData` is the cipher step of `tunnel_extract_data` (data,
    or NULL when the cipher fails). Both streaming handlers use it.
  - Actions: `Accept` (`init_done_cb` + the first read), `ReadDone`,
    `WriteDone`, `RequestDone` (the three `tunnel_*_done` callbacks, each with
    an ok/err `result`), `TlsOnConnectionEstablished`, `TlsOnDataReceived`,
    `TlsOnShuttingDown`, `TlsTransportClosed` (the TLS client failing),
    `TunnelDying`, `ClientShutdown`, and `Quiescent` (the idle event loop once
    every modelled connection is over).
  - The handlers run to completion inside one action, including every
    `socket_read`/`socket_write`/`tunnel_shutdown` they call, because libuv
    runs them on one thread.
* `MCTunnel.tla` holds the model values and the configuration sets for TLC.
* `SocksSession.tla` is the abstract specification of one session as the
  two peers see it. It has the client's transcript, the server's
  transcript, and an `over` flag. Its actions are: one method reply; a
  refusal or UDP reply before anything went upstream; the auth; at most one
  receipt before the client is answered; success only after the auth;
  payload only after success. A turned-away session is weakly fair to end.
  `Tunnel` instantiates it (`Session == INSTANCE SocksSession WITH …`),
  mapping the transcripts to `tun[t].sent` and `over` to `life = "dead"`.
  `SessionRefinement == Session!Spec` is checked as a PROPERTY.
* `InitPkg.tla` is `initial_package_create` on byte sequences: the atyp
  byte, 4/16 address bytes or `(uint8_t)strlen(daddr)` and the name, then
  `htons(dport)`. Its input is the parser's `s5_ctx`; for a host, `daddr` is
  the name plus a NUL terminator. `s5.c` is not in `src/` and the spec does
  not say so; it is inferred from the `strlen` that reads it. `RoundTrip`
  compares it with an RFC 1928 decoder written from the wire layout.
* `AccessPolicy.tla` is `can_access` on the bytes of the sockaddr: `ntohl`,
  `d >> 24`, and the two IPv6 word patterns. TLC's integers are signed
  32-bit, so a 32-bit word is kept as two 16-bit halves.
  `AccessRejectsLoopback` compares it with a byte-level definition of
  localhost.
* `MCInitPkg.tla` and `MCAccessPolicy.tla` define the input sets.

Definitions marked `spec_modelled` in `PROJECT.json` are the shim's
operations (`socket_read`, `socket_write`, `tunnel_shutdown`, the
traditional streaming loop, the TLS transport's failure). They live in
`tunnel.c` / `tls_cli.c`, outside `src/`, and are modelled from the spec.

## 3. Runs

| Run | cfg | Checks | Result |
|---|---|---|---|
| tunnel | `MCTunnel.cfg` | TypeOK, HandlerPreconditions, ClientTranscript, UpstreamTranscript, TlsStoppedBeforeDying, TeardownCompletes, SessionRefinement | pass (~15k states) |
| write_after_shutdown | `MCTunnel_NoWriteAfterShutdown.cfg` | NoWriteAfterShutdown | violation: code bug |
| loopback_destination | `MCTunnel_LoopbackDestinationRefused.cfg` | LoopbackDestinationRefused | violation: divergence |
| tls_server_data | `MCTunnel_TlsServerDataHandled.cfg` | TlsServerDataHandled | violation: divergence |
| io_error_receipt | `MCTunnel_IoErrorReceipt.cfg` | IoErrorEndsTunnel | violation: code bug |
| io_error_tls | `MCTunnel_IoErrorTls.cfg` | IoErrorEndsTunnel | violation: code bug |
| init_pkg | `MCInitPkg.cfg` | RoundTrip | pass (1,770 requests) |
| init_pkg_nul | `MCInitPkg_HostWithNul.cfg` | RoundTrip | violation: divergence |
| tls_feedback | `MCTunnel_TlsFeedback.cfg` | UpstreamTranscript | violation: spec gap |
| tls_lifetime | `MCTunnel_TlsClosedBeforeDying.cfg` | TlsClosedBeforeDying | violation: spec gap |
| access_policy | `MCAccessPolicy.cfg` | AccessRejectsLoopback | pass (304 addresses) |

What the properties check:
* **HandlerPreconditions:** every ASSERT on the rd/wr states holds in every
  reachable interleaving.
* **ClientTranscript:** the client sees exactly one method reply, at most one
  request reply, and payload only after success.
* **UpstreamTranscript:** the server sees auth first, then the receipt if and
  only if there was feedback, and payload only after the client was told
  success.
* **TlsStoppedBeforeDying:** on the TLS path, every teardown that the stage
  machine or a TLS callback starts stops the transport first
  (`tls_client_shutdown`, then `on_shutting_down`, then `tunnel_shutdown`).
  So `tunnel_dying` never frees a tunnel that the transport can still call
  back. `client_shutdown` is the one exception (violation 8).
* **TeardownCompletes:** every started teardown ends in `tunnel_dying`.
  Teardown starts with an error reply in stage kill, a `tunnel_shutdown`,
  or a `tls_client_shutdown`; the last needs the TLS transport's
  `on_shutting_down`.
* **SessionRefinement:** every behaviour of the stage machine, the TLS
  callbacks and the teardown is a behaviour of `SocksSession`. It holds
  even with the bugs below, because they concern when a tunnel stops, not
  the order of what the peers read.
* **RoundTrip:** P6 for IPv4, IPv6 and host-name requests without a NUL
  byte. The ports include 0, 255, 256 and 65535, where the byte order shows.
* **AccessRejectsLoopback:** the release build rejects exactly 127/8, ::1
  and ::ffff:127/104, and the debug build rejects nothing. The inputs are
  IPv4 addresses with 127 in every byte position, and IPv6 addresses with
  mapped, compatible and global prefixes.

What the violation runs show:
1. **write_after_shutdown:** when the feedback read fails,
   `do_ssr_receipt_for_feedback` shuts the tunnel down, returns false, and
   `do_next` (line 235) still sends the success reply.
2. **loopback_destination:** `can_access` is applied to the SSR server's
   address (line 500), not to the SOCKS5 destination, and the TLS path never
   calls it. A release build answers a CONNECT to 127.0.0.1 with success.
3. **tls_server_data:** after the first package, server data that reaches
   `tunnel_tls_on_data_received` hits `ASSERT(false)` and is dropped (line
   823).
4. **io_error_receipt:** in `ssr_receipt_of_feedback_sent`, `do_next`
   (line 240) never looks at `outgoing->result`. A failed receipt write is
   followed by the success reply and streaming.
5. **io_error_tls:** `tunnel_tls_client_incoming_streaming` (line 769)
   hands a negative `result` to `tunnel_extract_data` as a length. The
   model leaves the outcome open: a buffer that is sent, or NULL and
   `tls_client_shutdown`. The trace takes the first, so the tunnel does not
   shut down. The read is re-armed either way.
6. **init_pkg_nul:** the host length comes from `strlen(daddr)` (line
   167). A NUL byte inside a host name, which RFC 1928 allows, truncates
   the record, so the server is sent to another host.
7. **tls_feedback:** on the TLS path with a cipher that returns feedback,
   `tunnel_tls_on_data_received` (line 817) guards only with
   `assert(!feedback)`. A release build drops the feedback, replies success
   and streams without the receipt. The spec forbids feedback on this path
   but does not say what rules it out.
8. **tls_lifetime:** `client_shutdown` (line 146) calls `tunnel_shutdown`
   on a TLS tunnel in `tls_connecting`, `tls_first_package` or
   `tls_streaming`, bypassing `tls_client_shutdown`. `tunnel_dying` then
   frees `client_ctx` and the cipher while the transport is still open.
   Whether `tunnel_shutdown` in `tunnel.c` stops the TLS client as well is
   not stated by the spec; if it does not, a later callback uses freed
   memory.

Each property of a passing run has a mutant in `PROJECT.json`: a plausible
bug in one handler that TLC catches.

**Bounds.** One tunnel with all configurations reaches every stage and
every branch of every handler. The main run leaves out the 4 TLS
configurations whose cipher asks for feedback: there the spec's TLS premise
fails, and `tls_feedback` checks them on their own. `MaxReads = 4` allows a handshake, a request
and two streamed reads, so both streaming directions occur and each read
is re-armed. `client_shutdown` may come in every reachable state of the one
tunnel. The read bound
guards only successful reads, so errors and EOF can happen at every point.

**Fairness.** Weak fairness applies only to what libuv and the TLS client do
on their own: write completions (a queued write always completes, with
success or error), the close callbacks that run `tunnel_dying`, and TLS's
shutting-down callback. Reads, DNS, connect and the TLS handshake depend on
the peer and get none. So no property claims that a session finishes.
Symmetry is not used; the runs that check liveness would make it unsound.

## 4. Not modelled (yet)

* The byte-level parse of the request and the `size-3` at line 376.
  `socks5_address_parse` and `s5_parse` are not in `src/`, and the spec does
  not say what they do with a length that wrapped. Tunnel keeps only the
  parser's verdicts.
* The cipher/obfs plugins: only their ok/fail/feedback results are
  modelled. A feedback frame split across reads (line 598) depends on the
  plugin's buffering.
* The idle timer: `tunnel_timeout_expire_done` is a no-op, and the spec
  (section 5) calls timeouts observational in this core. So no property
  claims that every tunnel ends.
* What `tls_cli.c` does after `tunnel_dying` when it is still open. The
  callbacks are modelled only while the tunnel is live. `TlsOpenAtDying`
  marks the states where a late callback would find freed memory, and the
  `tls_lifetime` run shows how to reach them.
* DNS, the listener, configuration loading.

## 5. Plan for the next steps

1. Tunnels share only `registry`, `closingAll` and `config`, so a second
   tunnel adds no question of its own: `client_shutdown` treats every
   tunnel alike, and its effect on one tunnel in each stage is already
   explored. If tunnels come
   to share more state, the main run's invariants should also be run with
   two tunnels.
2. A module for the SOCKS5 parser's chunked input (need-more and residual
   bytes), if its behaviour can be fixed from the spec alone.
