------------------------------ MODULE MCInitPkg ------------------------------
(***************************************************************************)
(* Inputs for InitPkg: IPv4 addresses over bytes that matter to the        *)
(* encoding (0, 1, 127, 255), IPv6 addresses that are all-zero, mapped or  *)
(* global, host names up to three bytes, and ports at the byte boundaries. *)
(***************************************************************************)
EXTENDS InitPkg

Zeros(n) == [i \in 1..n |-> 0]

MCV4Addrs == [1..4 -> {0, 1, 127, 255}]

MCV6Addrs ==
    {p \o m \o v : p \in {Zeros(10), <<32, 1, 13, 184, 0, 0, 0, 0, 0, 0>>},
                   m \in {<<0, 0>>, <<255, 255>>, <<0, 1>>},
                   v \in {<<127, 0, 0, 1>>, <<0, 0, 0, 1>>, <<8, 8, 8, 8>>, <<0, 0, 0, 0>>}}

MCPorts == {0, 1, 255, 256, 8080, 65535}

\* Host names as a client may send them: letters and dots.
MCHosts == UNION {[1..n -> {46, 97}] : n \in 0..3}

\* Host names that may hold a NUL byte (RFC 1928 does not forbid one).
MCHostsWithNul == UNION {[1..n -> {0, 97}] : n \in 1..3}
=============================================================================
