--------------------------- MODULE MCAccessPolicy ---------------------------
(***************************************************************************)
(* Addresses for AccessPolicy: IPv4 over the bytes 0, 1, 127 and 255 in   *)
(* every position (so loopback in the first byte is told apart from 127    *)
(* elsewhere); IPv6 all-zero or global prefixes, mapped or not, with IPv4  *)
(* tails that are or are not loopback, and ::1 itself.                     *)
(***************************************************************************)
EXTENDS AccessPolicy

Zeros(n) == [i \in 1..n |-> 0]

MCV4Addrs == [1..4 -> {0, 1, 127, 255}]

MCV6Addrs ==
    {p \o m \o v : p \in {Zeros(10), <<32, 1, 13, 184, 0, 0, 0, 0, 0, 0>>},
                   m \in {<<0, 0>>, <<255, 255>>, <<0, 1>>, <<255, 0>>},
                   v \in {<<127, 0, 0, 1>>, <<0, 0, 0, 1>>, <<1, 0, 0, 127>>,
                          <<8, 8, 8, 8>>, <<0, 0, 0, 0>>, <<127, 255, 255, 255>>}}
=============================================================================
