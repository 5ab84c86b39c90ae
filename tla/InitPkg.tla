------------------------------- MODULE InitPkg -------------------------------
(***************************************************************************)
(* initial_package_create (client.c): the destination record that opens    *)
(* the obfuscated session and follows "\5\0\0" in the success reply.       *)
(* Its input is what the SOCKS5 parser left in s5_ctx: atyp, the daddr     *)
(* buffer and dport.  For a host name the parser copies the length-prefixed*)
(* name into daddr and terminates it with a NUL byte (s5.c is not in src; *)
(* the terminator is what the strlen here relies on).  The record is       *)
(* checked against a decoder written from                                  *)
(* the wire layout of sections 4.3 and 6 (atyp || address || port, big     *)
(* endian), which is RFC 1928's.                                          *)
(***************************************************************************)
EXTENDS Naturals, Sequences, SequencesExt

CONSTANTS
    V4Addrs,    \* 4-byte sequences
    V6Addrs,    \* 16-byte sequences
    Hosts,      \* host names as byte sequences of length 0..255
    Ports       \* values of dport, 0..65535

Bytes == 0..255

ASSUME /\ V4Addrs \subseteq [1..4 -> Bytes]
       /\ V6Addrs \subseteq [1..16 -> Bytes]
       /\ \A h \in Hosts : h \in Seq(Bytes) /\ Len(h) <= 255
       /\ Ports \subseteq 0..65535

VARIABLE req    \* the s5_ctx fields initial_package_create reads

\* enum s5_atyp as the wire knows it (RFC 1928 ATYP).
AtypCode == [ipv4 |-> 1, host |-> 3, ipv6 |-> 4]

\* What the parser produces for a CONNECT request.
Requests ==
    [atyp : {"ipv4"}, daddr : V4Addrs, dport : Ports]
    \cup [atyp : {"ipv6"}, daddr : V6Addrs, dport : Ports]
    \cup {[atyp |-> "host", daddr |-> h \o <<0>>, dport |-> p] : h \in Hosts, p \in Ports}

\* strlen over a NUL-terminated buffer.
Strlen(s) == SelectInSeq(s, LAMBDA b : b = 0) - 1

\* htons, as the two bytes it stores in memory.
Htons(p) == <<p \div 256, p % 256>>

\* Mutant: the port is stored in host byte order (htons left out).
InitialPackageCreateNoHtons(r) ==
    LET len  == Strlen(r.daddr) % 256
        addr == CASE r.atyp = "ipv4" -> SubSeq(r.daddr, 1, 4)
                  [] r.atyp = "ipv6" -> SubSeq(r.daddr, 1, 16)
                  [] r.atyp = "host" -> <<len>> \o SubSeq(r.daddr, 1, len)
    IN  <<AtypCode[r.atyp]>> \o addr \o <<r.dport % 256, r.dport \div 256>>

\* initial_package_create: atyp byte; 4 or 16 address bytes, or a length
\* byte (uint8_t)strlen(daddr) and that many bytes; then the port.
\* buffer->len is the length of the sequence.
InitialPackageCreate(r) ==
    LET len  == Strlen(r.daddr) % 256
        addr == CASE r.atyp = "ipv4" -> SubSeq(r.daddr, 1, 4)
                  [] r.atyp = "ipv6" -> SubSeq(r.daddr, 1, 16)
                  [] r.atyp = "host" -> <<len>> \o SubSeq(r.daddr, 1, len)
    IN  <<AtypCode[r.atyp]>> \o addr \o Htons(r.dport)

Init == req \in Requests

\* The record is computed from a fixed request; nothing else happens.
Next == UNCHANGED req

Spec == Init /\ [][Next]_req

-----------------------------------------------------------------------------
(* Properties.                                                              *)

\* Reference decoder of the record (RFC 1928 address field and port): the
\* address triple, and the number of bytes it consumed.
Decode(pkg) ==
    LET code == pkg[1]
        alen == CASE code = 1 -> 4 [] code = 4 -> 16 [] code = 3 -> 1 + pkg[2]
        addr == IF code = 3 THEN SubSeq(pkg, 3, 2 + pkg[2]) ELSE SubSeq(pkg, 2, 1 + alen)
    IN  [atyp  |-> CHOOSE a \in DOMAIN AtypCode : AtypCode[a] = code,
         addr  |-> addr,
         port  |-> pkg[2 + alen] * 256 + pkg[3 + alen],
         bytes |-> 3 + alen]

\* The triple the client asked for.
Requested(r) ==
    [atyp |-> r.atyp,
     addr |-> IF r.atyp = "host" THEN SubSeq(r.daddr, 1, Len(r.daddr) - 1) ELSE r.daddr,
     port |-> r.dport]

\* P6: decoding the init_pkg that initial_package_create builds gives back
\* the requested atyp, address and port, and consumes the whole buffer, so
\* the server connects where the client asked and the success reply
\* carries the client's own address record.
RoundTrip ==
    LET pkg == InitialPackageCreate(req)
        d   == Decode(pkg)
    IN  /\ [atyp |-> d.atyp, addr |-> d.addr, port |-> d.port] = Requested(req)
        /\ d.bytes = Len(pkg)
=============================================================================
