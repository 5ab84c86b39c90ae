---------------------------- MODULE AccessPolicy ----------------------------
(***************************************************************************)
(* can_access (client.c) on the bytes of a sockaddr.  A debug build allows *)
(* everything; a release build reads the address as 32-bit words in host   *)
(* order (ntohl) and rejects 127.0.0.0/8, ::1 and ::ffff:127.0.0.0/104.    *)
(* It is checked against a byte-level definition of "localhost" (spec      *)
(* section 6: the access policy rejects localhost v4/v6 in release builds).*)
(***************************************************************************)
EXTENDS Naturals, Sequences

CONSTANTS
    V4Addrs,    \* sin_addr as 4 bytes, network order
    V6Addrs     \* sin6_addr as 16 bytes, network order

VARIABLE addr   \* the sockaddr handed to can_access

Addrs ==
    [family : {"AF_INET"}, bytes : V4Addrs] \cup [family : {"AF_INET6"}, bytes : V6Addrs]

\* A uint32_t as its high and low 16-bit halves (TLC's integers are
\* signed 32-bit, so a word above 2^31 is kept in two parts).
Word(hi, lo) == [hi |-> hi, lo |-> lo]
WordEq(w, n) == w.hi = n \div 65536 /\ w.lo = n % 65536
Shr24(w) == w.hi \div 256

\* Mutant: the word is loaded in little-endian host order (ntohl left out).
NtohlMissing(b, i) == Word(b[i + 3] * 256 + b[i + 2], b[i + 1] * 256 + b[i])

\* ntohl of the 32-bit word at byte offset i of the address.
Ntohl(b, i) == Word(b[i] * 256 + b[i + 1], b[i + 2] * 256 + b[i + 3])

\* can_access: the #if !defined(NDEBUG) early return, then the IPv4 test
\* (d >> 24) != 0x7F and the two IPv6 patterns; other families are denied.
CanAccess(release, a) ==
    LET w(k) == Ntohl(a.bytes, 4 * k - 3)
    IN  \/ ~release
        \/ a.family = "AF_INET" /\ Shr24(w(1)) # 127
        \/ /\ a.family = "AF_INET6"
           /\ ~(WordEq(w(1), 0) /\ WordEq(w(2), 0) /\ WordEq(w(3), 0) /\ WordEq(w(4), 1))
           /\ ~(WordEq(w(1), 0) /\ WordEq(w(2), 0) /\ WordEq(w(3), 65535)
                /\ Shr24(w(4)) = 127)

Init == addr \in Addrs

Next == UNCHANGED addr

Spec == Init /\ [][Next]_addr

-----------------------------------------------------------------------------
(* Properties.                                                              *)

\* Localhost on the bytes: 127/8, ::1, and 127/8 mapped into IPv6.
IsLoopback(a) ==
    LET b == a.bytes
    IN  IF a.family = "AF_INET" THEN b[1] = 127
        ELSE \/ \A i \in 1..16 : b[i] = IF i = 16 THEN 1 ELSE 0
             \/ /\ \A i \in 1..10 : b[i] = 0
                /\ b[11] = 255 /\ b[12] = 255 /\ b[13] = 127

\* A release build refuses exactly the loopback destinations and a debug
\* build refuses none: the word arithmetic of can_access agrees with the
\* byte patterns whatever the host byte order of the address.
AccessRejectsLoopback ==
    /\ CanAccess(TRUE, addr) = ~IsLoopback(addr)
    /\ CanAccess(FALSE, addr)
=============================================================================
