---------------------------- MODULE SocksSession ----------------------------
(***************************************************************************)
(* What the two peers of a tunnel can observe: the bytes the SOCKS5 client *)
(* reads, the bytes the SSR server reads, and whether the session is over. *)
(* Messages are named by kind.  This is the promise of the client core    *)
(* (spec sections 4.3, 4.4 and 6): one method reply, then the request is   *)
(* answered once; the obfuscated session starts with the address record   *)
(* and at most one feedback receipt; payload flows only after a success   *)
(* reply; a refused session is torn down.                                 *)
(***************************************************************************)
EXTENDS Sequences, SequencesExt

CONSTANT Sessions

VARIABLES
    toClient,   \* [Sessions -> Seq(message kinds)], what the client read
    toServer,   \* [Sessions -> Seq(message kinds)], what the server read
    over        \* [Sessions -> BOOLEAN], the session is torn down

vars == <<toClient, toServer, over>>

MethodReplies  == {"method_none", "no_acceptable"}
RefusalReplies == {"host_unreachable", "not_allowed", "refused", "udp_reply"}

Init ==
    /\ toClient = [p \in Sessions |-> <<>>]
    /\ toServer = [p \in Sessions |-> <<>>]
    /\ over = [p \in Sessions |-> FALSE]

Accepted(p) == toClient[p] = <<"method_none">>
Succeeded(p) == Contains(toClient[p], "success")

ToClient(p, m) ==
    /\ toClient' = [toClient EXCEPT ![p] = Append(@, m)]
    /\ UNCHANGED <<toServer, over>>

ToServer(p, m) ==
    /\ toServer' = [toServer EXCEPT ![p] = Append(@, m)]
    /\ UNCHANGED <<toClient, over>>

\* The greeting is answered.
MethodReply(p) ==
    /\ toClient[p] = <<>>
    /\ \E m \in MethodReplies : ToClient(p, m)

\* The request is refused, or answered by a UDP ASSOCIATE reply, before
\* anything went to the server.
Refuse(p) ==
    /\ Accepted(p) /\ toServer[p] = <<>>
    /\ \E m \in RefusalReplies : ToClient(p, m)

\* The encrypted address record opens the upstream session.
Auth(p) ==
    /\ Accepted(p) /\ toServer[p] = <<>>
    /\ ToServer(p, "auth")

\* The receipt of the server's feedback, before the client is answered.
Receipt(p) ==
    /\ Accepted(p) /\ toServer[p] = <<"auth">>
    /\ ToServer(p, "receipt")

\* The success reply, once the upstream session was opened.
Succeed(p) ==
    /\ Accepted(p) /\ toServer[p] # <<>>
    /\ ToClient(p, "success")

Upload(p)   == Succeeded(p) /\ ToServer(p, "data")
Download(p) == Succeeded(p) /\ ToClient(p, "data")

Finish(p) ==
    /\ ~over[p]
    /\ over' = [over EXCEPT ![p] = TRUE]
    /\ UNCHANGED <<toClient, toServer>>

Next ==
    \E p \in Sessions :
        /\ ~over[p]
        /\ \/ MethodReply(p) \/ Refuse(p) \/ Auth(p) \/ Receipt(p) \/ Succeed(p)
           \/ Upload(p) \/ Download(p) \/ Finish(p)

\* A session whose client was turned away (no acceptable method, an error
\* reply, or the UDP ASSOCIATE reply) ends: nothing else is pending on it.
Rejected(p) ==
    /\ toClient[p] # <<>>
    /\ \/ toClient[p][1] = "no_acceptable"
       \/ Len(toClient[p]) = 2 /\ toClient[p][2] \in RefusalReplies

Spec == Init /\ [][Next]_vars /\ \A p \in Sessions : WF_vars(Rejected(p) /\ Finish(p))
=============================================================================
