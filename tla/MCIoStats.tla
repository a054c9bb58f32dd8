----------------------------- MODULE MCIoStats -----------------------------
(***************************************************************************)
(* IoStats for TLC: one UDP and one TCP I/O thread.  The UDP requests are  *)
(* a plain query answered NOERROR, an IPv6 EDNS query with a client-subnet *)
(* option answered NXDOMAIN, and an EDNS query truncated to TC; the TCP    *)
(* thread gets IPv6 queries that are answered or dropped.  Each sequence   *)
(* is the satom_inc() calls process_dns_query() makes, in its order.       *)
(***************************************************************************)
EXTENDS IoStats

MCUdpRequests == {<<"v6", "edns", "edns_clientsub", "nxdomain">>, <<"edns", "edns_tc", "noerror">>}
MCTcpRequests == {<<"v6", "dropped">>}

MCTracked == {"noerror", "nxdomain", "dropped", "edns_tc", "v6", "edns", "edns_clientsub"}

=============================================================================
