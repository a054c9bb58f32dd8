---------------------------- MODULE MCDnsPacket ----------------------------
(***************************************************************************)
(* DnsPacket instantiated for TLC: the zone of MCZoneData and a client   *)
(* that sends well-formed queries for every kind of name and type of     *)
(* that zone, EDNS queries with and without the client-subnet option,    *)
(* malformed ones of each kind decode_query() tells apart, CH-class       *)
(* queries and requests shorter than a header.                           *)
(***************************************************************************)
EXTENDS DnsPacket, MCZoneData

Q(name, qtype) == [name |-> name, qtype |-> qtype, qclass |-> "IN"]

OptLen(opts) == FoldLeft(LAMBDA acc, o : acc + 4 + o.dlen, 0, opts)
Opt(size, opts) == [version |-> 0, size |-> size, rdlen |-> OptLen(opts),
                    overrun |-> FALSE, opts |-> opts]
Ecs(family, mask) == [code |-> "ECS", dlen |-> 4 + AddrBytes(mask),
                      family |-> family, mask |-> mask]
Unknown == [code |-> "NSID", dlen |-> 0, family |-> 0, mask |-> 0]

Req(q, opt) ==
    [len |-> 64, v6 |-> FALSE, qr |-> FALSE, tc |-> FALSE, opcode |-> 0,
     qdcount |-> 1, arcount |-> IF opt = NoOpt THEN 0 ELSE 1, q |-> q, opt |-> opt]

QNames == { N("www"), N("mail"), N("big"), N("c0"), N("c1"), N("cb"), N("out"),
            N("dyn"), N("geo"), N("mx"), Child(N("wild"), "foo"), N("nx"),
            Child(N("sub"), "x"), N("fat"), E, <<"www", "net">> }
QTypes == {"A", "AAAA", "MX", "NS", "ANY", "CNAME", "TXT"}

Plain == { Req(Q(n, t), NoOpt) : n \in QNames, t \in QTypes }

Edns == { Req(Q(N("www"), "A"), Opt(4096, << >>)),
          Req(Q(N("big"), "A"), Opt(1232, << >>)),
          Req(Q(N("fat"), "A"), Opt(1232, << >>)),
          Req(Q(N("geo"), "A"), Opt(1232, << Ecs(1, 24) >>)),
          Req(Q(N("www"), "AAAA"), Opt(4096, << Ecs(2, 56), Unknown >>)),
          Req(Q(N("big"), "A"), Opt(512, << Ecs(2, 128), Ecs(2, 128) >>)),
          Req(Q(N("www"), "A"), Opt(4096, << Ecs(1, 33) >>)),
          Req(Q(N("www"), "A"), Opt(4096, << Ecs(3, 8) >>)),
          Req(Q(N("www"), "A"), [Opt(4096, << Ecs(1, 24) >>) EXCEPT !.rdlen = @ + 2]),
          Req(Q(N("www"), "A"), [Opt(4096, << Ecs(1, 24) >>) EXCEPT !.overrun = TRUE]),
          Req(Q(N("www"), "A"), [Opt(4096, << >>) EXCEPT !.version = 1]) }

Malformed == { [Req(Q(N("www"), "A"), NoOpt) EXCEPT !.qdcount = 2],
               [Req(Q(N("www"), "A"), NoOpt) EXCEPT !.qr = TRUE],
               [Req(Q(N("www"), "A"), NoOpt) EXCEPT !.tc = TRUE],
               Req(BadQuestion, NoOpt),
               [Req(Q(N("www"), "A"), NoOpt) EXCEPT !.opcode = 4],
               Req(Q(E, "AXFR"), NoOpt),
               [Req(Q(N("www"), "A"), NoOpt) EXCEPT !.v6 = TRUE] }

Chaos == { [Req(Q(<<"version", "bind">>, "TXT"), NoOpt) EXCEPT !.q.qclass = "CH"],
           [Req(Q(N("www"), "A"), NoOpt) EXCEPT !.q.qclass = "CH"] }

Short == { [Req(BadQuestion, NoOpt) EXCEPT !.len = 4, !.opcode = 4],
           [Req(BadQuestion, NoOpt) EXCEPT !.len = 4] }

MCRequests == Plain \cup Edns \cup Malformed \cup Chaos \cup Short

\* A UDP query whose OPT RR carries 22 valid IPv6 client-subnet options of
\* 20 bytes each: 528 bytes of options in a 573-byte request.
EcsFlood == Req(Q(N("big"), "A"), Opt(512, [i \in 1..22 |-> Ecs(2, 128)]))
MCRequestsEcsFlood == MCRequests \cup {EcsFlood}

\* What a TCP client sends: no short requests, the rest as over UDP.
MCRequestsTcp == Plain \cup Edns \cup Malformed \cup Chaos

\* A zero-filled buffer: QDCOUNT 0.
MCInitBuf == [qr |-> FALSE, tc |-> FALSE, opcode |-> 0, qdcount |-> 0, arcount |-> 0,
              q |-> BadQuestion]

MCDyncResults == { [name |-> N("www"), scope |-> 16], [name |-> N("dyn"), scope |-> 0],
                   [name |-> <<"x", "net">>, scope |-> 0] }
MCDynaddrResults == { [v4 |-> 1, v6 |-> 0, scope |-> 24], [v4 |-> 2, v6 |-> 2, scope |-> 0] }


(***************************************************************************)
(* search_ltree() is also checked against a declarative statement of what *)
(* the search of a name finds, over every name of up to SearchMaxLabels  *)
(* labels drawn from SearchLabels and every check root the CNAME chase    *)
(* passes.                                                                 *)
(***************************************************************************)
SearchLabels == {"example", "www", "sub", "ns", "wild", "*", "zz"}
SearchMaxLabels == 3
SearchNames == UNION {[1..k -> SearchLabels] : k \in 0..SearchMaxLabels}
CheckRoots == MCZRoots \cup {NoNode}

(***************************************************************************)
(* The reference: the walk ends at the longest ancestor-or-self of q that *)
(* is a node.  The deepest flagged node above it decides the status (a    *)
(* zone apex: AUTH, a delegation: DELEG, none: NOAUTH); the authority is  *)
(* the deepest zone apex above it; in AUTH space the result is q's own    *)
(* node, or the wildcard child of the last node reached, or none.         *)
(***************************************************************************)
Reached(n) == CHOOSE p \in ZoneNodes :
                 IsSuffixOf(p, n)
                 /\ \A p2 \in ZoneNodes : IsSuffixOf(p2, n) => Len(p2) <= Len(p)
Deepest(S) == CHOOSE d \in S : \A d2 \in S : Len(d2) <= Len(d)

RefSearch(n, cr) ==
    LET p == Reached(n)
        flagged == {a \in ZRoots \cup Delegs : IsSuffixOf(a, p)}
        apexes == {a \in ZRoots : IsSuffixOf(a, p)}
        status == IF flagged = {} THEN NOAUTH
                  ELSE IF Deepest(flagged) \in ZRoots THEN AUTH ELSE DELEG
        node == CASE status = DELEG -> Deepest(flagged)
                  [] status = AUTH /\ p = n -> p
                  [] status = AUTH /\ Child(p, Wild) \in ZoneNodes -> Child(p, Wild)
                  [] OTHER -> NoNode
    IN [status |-> status, node |-> node,
        auth |-> IF apexes = {} THEN NoNode ELSE Deepest(apexes),
        crossed |-> cr # NoNode /\ IsSuffixOf(cr, p)]

\* search_ltree() finds, for every name and check root, what the reference
\* says: the status, the result node (wildcards included), the authority
\* and whether the walk crossed the check root of a CNAME chase.  The zone
\* is constant, so the comparison is made once, before the first request.
SearchMatchesReference ==
    nreq = 0 /\ pc = "idle" =>
    \A n \in SearchNames, cr \in CheckRoots : SearchLtree(n, cr) = RefSearch(n, cr)

=============================================================================
