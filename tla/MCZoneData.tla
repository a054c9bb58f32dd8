---------------------------- MODULE MCZoneData ----------------------------
(***************************************************************************)
(* A zone database for model checking: the zone example. with the cases   *)
(* the answer code branches on: addresses of both families; MX and NS     *)
(* with additional data, one MX of them with targets whose addresses     *)
(* overflow a 512-byte response, so that the trim loop pops whole         *)
(* RR-sets; CNAME chains of the configured depth and one longer; a CNAME  *)
(* out of the zone; dynamic CNAME and address RR-sets; a wildcard; and    *)
(* delegations with glue.  Nothing lies outside example., so names        *)
(* outside it are not authoritative.                                      *)
(***************************************************************************)
EXTENDS DnsZone

E == <<"example">>
N(l) == Child(E, l)

MCZoneNodes ==
    { << >>, E, N("www"), N("ns1"), N("ns2"), N("mail"), N("big"),
      N("c0"), N("c1"), N("c2"), N("c3"), N("c4"), N("cb"), N("out"),
      N("dyn"), N("geo"), N("mx"), N("half"), N("wild"), Child(N("wild"), Wild),
      N("sub"), Child(N("sub"), "ns"), N("fat"), Child(N("fat"), "ns") }

MCZRoots == {E}
MCDelegs == {N("sub"), N("fat")}

MCNodeRRsets ==
    [n \in MCZoneNodes |->
        CASE n = E -> << SoaRRset(46),
                         NSRRset(<< Rdata(16, N("ns1"), FALSE),
                                    Rdata(16, N("ns2"), FALSE) >>),
                         MXRRset(<< Rdata(19, N("mail"), FALSE) >>),
                         TxtRRset(40) >>
          [] n = N("www")  -> << AddrRRset(1, 1) >>
          [] n = N("ns1")  -> << AddrRRset(1, 0) >>
          [] n = N("ns2")  -> << AddrRRset(1, 1) >>
          [] n = N("mail") -> << AddrRRset(2, 0) >>
          [] n = N("big")  -> << AddrRRset(40, 0) >>
          [] n = N("half") -> << AddrRRset(26, 0) >>
          [] n = N("mx")   -> << MXRRset(<< Rdata(19, N("half"), FALSE),
                                             Rdata(19, N("mail"), FALSE) >>) >>
          [] n = N("c0")   -> << CnameRRset(N("c1"), 17) >>
          [] n = N("c1")   -> << CnameRRset(N("c2"), 17) >>
          [] n = N("c2")   -> << CnameRRset(N("c3"), 17) >>
          [] n = N("c3")   -> << CnameRRset(N("c4"), 17) >>
          [] n = N("c4")   -> << CnameRRset(N("www"), 18) >>
          [] n = N("cb")   -> << CnameRRset(N("big"), 18) >>
          [] n = N("out")  -> << CnameRRset(<<"www", "net">>, 22) >>
          [] n = N("dyn")  -> << DynCnameRRset(20) >>
          [] n = N("geo")  -> << DynAddrRRset >>
          [] n = Child(N("wild"), Wild) -> << AddrRRset(1, 0) >>
          [] n = N("sub")  -> << NSRRset(<< Rdata(19, Child(N("sub"), "ns"), TRUE),
                                            Rdata(16, N("ns1"), FALSE) >>) >>
          [] n = Child(N("sub"), "ns") -> << AddrRRset(1, 1) >>
          [] n = N("fat")  -> << NSRRset(<< Rdata(19, Child(N("fat"), "ns"), TRUE),
                                            Rdata(16, N("big"), FALSE) >>) >>
          [] n = Child(N("fat"), "ns") -> << AddrRRset(1, 0) >>
          [] OTHER -> << >>]

=============================================================================
