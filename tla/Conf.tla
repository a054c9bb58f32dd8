-------------------------------- MODULE Conf --------------------------------
(***************************************************************************)
(* conf_load() of conf.c: the one-shot startup parse of the configuration *)
(* into gconfig, as a machine over its stages.                             *)
(*                                                                         *)
(*   options -> listen -> threads -> zones -> zone (one configure_zone()   *)
(*   per key of the zones hash) -> postproc -> done                        *)
(*                                                                         *)
(* Any log_fatal() ends in "fatal".  The configuration file is the input: *)
(* each stage chooses the part of it that it reads, so every file built   *)
(* from the constants is explored.  Only what the listener and zone       *)
(* set-up decide is kept; the many range-checked numeric options only     *)
(* become constants of the other modules.                                 *)
(***************************************************************************)
EXTENDS Naturals, Sequences, FiniteSets, SequencesExt, FiniteSetsExt

CONSTANTS
    Ifaces,        \* the getifaddrs() lists: sequences of [fam, ip]
    SpecAddr,      \* listen spec -> the address it names, or NoAddr
    ListenArrays,  \* candidate 'listen' arrays (sequences of specs)
    ListenHashes,  \* candidate 'listen' hashes: [spec, disable_tcp, late_bind]
    LateBindOpts,  \* candidate late_bind_secs values, or "absent"
    ZoneKeys,      \* zone-name keys: [labels, dot] (the text, parsed)
    LabelBytes,    \* label -> its bytes
    ZoneTtls,      \* candidate default_ttl values, or "absent"
    MaxZones,      \* bound: keys in the zones hash
    Absent,        \* an option the file does not set
    Over31         \* a default_ttl of 2^31 or more, past TLC's integers


\* What gdnsd_anysin_fromstr() makes of a spec it cannot parse.
NoAddr == [fam |-> 0, ip |-> "none"]
Opt(v, def) == IF v = Absent THEN def ELSE v

\* gconfig's initializer: zones_default_ttl.
ZonesDefaultTtl == 86400

-----------------------------------------------------------------------------
(***************************************************************************)
(* Names.  A dname is its label sequence, leftmost label first.            *)
(***************************************************************************)
LabelLen(l) == Len(LabelBytes[l])
\* The canonical wire form: a total length byte, then length-prefixed
\* labels and the root byte.
WireLabels(d) == FlattenSeq([i \in 1..Len(d) |-> <<LabelLen(d[i])>> \o LabelBytes[d[i]]])
Wire(d) == <<Len(WireLabels(d)) + 1>> \o WireLabels(d) \o <<0>>

\* dname_cmp(): memcmp() of the wire forms over the first one's length.
\* The length byte comes first, so shorter names sort first.
DnameLess(a, b) ==
    LET s == Wire(a)
        t == Wire(b)
    IN  \E i \in 1..Min({Len(s), Len(t)}) :
            s[i] < t[i] /\ \A j \in 1..i - 1 : s[j] = t[j]

\* dname_isparentof(): p is a proper ancestor of c.
IsParentOf(p, c) == IsStrictSuffix(p, c)

\* dname_from_string() on a key: invalid with a label over 63 bytes or a
\* name over 255; partial (then terminated) without the trailing dot.
DnameValid(k) ==
    /\ \A i \in 1..Len(k.labels) : LabelLen(k.labels[i]) <= 63
    /\ Len(Wire(k.labels)) - 1 <= 255
IsWild(d) == d # << >> /\ d[1] = "*"

-----------------------------------------------------------------------------
VARIABLES
    pc,              \* the stage conf_load() is at
    def_tcp_disabled, \* the disable_tcp option
    def_late_bind,   \* the late_bind_secs option
    lin,             \* the 'listen' setting read: [kind, val]
    dns_addrs,       \* gconfig.dns_addrs
    num_io_threads,  \* gconfig.num_io_threads
    zhash,           \* the zones hash read: [key, ttl] in iteration order
    zones            \* gconfig.zones: [dname, def_ttl, subzones]

vars == <<pc, def_tcp_disabled, def_late_bind, lin, dns_addrs, num_io_threads, zhash, zones>>

\* A dns_addr_t as calloc() or memset() leaves it, then filled in.
Listener(a, dis, lb) ==
    [addr |-> a, tcp_disabled |-> dis, late_bind |-> lb, udp_threadnum |-> 0, tcp_threadnum |-> 0]

-----------------------------------------------------------------------------
\* Mutant of LoadOptions: an option the file leaves out is stored as read
\* (the presence test of the CFG_OPT macros dropped).
LoadOptionsNoPresenceTest ==
    /\ pc = "options"
    /\ \E dt \in {Absent, TRUE, FALSE}, lb \in LateBindOpts :
          /\ def_tcp_disabled' = dt
          /\ IF Opt(lb, 0) > 300
             THEN pc' = "fatal" /\ UNCHANGED def_late_bind
             ELSE pc' = "listen" /\ def_late_bind' = lb
    /\ UNCHANGED <<lin, dns_addrs, num_io_threads, zhash, zones>>

\* The options hash: disable_tcp, and late_bind_secs with its range check
\* (CFG_OPT_UINT_ALTSTORE_0MIN, at most 300).
LoadOptions ==
    /\ pc = "options"
    /\ \E dt \in {Absent, TRUE, FALSE}, lb \in LateBindOpts :
          /\ def_tcp_disabled' = Opt(dt, FALSE)
          /\ IF Opt(lb, 0) > 300
             THEN pc' = "fatal" /\ UNCHANGED def_late_bind
             ELSE pc' = "listen" /\ def_late_bind' = Opt(lb, 0)
    /\ UNCHANGED <<lin, dns_addrs, num_io_threads, zhash, zones>>

\* Mutant of DnsAddrIsDupe: the loop stops one listener short.
DnsAddrIsDupeShort(acc, a) == \E i \in 1..Len(acc) - 1 : acc[i].addr = a

\* dns_addr_is_dupe(): same family and the same address and port bytes.
DnsAddrIsDupe(acc, a) == \E i \in 1..Len(acc) : acc[i].addr = a

\* One interface of the defaulted listener loop: skip a NULL or unknown
\* family, an any-address or a duplicate; otherwise append a listener with
\* the defaults.
DefaultStep(acc, ifa) ==
    IF ifa.fam \notin {4, 6} \/ ifa.ip = "any"
       \/ DnsAddrIsDupe(acc, [fam |-> ifa.fam, ip |-> ifa.ip])
    THEN acc
    ELSE Append(acc, Listener([fam |-> ifa.fam, ip |-> ifa.ip], def_tcp_disabled, def_late_bind))
DefaultListeners(ifl) == FoldLeft(DefaultStep, << >>, ifl)

\* A listener of the 'listen' hash: the defaults, except late_bind_secs,
\* which calloc() left 0, then the per-address options.
HashListener(e) ==
    Listener(SpecAddr[e.spec], Opt(e.disable_tcp, def_tcp_disabled), Opt(e.late_bind, 0))

\* process_listen(): no 'listen' (or an empty one) takes the interface
\* addresses; a hash or an array configures one listener per entry, and
\* make_addr() is fatal on a spec it cannot parse.
ProcessListen ==
    /\ pc = "listen"
    /\ \/ \E ifl \in Ifaces :
             LET acc == DefaultListeners(ifl) IN
             /\ lin' = [kind |-> "default", val |-> ifl]
             /\ dns_addrs' = acc
             /\ pc' = IF acc = << >> THEN "fatal" ELSE "threads"
       \/ \E h \in ListenHashes :
             /\ lin' = [kind |-> "hash", val |-> h]
             /\ dns_addrs' = [i \in 1..Len(h) |-> HashListener(h[i])]
             /\ pc' = IF \E i \in 1..Len(h) : Opt(h[i].late_bind, 0) > 300
                                             \/ SpecAddr[h[i].spec] = NoAddr
                      THEN "fatal" ELSE "threads"
       \/ \E arr \in ListenArrays :
             /\ lin' = [kind |-> "array", val |-> arr]
             /\ dns_addrs' = [i \in 1..Len(arr) |->
                                 Listener(SpecAddr[arr[i]], def_tcp_disabled, def_late_bind)]
             /\ pc' = IF \E i \in 1..Len(arr) : SpecAddr[arr[i]] = NoAddr
                      THEN "fatal" ELSE "threads"
    /\ UNCHANGED <<def_tcp_disabled, def_late_bind, num_io_threads, zhash, zones>>

\* The TCP thread number of listener i: after every UDP thread and every
\* earlier listener with TCP.
TcpNum(as, i) == Len(as) + Cardinality({j \in 1..i - 1 : ~as[j].tcp_disabled})

\* Mutant of AssignThreadNums: the tcp_disabled test left out.
AssignThreadNumsAllTcp ==
    /\ pc = "threads"
    /\ dns_addrs' = [i \in 1..Len(dns_addrs) |->
            [dns_addrs[i] EXCEPT !.udp_threadnum = i - 1,
                                 !.tcp_threadnum = Len(dns_addrs) + i - 1]]
    /\ num_io_threads' = 2 * Len(dns_addrs)
    /\ pc' = "zones"
    /\ UNCHANGED <<def_tcp_disabled, def_late_bind, lin, zhash, zones>>

\* assign_thread_nums(): UDP threads first, then a TCP thread for each
\* listener that has TCP.
AssignThreadNums ==
    /\ pc = "threads"
    /\ dns_addrs' = [i \in 1..Len(dns_addrs) |->
            [dns_addrs[i] EXCEPT !.udp_threadnum = i - 1,
                                 !.tcp_threadnum = IF dns_addrs[i].tcp_disabled THEN @
                                                   ELSE TcpNum(dns_addrs, i)]]
    /\ num_io_threads' = TcpNum(dns_addrs, Len(dns_addrs) + 1)
    /\ pc' = "zones"
    /\ UNCHANGED <<def_tcp_disabled, def_late_bind, lin, zhash, zones>>

-----------------------------------------------------------------------------
\* The zones hash: absent or empty is fatal ("No zones specified");
\* otherwise gconfig.zones is calloc'ed and configure_zone() runs on each
\* key in the hash's order.
ReadZones ==
    /\ pc = "zones"
    /\ \E n \in 0..MaxZones : \E keys \in [1..n -> ZoneKeys], ttls \in [1..n -> ZoneTtls] :
          /\ IsInjective(keys)
          /\ zhash' = [i \in 1..n |-> [key |-> keys[i], ttl |-> ttls[i]]]
          /\ pc' = IF n = 0 THEN "fatal" ELSE "zone"
    /\ UNCHANGED <<def_tcp_disabled, def_late_bind, lin, dns_addrs, num_io_threads, zones>>

\* configure_zone() with make_zone_dname(): an empty key, an invalid or
\* wildcard name and a default_ttl over 2^31-1 are fatal; a key without
\* the trailing dot is terminated.  The zone gets its own default_ttl or
\* zones_default_ttl.
ConfigureZone ==
    /\ pc = "zone"
    /\ \E e \in {zhash[Len(zones) + 1]} :
          /\ zones' = Append(zones, [dname |-> e.key.labels,
                                     def_ttl |-> Opt(e.ttl, ZonesDefaultTtl),
                                     subzones |-> {}])
          /\ pc' = IF \/ e.key.labels = << >> /\ ~e.key.dot
                      \/ ~DnameValid(e.key) \/ IsWild(e.key.labels)
                      \/ e.ttl = Over31 THEN "fatal"
                   ELSE IF Len(zones) + 1 = Len(zhash) THEN "postproc"
                   ELSE "zone"
    /\ UNCHANGED <<def_tcp_disabled, def_late_bind, lin, dns_addrs, num_io_threads, zhash>>

\* The outer loop of postproc_zones(): zidx1 from num_zones - 1 down to 1,
\* here 1-based.
OuterOffByOne(n) == 3..n
Outer(n) == 2..n

\* Mutant of ParentScan: no break, every ancestor gets the subzone.
ParentScanNoBreak(zs, i) == {j \in 1..i - 1 : IsParentOf(zs[j].dname, zs[i].dname)}

\* The inner loop: from zidx1 - 1 down, the first zone that is a parent
\* of zone i, then break.
ParentScan(zs, i) ==
    LET c == {j \in 1..i - 1 : IsParentOf(zs[j].dname, zs[i].dname)}
    IN  IF c = {} THEN {} ELSE {Max(c)}

\* postproc_zones(): qsort() with dname_cmp(), then, walking down, a
\* duplicate of the next entry is fatal and add_subzone() links each zone
\* to the parent the inner loop finds.
PostprocZones ==
    /\ pc = "postproc"
    /\ \E zs \in {SortSeq(zones, LAMBDA a, b : DnameLess(a.dname, b.dname))} :
          /\ zones' = [k \in 1..Len(zs) |->
                 [zs[k] EXCEPT !.subzones =
                     {zs[i].dname : i \in {i \in Outer(Len(zs)) : k \in ParentScan(zs, i)}}]]
          /\ pc' = IF \E i \in Outer(Len(zs)) : zs[i - 1].dname = zs[i].dname
                   THEN "fatal" ELSE "done"
    /\ UNCHANGED <<def_tcp_disabled, def_late_bind, lin, dns_addrs, num_io_threads, zhash>>

-----------------------------------------------------------------------------
\* The gconfig initializer: no listeners, no zones.
Init ==
    /\ pc = "options"
    /\ def_tcp_disabled = FALSE
    /\ def_late_bind = 0
    /\ lin = [kind |-> Absent, val |-> << >>]
    /\ dns_addrs = << >>
    /\ num_io_threads = 0
    /\ zhash = << >>
    /\ zones = << >>

Next ==
    \/ LoadOptions \/ ProcessListen \/ AssignThreadNums
    \/ ReadZones \/ ConfigureZone \/ PostprocZones

\* conf_load() runs once on the main thread; "done" and "fatal" are final.
Spec == Init /\ [][Next]_vars

-----------------------------------------------------------------------------
TypeOK ==
    /\ pc \in {"options", "listen", "threads", "zones", "zone", "postproc", "done", "fatal"}
    /\ def_tcp_disabled \in BOOLEAN
    /\ def_late_bind \in 0..300
    /\ Len(dns_addrs) <= Max({Len(l) : l \in Ifaces} \cup {Len(l) : l \in ListenArrays} \cup {Len(l) : l \in ListenHashes})
    /\ num_io_threads \in 0..2 * Len(dns_addrs)
    /\ Len(zones) <= MaxZones

\* With no 'listen' option the listeners are exactly the interfaces' IPv4
\* and IPv6 addresses other than an any-address, each once, however often
\* getifaddrs() repeats one (dns_addr_is_dupe() in the defaulted loop).
UsableIfaceAddrs(ifl) ==
    {[fam |-> ifl[i].fam, ip |-> ifl[i].ip] :
        i \in {i \in 1..Len(ifl) : ifl[i].fam \in {4, 6} /\ ifl[i].ip # "any"}}
DefaultListenersExact ==
    lin.kind = "default" =>
        /\ {dns_addrs[i].addr : i \in 1..Len(dns_addrs)} = UsableIfaceAddrs(lin.val)
        /\ IsInjective([i \in 1..Len(dns_addrs) |-> dns_addrs[i].addr])

\* Once assign_thread_nums() has run, the threads started (a UDP thread per
\* listener, a TCP thread per listener with TCP) have the numbers
\* 0 .. num_io_threads - 1, one each: dnspacket_stats[] has num_io_threads
\* slots and dnspacket_wait_stats() waits for num_io_threads registrations.
StartedThreads ==
    {<<"udp", i>> : i \in 1..Len(dns_addrs)}
    \cup {<<"tcp", i>> : i \in {i \in 1..Len(dns_addrs) : ~dns_addrs[i].tcp_disabled}}
ThreadNum(t) ==
    IF t[1] = "udp" THEN dns_addrs[t[2]].udp_threadnum ELSE dns_addrs[t[2]].tcp_threadnum
ThreadNumsDense ==
    num_io_threads > 0 =>
        LET f == [t \in StartedThreads |-> ThreadNum(t)]
        IN  IsInjective(f) /\ Range(f) = 0..num_io_threads - 1

\* After a successful load every zone lists as subzones exactly the loaded
\* zones whose nearest loaded ancestor it is: postproc_zones() relies on
\* the dname_cmp() order putting ancestors first, and on the break.
LoadedAncestors(d) == {zones[j].dname : j \in {j \in 1..Len(zones) : IsParentOf(zones[j].dname, d)}}
NearestAncestor(d) == CHOOSE a \in LoadedAncestors(d) : \A b \in LoadedAncestors(d) : Len(b) <= Len(a)
SubzonesAreNearest ==
    pc = "done" =>
        \A k \in 1..Len(zones) :
            zones[k].subzones =
                {c \in {zones[i].dname : i \in 1..Len(zones)} :
                    LoadedAncestors(c) # {} /\ NearestAncestor(c) = zones[k].dname}

\* A zones hash whose keys are each a legal zone name with a legal
\* default_ttl, and name distinct zones ("a" and "a." are one zone), loads;
\* any other is fatal.
KeyOk(e) ==
    /\ e.key.labels # << >> \/ e.key.dot
    /\ DnameValid(e.key) /\ ~IsWild(e.key.labels)
    /\ e.ttl # Over31
ZoneConfigValid(h) ==
    /\ \A i \in 1..Len(h) : KeyOk(h[i])
    /\ IsInjective([i \in 1..Len(h) |-> h[i].key.labels])
ZonesLoadIffValid ==
    pc \in {"done", "fatal"} /\ zhash # << >> =>
        (pc = "done" <=> ZoneConfigValid(zhash))

\* Every listener takes each per-address option it sets, and otherwise the
\* global option: disable_tcp and late_bind_secs.
ListenerOptionsApplied ==
    lin.kind = "hash" /\ pc # "fatal" =>
        \A i \in 1..Len(dns_addrs) :
            /\ dns_addrs[i].tcp_disabled = Opt(lin.val[i].disable_tcp, def_tcp_disabled)
            /\ dns_addrs[i].late_bind = Opt(lin.val[i].late_bind, def_late_bind)

====
