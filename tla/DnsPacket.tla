----------------------------- MODULE DnsPacket -----------------------------
(***************************************************************************)
(* One I/O thread of gdnsd answering DNS requests: process_dns_query() of *)
(* dnspacket.c with everything it calls, over the zone tree of DnsZone.   *)
(*                                                                         *)
(* A thread handles one request at a time in a packet buffer it reuses:   *)
(* the request is received into the buffer and the response is written    *)
(* over it.  buf is what the buffer holds between requests (the header    *)
(* fields decode_query() reads and the question after it).  c is the       *)
(* per-request dnspacket_context_t; pc says how far process_dns_query()   *)
(* has got: the decoding, the initial search and the CNAME chase of       *)
(* answer_from_db() are steps, the rest up to the return is one step.     *)
(*                                                                         *)
(* Bytes are counted, their values are not: the packet body is a sequence *)
(* of chunks, one per encoder call, with the RRs and bytes it wrote; the  *)
(* additional-section side buffer likewise, each chunk with the offset it *)
(* ends at.  Name compression is taken into the constant sizes of RRs.    *)
(***************************************************************************)
EXTENDS DnsZone, Integers, Sequences, FiniteSets, SequencesExt

CONSTANTS
    MaxResponse,        \* gconfig.max_response (4096..64000)
    MaxCnameDepth,      \* gconfig.max_cname_depth (4..24)
    MaxAddtlRRsets,     \* gconfig.max_addtl_rrsets (16..256)
    IncludeOptionalNS,  \* gconfig.include_optional_ns
    EdnsClientSubnet,   \* gconfig.edns_client_subnet
    Requests,           \* the requests a client may send
    InitBuf,            \* what the packet buffer holds before the first request
    DyncResults,        \* [name, scope] a DYNC plugin callback may return
    DynaddrResults,     \* [v4, v6, scope] a DYNA plugin callback may return
    MaxRotation,        \* rotation start indexes are 0..MaxRotation
    MaxRequests,        \* bound on the requests one run handles
    IsUdp               \* c->is_udp: the thread serves UDP (else TCP)

VARIABLES
    buf,    \* the packet buffer's header fields and question
    c,      \* the dnspacket_context_t, its stats block included
    pc,     \* "idle", "cname" (chasing CNAMEs) or "final" (chase ended)
    s,      \* answer_from_db()'s locals: status, resdom, resauth, ...
    rq,     \* the request being handled and the header decode_query() read
    resp,   \* the last request's outcome: what was sent, if anything
    nreq    \* requests handled so far

vars == <<buf, c, pc, s, rq, resp, nreq>>

(***************************************************************************)
(* this_max_response is an unsigned 32-bit integer.  It is kept as its    *)
(* two's-complement reading: a negative value v stands for 2^32 + v, that *)
(* is for a value above every response size.  Its values stay within a   *)
(* few thousand of zero, so no other wrap can happen.                    *)
(***************************************************************************)
UGt(a, b) == IF (a < 0) = (b < 0) THEN a > b ELSE a < 0

MinOf(a, b) == IF a < b THEN a ELSE b
MaxOf(a, b) == IF a > b THEN a ELSE b

\* c->stats: the thread's dnspacket_stats_t, one counter per field.
Counters == {"noerror", "refused", "nxdomain", "notimp", "badvers", "formerr",
             "dropped", "v6", "edns", "edns_clientsub", "tc", "edns_tc",
             "edns_big"}
Inc(ctx, k) == [ctx EXCEPT !.stats[k] = @ + 1]

HeaderSize == 12        \* sizeof(wire_dns_header_t)
OptSize == 11           \* root name and sizeof_optrr of an OPT RR
ChaosFixedLen == 18     \* chaos_fixed_len
QuestionSize(q) == 1 + 4 + (IF q.name = << >> THEN 0
                            ELSE LET f[i \in 0..Len(q.name)] ==
                                       IF i = 0 THEN 0
                                       ELSE f[i - 1] + Len(q.name[i]) + 1
                                 IN f[Len(q.name)])
AddrBytes(mask) == (mask \div 8) + (IF mask % 8 # 0 THEN 1 ELSE 0)

\* The decode results of rcode_rv_t.
IGNORE == "IGNORE"
FORMERR == "FORMERR"
BADVERS == "BADVERS"
NOTIMP == "NOTIMP"
OK == "OK"

NoOpt == [version |-> -1]
BadQuestion == [name |-> <<"-">>, qtype |-> "-", qclass |-> "-"]

(***************************************************************************)
(* The header and question decode_query() reads.  A request of len bytes *)
(* overwrites only the first len bytes of the buffer: the flags byte is byte 2, QDCOUNT bytes *)
(* 4-5, ARCOUNT 10-11, the question starts at 12.  A short request leaves *)
(* the rest as the previous request or response left it.                 *)
(***************************************************************************)
Fresh(r, nbytes) == r.len >= nbytes
\* Shorter than a header and a minimal question (root name, type, class).
IsShort(r) == r.len < HeaderSize + 5
ReadHeader(r, b) ==
    [qr      |-> IF Fresh(r, 3) THEN r.qr ELSE b.qr,
     tc      |-> IF Fresh(r, 3) THEN r.tc ELSE b.tc,
     opcode  |-> IF Fresh(r, 3) THEN r.opcode ELSE b.opcode,
     qdcount |-> IF Fresh(r, 6) THEN r.qdcount ELSE b.qdcount,
     arcount |-> IF Fresh(r, 12) THEN r.arcount ELSE b.arcount,
     q       |-> IF IsShort(r) THEN b.q ELSE r.q]

(***************************************************************************)
(* handle_edns_client_subnet(): validate the option; a valid one reserves *)
(* 8 + addr_bytes of the response for its echo (without a floor), and the *)
(* edns_clientsub counter counts every option seen, valid or not.        *)
(***************************************************************************)
HandleEdnsClientSubnet(ctx, o) ==
    LET ab == AddrBytes(o.mask)
        bad == o.dlen < 4 \/ o.dlen < 4 + ab
               \/ (o.family = 1 /\ o.mask > 32) \/ (o.family = 2 /\ o.mask > 128)
               \/ o.family \notin {1, 2}
        ctx1 == IF bad THEN ctx
                ELSE [ctx EXCEPT !.tmr = @ - (8 + ab), !.ecs = TRUE,
                                 !.ecs_family = o.family, !.ecs_mask = o.mask]
    IN [ctx |-> Inc(ctx1, "edns_clientsub"), formerr |-> bad]

\* handle_edns_option(): only the client-subnet option is understood.
HandleEdnsOption(ctx, o) ==
    IF o.code = "ECS" /\ EdnsClientSubnet THEN HandleEdnsClientSubnet(ctx, o)
    ELSE [ctx |-> ctx, formerr |-> FALSE]

\* handle_edns_options(): walk rdlen bytes of (code, len, data) options.
RECURSIVE HandleEdnsOptions(_, _, _)
HandleEdnsOptions(ctx, rdlen, opts) ==
    IF rdlen = 0 THEN [ctx |-> ctx, formerr |-> FALSE]
    ELSE IF rdlen < 4 \/ opts = << >> THEN [ctx |-> ctx, formerr |-> TRUE]
    ELSE IF Head(opts).dlen > rdlen - 4 THEN [ctx |-> ctx, formerr |-> TRUE]
    ELSE LET h == HandleEdnsOption(ctx, Head(opts))
         IN IF h.formerr THEN h
            ELSE HandleEdnsOptions(h.ctx, rdlen - 4 - Head(opts).dlen, Tail(opts))

\* parse_optrr(): EDNS version 0 negotiates the response size, less the 11
\* bytes of our own OPT RR; a higher version is BADVERS.
ParseOptrr(ctx, opt) ==
    LET ctx0 == [Inc(ctx, "edns") EXCEPT !.use_edns = TRUE]
        ctx1 == [ctx0 EXCEPT !.tmr =
                   IF ctx.udp THEN MinOf(MaxOf(opt.size, 512), MaxResponse) - OptSize
                   ELSE MaxResponse - OptSize]
        h == HandleEdnsOptions(ctx1, opt.rdlen, opt.opts)
    IN IF opt.version # 0 THEN [ctx |-> ctx0, rcode |-> BADVERS]
       ELSE IF opt.rdlen = 0 THEN [ctx |-> ctx1, rcode |-> OK]
       ELSE IF opt.overrun THEN [ctx |-> ctx1, rcode |-> FORMERR]
       ELSE [ctx |-> h.ctx, rcode |-> IF h.formerr THEN FORMERR ELSE OK]

(***************************************************************************)
(* decode_query().  A request shorter than a header and a minimal         *)
(* question sets IGNORE but does not leave the do { } while(0): the checks *)
(* that follow run on what the buffer holds, and a later NOTIMP or OPT     *)
(* result overwrites the IGNORE.  The question length passed on is then    *)
(* packet_len - 12 wrapped around, so no truncation check can fail; a      *)
(* stale question parses as it did before.  parse_question() failing is   *)
(* the request's question being BadQuestion.  Without a valid OPT RR the  *)
(* response limit is 512 on UDP and max_response on TCP.  An OPT RR needs  *)
(* its 11 bytes inside the packet, which a short request never has.       *)
(***************************************************************************)
DecodeQuery(ctx, r, h) ==
    LET short == IsShort(r)
        init == IF short THEN IGNORE ELSE OK
        ctx1 == [ctx EXCEPT !.qtype = h.q.qtype, !.chaos = (h.q.qclass = "CH")]
        noOpt == [ctx |-> [ctx1 EXCEPT !.tmr = IF ctx.udp THEN 512 ELSE MaxResponse],
                  rcode |-> init]
    IN IF h.qdcount # 1 \/ h.qr \/ h.tc \/ h.q = BadQuestion
       THEN [ctx |-> ctx, rcode |-> IGNORE]
       ELSE IF h.opcode # 0 \/ h.q.qtype \in {"AXFR", "IXFR"}
       THEN [ctx |-> ctx1, rcode |-> NOTIMP]
       ELSE IF h.arcount > 0 /\ ~short /\ r.opt # NoOpt
       THEN ParseOptrr(ctx1, r.opt)
       ELSE noOpt

(***************************************************************************)
(* Writing RRs.  Into the packet: a chunk of the section it belongs to,   *)
(* at the current offset.  Into the additional side buffer (addtl_store): *)
(* a chunk ending at the new addtl_offset; glue marks the glue addresses  *)
(* of a delegation, which is the data written, not a flag of the code.    *)
(***************************************************************************)
PutPkt(ctx, sec, rrs, bytes) ==
    [ctx EXCEPT !.pkt = Append(@, [sec |-> sec, rrs |-> rrs, bytes |-> bytes]),
                !.offset = @ + bytes]
PutAddtl(ctx, rrs, bytes, glue) ==
    [ctx EXCEPT !.astore = Append(@, [rrs |-> rrs, bytes |-> bytes, glue |-> glue,
                                      end |-> ctx.addtl_offset + bytes]),
                !.addtl_offset = @ + bytes]

\* enc_a_* / enc_aaaa_*: rrs addresses of one family, counted in ancount
\* or, into the side buffer, in arcount.
EncAddrs(ctx, rrs, size, is_addtl, glue) ==
    IF is_addtl THEN PutAddtl([ctx EXCEPT !.arcount = @ + rrs], rrs, rrs * size, glue)
    ELSE PutPkt([ctx EXCEPT !.ancount = @ + rrs], "an", rrs, rrs * size)

\* do_dynaddr_callback(): the plugin's result, and the scope mask of the
\* response is the largest any callback reported.
DoDynaddrCallback(ctx) ==
    [ctx EXCEPT !.dynaddr = ctx.dynres,
                !.scope = MaxOf(@, ctx.dynres.scope)]

\* The addresses of each family an Addr RR-set emits: its limits when
\* static; for DYNA the plugin's count, capped by a nonzero limit.
DynLimit(limit, count) == IF limit # 0 /\ limit < count THEN limit ELSE count
AddrLimits(ctx, rs) ==
    IF rs.static THEN [v4 |-> rs.v4, v6 |-> rs.v6]
    ELSE [v4 |-> DynLimit(rs.v4, ctx.dynaddr.v4), v6 |-> DynLimit(rs.v6, ctx.dynaddr.v6)]

AddrOf(n) == FindRRset(n, "ADDR")[1]

\* The v4 then the v6 addresses of Addr RR-set rs, the limits taken after
\* any plugin callback.
EncAddrsBoth(ctx, rs, is_addtl, glue) ==
    EncAddrs(EncAddrs(ctx, AddrLimits(ctx, rs).v4, ASize, is_addtl, glue),
             AddrLimits(ctx, rs).v6, AAAASize, is_addtl, glue)

\* encode_rrs_anyaddr(): both families of node n's Addr RR-set; in the
\* answer it becomes answer_addr_rrset.
EncodeRRsAnyaddr(ctx, n, is_addtl, glue) ==
    LET rs == AddrOf(n)
        c1 == IF is_addtl THEN ctx ELSE [ctx EXCEPT !.answer_addr = n]
    IN EncAddrsBoth(IF rs.static THEN c1 ELSE DoDynaddrCallback(c1), rs, is_addtl, glue)

\* add_addtl_rrset_check(): room for another tracked RR-set, and not one
\* already tracked.
AddAddtlRRsetCheck(ctx, n) ==
    /\ Len(ctx.addtl) # MaxAddtlRRsets
    /\ \A i \in 1..Len(ctx.addtl) : ctx.addtl[i].rrset # n

\* track_addtl_rrset_unwind(): remember where the side buffer and arcount
\* stood before this RR-set, to pop it whole when trimming.
TrackAddtlRRsetUnwind(ctx, n) ==
    [ctx EXCEPT !.addtl = Append(@, [rrset |-> n, prev_offset |-> ctx.addtl_offset,
                                     prev_arcount |-> ctx.arcount])]

\* add_addtl_rrset(): the additional data an rdata points at.
AddAddtlRRset(ctx, n, glue) ==
    IF n # ctx.answer_addr /\ AddAddtlRRsetCheck(ctx, n)
    THEN EncodeRRsAnyaddr(TrackAddtlRRsetUnwind(ctx, n), n, TRUE, glue)
    ELSE ctx

\* encode_rrs_a() / encode_rrs_aaaa(): the queried family into the answer,
\* the other one, if the RR-set has any, into the side buffer with an
\* unwind record but no add_addtl_rrset_check().
EncodeRRsAddr(ctx, n, fam) ==
    LET rs == AddrOf(n)
        c1 == [ctx EXCEPT !.answer_addr = n]
        Ans(x) == IF fam = "A" THEN EncAddrs(x, AddrLimits(x, rs).v4, ASize, FALSE, FALSE)
                  ELSE EncAddrs(x, AddrLimits(x, rs).v6, AAAASize, FALSE, FALSE)
        Oth(x) == IF fam = "A" THEN EncAddrs(x, AddrLimits(x, rs).v6, AAAASize, TRUE, FALSE)
                  ELSE EncAddrs(x, AddrLimits(x, rs).v4, ASize, TRUE, FALSE)
        HasOther(x) == IF rs.static THEN (IF fam = "A" THEN rs.v6 ELSE rs.v4) # 0
                       ELSE (IF fam = "A" THEN x.dynaddr.v6 ELSE x.dynaddr.v4) # 0
        Other(x) == IF HasOther(x) THEN Oth(TrackAddtlRRsetUnwind(x, n)) ELSE x
    IN IF rs.static THEN Other(Ans(c1))
       ELSE Ans(Other(DoDynaddrCallback(c1)))

\* The rdata of a rotated RR-set in the order OFFSET_LOOP visits it: from
\* index start (gdnsd_rand_get32() % count), wrapping around.
Rotated(rd, start) ==
    [j \in 1..Len(rd) |-> rd[(((start % Len(rd)) + j - 1) % Len(rd)) + 1]]

RECURSIVE SumSizes(_)
SumSizes(rd) == IF rd = << >> THEN 0 ELSE Head(rd).size + SumSizes(Tail(rd))

\* The OFFSET_LOOP body's add_addtl_rrset() for each rdata of rd in order:
\* an rdata with additional data adds its Addr RR-set, and a glue-tagged
\* one (NS only) sets addtl_has_glue first.
RECURSIVE AddAddtlEach(_, _)
AddAddtlEach(ctx, rd) ==
    IF rd = << >> THEN ctx
    ELSE LET x == Head(rd)
             c1 == IF x.ad = NoNode THEN ctx
                   ELSE AddAddtlRRset([ctx EXCEPT !.has_glue = @ \/ x.glue], x.ad, x.glue)
         IN AddAddtlEach(c1, Tail(rd))

\* n RRs of bytes bytes written into section sec and counted in its count.
PutCounted(ctx, sec, n, bytes) ==
    PutPkt(IF sec = "an" THEN [ctx EXCEPT !.ancount = @ + n]
           ELSE [ctx EXCEPT !.nscount = @ + n], sec, n, bytes)

\* encode_rrs_ns(): the NS RRs, rotated, each rdata's additional data
\* (glue sets addtl_has_glue), counted in the answer or authority section.
EncodeRRsNS(ctx, rs, answer, start) ==
    PutCounted(AddAddtlEach(ctx, Rotated(rs.rdata, start)),
               IF answer THEN "an" ELSE "ns", Len(rs.rdata), SumSizes(rs.rdata))

\* encode_rrs_mx() (and the like of SRV and NAPTR): in rdata order, each
\* rdata's additional data, all in the answer.
EncodeRRsMX(ctx, rs) ==
    PutCounted(AddAddtlEach(ctx, rs.rdata), "an", Len(rs.rdata), SumSizes(rs.rdata))

\* encode_rr_soa() and encode_rrs_txt(): one RR of the RR-set's size.
EncodeRRSoa(ctx, rs, answer) ==
    IF answer THEN PutPkt([ctx EXCEPT !.ancount = @ + 1], "an", 1, rs.size)
    ELSE PutPkt([ctx EXCEPT !.nscount = @ + 1], "ns", 1, rs.size)
EncodeRRsTxt(ctx, rs) == PutPkt([ctx EXCEPT !.ancount = @ + 1], "an", 1, rs.size)

\* encode_rr_cname(): a DYNC RR-set asks the plugin (res) for its target,
\* kept in the next 256-byte slot of dync_store.  Chasing it, the RR counts
\* in cname_ancount; answering a CNAME query, in ancount.
EncodeRRCname(ctx, rs, answer, res) ==
    LET c1 == IF rs.static THEN ctx
              ELSE [ctx EXCEPT !.scope = MaxOf(@, res.scope), !.dync_count = @ + 1]
        c2 == PutPkt(c1, "an", 1, rs.size)
    IN IF answer THEN [c2 EXCEPT !.ancount = @ + 1]
       ELSE [c2 EXCEPT !.cname_ancount = @ + 1]

(***************************************************************************)
(* encode_rrs_any(): the Addr RR-set first (so it is answer_addr_rrset    *)
(* before any rdata points at it), then every other RR-set in order.     *)
(***************************************************************************)
RECURSIVE EncodeAnyEach(_, _, _)
EncodeAnyEach(ctx, rss, start) ==
    IF rss = << >> THEN ctx
    ELSE LET rs == Head(rss)
             c1 == CASE rs.type = "SOA" -> EncodeRRSoa(ctx, rs, TRUE)
                     [] rs.type = "NS"  -> EncodeRRsNS(ctx, rs, TRUE, start)
                     [] rs.type = "MX"  -> EncodeRRsMX(ctx, rs)
                     [] rs.type = "TXT" -> EncodeRRsTxt(ctx, rs)
                     [] OTHER -> ctx
         IN EncodeAnyEach(c1, Tail(rss), start)

EncodeRRsAny(ctx, n, start) ==
    LET c1 == IF FindRRset(n, "ADDR") # << >> THEN EncodeRRsAnyaddr(ctx, n, FALSE, FALSE)
              ELSE ctx
    IN EncodeAnyEach(c1, RRsetsOf(n), start)

\* The RR-set type a query type is answered from: A and AAAA share one.
EType(qtype) == IF qtype \in {"A", "AAAA"} THEN "ADDR" ELSE qtype

\* encode_funcptrs[qtype] applied to the matching RR-set of node n.
EncodeFuncptr(ctx, n, rs, start, res) ==
    CASE ctx.qtype \in {"A", "AAAA"} -> EncodeRRsAddr(ctx, n, ctx.qtype)
      [] ctx.qtype = "NS"    -> EncodeRRsNS(ctx, rs, TRUE, start)
      [] ctx.qtype = "MX"    -> EncodeRRsMX(ctx, rs)
      [] ctx.qtype = "TXT"   -> EncodeRRsTxt(ctx, rs)
      [] ctx.qtype = "SOA"   -> EncodeRRSoa(ctx, rs, TRUE)
      [] ctx.qtype = "CNAME" -> EncodeRRCname(ctx, rs, TRUE, res)

(***************************************************************************)
(* construct_normal_response(): the answer, then the authority: the SOA   *)
(* when the answer section is empty (CNAMEs count in cname_ancount, not   *)
(* here), else the optional NS RR-set of the zone.                        *)
(***************************************************************************)
AuthoritySection(c1, resdom, authdom, start) ==
    IF c1.ancount = 0 THEN EncodeRRSoa(c1, FindRRset(authdom, "SOA")[1], FALSE)
    ELSE IF IncludeOptionalNS /\ c1.qtype # "NS"
            /\ (c1.qtype # "ANY" \/ resdom # authdom)
    THEN EncodeRRsNS(c1, FindRRset(authdom, "NS")[1], FALSE, start)
    ELSE c1

ConstructNormalResponse(ctx, resdom, authdom, start, res) ==
    AuthoritySection(
        IF ctx.qtype = "ANY" THEN EncodeRRsAny(ctx, resdom, start)
        ELSE IF FindRRset(resdom, EType(ctx.qtype)) # << >>
        THEN EncodeFuncptr(ctx, resdom, FindRRset(resdom, EType(ctx.qtype))[1], start, res)
        ELSE ctx,
        resdom, authdom, start)

(***************************************************************************)
(* The rest of answer_from_db() after the CNAME loop: by the last search's *)
(* status, the normal response or NXDOMAIN with the SOA (AUTH), the       *)
(* delegation's NS RR-set (DELEG), or REFUSED unless a CNAME was followed *)
(* out of the zone (NOAUTH).                                               *)
(***************************************************************************)
\* Mutant of AnswerAfterChase: the NXDOMAIN path without its counter.
AnswerAfterChaseNoNxCount(ctx, st, start, res) ==
    CASE st.status = AUTH /\ st.resdom # NoNode ->
            ConstructNormalResponse([ctx EXCEPT !.aa = TRUE], st.resdom, st.resauth, start, res)
      [] st.status = AUTH ->
            EncodeRRSoa([ctx EXCEPT !.aa = TRUE, !.rcode = "NXDOMAIN"],
                        FindRRset(st.resauth, "SOA")[1], FALSE)
      [] st.status = DELEG -> EncodeRRsNS(ctx, FindRRset(st.resdom, "NS")[1], FALSE, start)
      [] st.status = NOAUTH /\ ~st.via_cname -> Inc([ctx EXCEPT !.rcode = "REFUSED"], "refused")
      [] OTHER -> ctx

AnswerAfterChase(ctx, st, start, res) ==
    CASE st.status = AUTH /\ st.resdom # NoNode ->
            ConstructNormalResponse([ctx EXCEPT !.aa = TRUE], st.resdom, st.resauth, start, res)
      [] st.status = AUTH ->
            Inc(EncodeRRSoa([ctx EXCEPT !.aa = TRUE, !.rcode = "NXDOMAIN"],
                            FindRRset(st.resauth, "SOA")[1], FALSE), "nxdomain")
      [] st.status = DELEG -> EncodeRRsNS(ctx, FindRRset(st.resdom, "NS")[1], FALSE, start)
      [] st.status = NOAUTH /\ ~st.via_cname -> Inc([ctx EXCEPT !.rcode = "REFUSED"], "refused")
      [] OTHER -> ctx

\* The trim loop of answer_from_db_outer(): pop whole tracked RR-sets
\* while the side buffer exceeds the room left (unsigned arithmetic).
RECURSIVE TrimAddtl(_), TrimAddtlNoOffset(_)

\* Mutant of TrimAddtl: the room compared against is this_max_response,
\* forgetting what the answer and authority already use.
TrimAddtlNoOffset(ctx) ==
    IF UGt(ctx.addtl_offset, ctx.tmr) /\ ctx.addtl # << >>
    THEN TrimAddtl([ctx EXCEPT !.addtl = Front(@), !.addtl_offset = Last(ctx.addtl).prev_offset,
                               !.arcount = Last(ctx.addtl).prev_arcount])
    ELSE ctx

TrimAddtl(ctx) ==
    IF UGt(ctx.addtl_offset, ctx.tmr - ctx.offset) /\ ctx.addtl # << >>
    THEN LET u == Last(ctx.addtl)
         IN TrimAddtl([ctx EXCEPT !.addtl = Front(@), !.addtl_offset = u.prev_offset,
                                  !.arcount = u.prev_arcount])
    ELSE ctx

\* The chunks of the side buffer that lie within addtl_offset.
Kept(ctx) == SelectSeq(ctx.astore, LAMBDA x : x.end <= ctx.addtl_offset)

\* memcpy() of the side buffer after the packet's sections.
CopyAddtl(ctx) ==
    [ctx EXCEPT !.pkt = @ \o [i \in 1..Len(Kept(ctx)) |->
                               [sec |-> "ar", rrs |-> Kept(ctx)[i].rrs,
                                bytes |-> Kept(ctx)[i].bytes]],
                !.offset = @ + ctx.addtl_offset]

(***************************************************************************)
(* answer_from_db_outer() after answer_from_db(): truncate (TC) when the  *)
(* answer, authority and, if any glue was added, the whole side buffer do *)
(* not fit; else trim the side buffer and copy it into the packet.        *)
(***************************************************************************)
\* Mutant of AnswerOuter: the TC check leaves the glue out.
AnswerOuterNoGlue(ctx, full_trunc_offset) ==
    IF UGt(ctx.offset, ctx.tmr)
    THEN Inc([ctx EXCEPT !.ancount = 0, !.nscount = 0, !.arcount = 0, !.tc = TRUE,
                         !.offset = full_trunc_offset, !.pkt = << >>],
             IF ctx.use_edns THEN "edns_tc" ELSE "tc")
    ELSE CopyAddtl(TrimAddtl(ctx))

AnswerOuter(ctx, full_trunc_offset) ==
    IF UGt(ctx.offset + (IF ctx.has_glue THEN ctx.addtl_offset ELSE 0), ctx.tmr)
    THEN Inc([ctx EXCEPT !.ancount = 0, !.nscount = 0, !.arcount = 0, !.tc = TRUE,
                         !.offset = full_trunc_offset, !.pkt = << >>],
             IF ctx.use_edns THEN "edns_tc" ELSE "tc")
    ELSE CopyAddtl(TrimAddtl(ctx))

NoDynaddr == [v4 |-> 0, v6 |-> 0, scope |-> 0]
NoDync == [name |-> NoNode, scope |-> 0]

\* reset_context(): every per-request field zeroed; the thread's UDP/TCP
\* role and its stats block stay.
\* Mutant of ResetContext: dync_count left out of the zeroed region.
ResetContextKeepDync(ctx) ==
    [udp |-> IsUdp, stats |-> ctx.stats, qtype |-> "-", chaos |-> FALSE,
     use_edns |-> FALSE, tmr |-> 0, ecs |-> FALSE, ecs_family |-> 0, ecs_mask |-> 0,
     scope |-> 0, ancount |-> 0, nscount |-> 0, arcount |-> 0, cname_ancount |-> 0,
     offset |-> 0, pkt |-> << >>, addtl |-> << >>, addtl_offset |-> 0,
     astore |-> << >>, has_glue |-> FALSE, answer_addr |-> NoNode,
     dync_count |-> ctx.dync_count,
     dynaddr |-> NoDynaddr, dynres |-> NoDynaddr, aa |-> FALSE, tc |-> FALSE,
     rcode |-> "NOERROR"]

ResetContext(ctx) ==
    [udp |-> IsUdp, stats |-> ctx.stats, qtype |-> "-", chaos |-> FALSE,
     use_edns |-> FALSE, tmr |-> 0, ecs |-> FALSE, ecs_family |-> 0, ecs_mask |-> 0,
     scope |-> 0, ancount |-> 0, nscount |-> 0, arcount |-> 0, cname_ancount |-> 0,
     offset |-> 0, pkt |-> << >>, addtl |-> << >>, addtl_offset |-> 0,
     astore |-> << >>, has_glue |-> FALSE, answer_addr |-> NoNode, dync_count |-> 0,
     dynaddr |-> NoDynaddr, dynres |-> NoDynaddr, aa |-> FALSE, tc |-> FALSE,
     rcode |-> "NOERROR"]

\* Sum of the RRs of the packet's chunks of section sec.
SecRRs(ctx, sec) ==
    FoldLeft(LAMBDA acc, x : acc + (IF x.sec = sec THEN x.rrs ELSE 0), 0, ctx.pkt)

(***************************************************************************)
(* The end of process_dns_query() for every request it answers: the OPT  *)
(* RR (with the client-subnet echo) when the request had EDNS, counted in *)
(* arcount and in edns_big past 512 bytes on UDP; then the header counts, *)
(* ancount being cname_ancount + ancount.  The response is written over  *)
(* the buffer: a header with QR set and the question left in place.      *)
(***************************************************************************)
OptBytes(ctx) == IF ~ctx.use_edns THEN 0
                 ELSE OptSize + (IF ctx.ecs THEN 8 + AddrBytes(ctx.ecs_mask) ELSE 0)
Complete(ctx, h, r, decoded, needed) ==
    LET len == ctx.offset + OptBytes(ctx)
        c1 == IF ~ctx.use_edns THEN ctx
              ELSE LET x == [ctx EXCEPT !.arcount = @ + 1, !.offset = len,
                                       !.pkt = Append(@, [sec |-> "ar", rrs |-> 1,
                                                          bytes |-> OptBytes(ctx)])]
                   IN IF ctx.udp /\ len > 512 THEN Inc(x, "edns_big") ELSE x
        hdr == [an |-> c1.cname_ancount + c1.ancount, ns |-> c1.nscount, ar |-> c1.arcount]
    IN /\ c' = c1
       /\ buf' = [qr |-> TRUE, tc |-> c1.tc, opcode |-> h.opcode,
                  qdcount |-> h.qdcount, arcount |-> hdr.ar, q |-> h.q]
       /\ resp' = [sent |-> TRUE, short |-> IsShort(r), len |-> len,
                   rcode |-> c1.rcode, decoded |-> decoded, tc |-> c1.tc, hdr |-> hdr,
                   body |-> [an |-> SecRRs(c1, "an"), ns |-> SecRRs(c1, "ns"),
                             ar |-> SecRRs(c1, "ar")],
                   glue_kept |-> \A i \in 1..Len(c1.astore) :
                                    c1.astore[i].glue => c1.astore[i].end <= c1.addtl_offset,
                   q |-> h.q, opt |-> r.opt, edns |-> c1.use_edns,
                   needed |-> needed, room |-> ctx.tmr]

(***************************************************************************)
(* process_dns_query() up to the point where the request's path splits:   *)
(* reset_context(), the v6 counter, decode_query().                       *)
(***************************************************************************)
Decoded(r) ==
    LET c0 == ResetContext(c)
    IN DecodeQuery(IF r.v6 THEN Inc(c0, "v6") ELSE c0, r, ReadHeader(r, buf))

CanReceive(r) == pc = "idle" /\ nreq < MaxRequests

\* IGNORE: count it as dropped and send nothing.  The request's bytes stay
\* in the buffer.
DropRequest(r) ==
    /\ CanReceive(r)
    /\ Decoded(r).rcode = IGNORE
    /\ LET h == ReadHeader(r, buf)
       IN buf' = h
    /\ c' = Inc(Decoded(r).ctx, "dropped")
    /\ resp' = [sent |-> FALSE, short |-> IsShort(r), q |-> ReadHeader(r, buf).q]
    /\ nreq' = nreq + 1
    /\ UNCHANGED <<pc, s, rq>>

\* NOTIMP: a bare header, QDCOUNT 0, no OPT RR.
RejectNotimp(r) ==
    /\ CanReceive(r)
    /\ Decoded(r).rcode = NOTIMP
    /\ LET h == ReadHeader(r, buf)
           x == [Inc(Decoded(r).ctx, "notimp") EXCEPT !.rcode = "NOTIMP",
                                                      !.offset = HeaderSize]
       IN /\ c' = x
          /\ buf' = [qr |-> TRUE, tc |-> FALSE, opcode |-> h.opcode, qdcount |-> 0,
                     arcount |-> 0, q |-> h.q]
          /\ resp' = [sent |-> TRUE, short |-> IsShort(r), len |-> HeaderSize,
                      rcode |-> "NOTIMP", decoded |-> NOTIMP, tc |-> FALSE,
                      hdr |-> [an |-> 0, ns |-> 0, ar |-> 0],
                      body |-> [an |-> 0, ns |-> 0, ar |-> 0], glue_kept |-> TRUE,
                      q |-> h.q, opt |-> r.opt, edns |-> FALSE,
                      needed |-> 0, room |-> 0]
    /\ nreq' = nreq + 1
    /\ UNCHANGED <<pc, s, rq>>

\* FORMERR and BADVERS (sent as NOERROR with the OPT RR's version error):
\* the question and the OPT RR, nothing else.
AnswerError(r) ==
    /\ CanReceive(r)
    /\ Decoded(r).rcode \in {FORMERR, BADVERS}
    /\ LET d == Decoded(r)
           h == ReadHeader(r, buf)
           x == IF d.rcode = FORMERR THEN Inc([d.ctx EXCEPT !.rcode = "FORMERR"], "formerr")
                ELSE Inc(d.ctx, "badvers")
       IN Complete([x EXCEPT !.offset = HeaderSize + QuestionSize(h.q)], h, r, d.rcode, 0)
    /\ nreq' = nreq + 1
    /\ UNCHANGED <<pc, s, rq>>

\* A CH-class query: the canned TXT RR, whatever the name and type.
AnswerChaos(r) ==
    /\ CanReceive(r)
    /\ Decoded(r).rcode = OK
    /\ Decoded(r).ctx.chaos
    /\ LET h == ReadHeader(r, buf)
           x == [Decoded(r).ctx EXCEPT !.ancount = 1,
                                       !.offset = HeaderSize + QuestionSize(h.q)]
       IN Complete(Inc(PutPkt(x, "an", 1, ChaosFixedLen), "noerror"), h, r, OK, 0)
    /\ nreq' = nreq + 1
    /\ UNCHANGED <<pc, s, rq>>

\* A query to answer from the zone tree: NOERROR so far, and the initial
\* search of answer_from_db().
StartAnswer(r) ==
    /\ CanReceive(r)
    /\ Decoded(r).rcode = OK
    /\ ~Decoded(r).ctx.chaos
    /\ LET h == ReadHeader(r, buf)
           first == HeaderSize + QuestionSize(h.q)
           found == SearchLtree(h.q.name, NoNode)
       IN /\ c' = [Decoded(r).ctx EXCEPT !.offset = first]
          /\ s' = [status |-> found.status, resdom |-> found.node,
                   resauth |-> found.auth, via_cname |-> FALSE, cname_depth |-> 0,
                   first_offset |-> first]
          /\ rq' = [r |-> r, h |-> h]
    /\ pc' = "cname"
    /\ UNCHANGED <<buf, resp, nreq>>

\* The condition of answer_from_db()'s CNAME loop.
CnameLoopCond == IsCnameNode(s.resdom) /\ c.qtype # "CNAME"

(***************************************************************************)
(* One turn of the CNAME loop: set AA, write the CNAME RR and search for *)
(* its target with the current authority as check root.  If the walk did  *)
(* not enter that zone the chase ends as NOAUTH.                          *)
(***************************************************************************)
\* Mutant of CnameStep: the depth check lets one CNAME more through.
CnameStepDepthOffByOne ==
    /\ pc = "cname"
    /\ CnameLoopCond
    /\ s.cname_depth <= MaxCnameDepth
    /\ LET rs == RRsetsOf(s.resdom)[1]
       IN \E res \in (IF rs.static THEN {NoDync} ELSE DyncResults) :
            LET found == SearchLtree(IF rs.static THEN rs.target ELSE res.name, s.resauth)
            IN /\ c' = EncodeRRCname([c EXCEPT !.aa = TRUE], rs, FALSE, res)
               /\ s' = [status |-> IF found.crossed THEN found.status ELSE NOAUTH,
                        resdom |-> found.node, resauth |-> found.auth,
                        via_cname |-> TRUE, cname_depth |-> s.cname_depth + 1,
                        first_offset |-> s.first_offset]
               /\ pc' = IF found.crossed THEN "cname" ELSE "final"
    /\ UNCHANGED <<buf, rq, resp, nreq>>

CnameStep ==
    /\ pc = "cname"
    /\ CnameLoopCond
    /\ s.cname_depth + 1 <= MaxCnameDepth
    /\ LET rs == RRsetsOf(s.resdom)[1]
       IN \E res \in (IF rs.static THEN {NoDync} ELSE DyncResults) :
            LET target == IF rs.static THEN rs.target ELSE res.name
                found == SearchLtree(target, s.resauth)
            IN /\ c' = EncodeRRCname([c EXCEPT !.aa = TRUE], rs, FALSE, res)
               /\ s' = [status |-> IF found.crossed THEN found.status ELSE NOAUTH,
                        resdom |-> found.node, resauth |-> found.auth,
                        via_cname |-> TRUE, cname_depth |-> s.cname_depth + 1,
                        first_offset |-> s.first_offset]
               /\ pc' = IF found.crossed THEN "cname" ELSE "final"
    /\ UNCHANGED <<buf, rq, resp, nreq>>

\* The chain is longer than max_cname_depth: wipe the CNAMEs written and
\* answer NXDOMAIN-style (resdom NULL).
\* Mutant of CnameDepthExceeded: the wipe forgets cname_ancount.
CnameDepthExceededKeepCount ==
    /\ pc = "cname"
    /\ CnameLoopCond
    /\ s.cname_depth + 1 > MaxCnameDepth
    /\ c' = [c EXCEPT !.aa = TRUE, !.offset = s.first_offset, !.pkt = << >>, !.ancount = 0]
    /\ s' = [s EXCEPT !.resdom = NoNode, !.via_cname = TRUE, !.cname_depth = @ + 1]
    /\ pc' = "final"
    /\ UNCHANGED <<buf, rq, resp, nreq>>

CnameDepthExceeded ==
    /\ pc = "cname"
    /\ CnameLoopCond
    /\ s.cname_depth + 1 > MaxCnameDepth
    /\ c' = [c EXCEPT !.aa = TRUE, !.offset = s.first_offset, !.pkt = << >>,
                      !.ancount = 0, !.cname_ancount = 0]
    /\ s' = [s EXCEPT !.resdom = NoNode, !.via_cname = TRUE,
                      !.cname_depth = @ + 1]
    /\ pc' = "final"
    /\ UNCHANGED <<buf, rq, resp, nreq>>

(***************************************************************************)
(* The chase over: the rest of answer_from_db(), answer_from_db_outer()'s *)
(* truncation and trimming, the noerror counter and the end of           *)
(* process_dns_query().  start is the rotation's random draw and dr what  *)
(* a DYNA plugin callback returns.                                        *)
(***************************************************************************)
\* The bytes of glue in the side buffer: what a delegation needs besides
\* its NS RR-set (a property's measure, not a quantity of the code).
GlueBytes(ctx) ==
    FoldLeft(LAMBDA acc, x : acc + (IF x.glue THEN x.bytes ELSE 0), 0, ctx.astore)

CountNoerror(x) == IF x.rcode = "NOERROR" THEN Inc(x, "noerror") ELSE x
Finish(y) ==
    Complete(CountNoerror(AnswerOuter(y, s.first_offset)), rq.h, rq.r, OK,
             y.offset + GlueBytes(y))

FinishAnswer ==
    /\ pc = "final" \/ (pc = "cname" /\ ~CnameLoopCond)
    /\ \E start \in 0..MaxRotation, dr \in DynaddrResults :
         Finish(AnswerAfterChase([c EXCEPT !.dynres = dr], s, start, NoDync))
    /\ pc' = "idle"
    /\ nreq' = nreq + 1
    /\ UNCHANGED <<s, rq>>

Next ==
    \/ \E r \in Requests :
          DropRequest(r) \/ RejectNotimp(r) \/ AnswerError(r) \/ AnswerChaos(r)
          \/ StartAnswer(r)
    \/ CnameStep
    \/ CnameDepthExceeded
    \/ FinishAnswer

Init ==
    /\ buf = InitBuf
    /\ c = ResetContext([stats |-> [k \in Counters |-> 0], dync_count |-> 0])
    /\ pc = "idle"
    /\ s = [status |-> NOAUTH, resdom |-> NoNode, resauth |-> NoNode,
            via_cname |-> FALSE, cname_depth |-> 0, first_offset |-> 0]
    /\ rq = [r |-> CHOOSE r \in Requests : TRUE, h |-> InitBuf]
    /\ resp = [sent |-> FALSE, short |-> FALSE, q |-> InitBuf.q]
    /\ nreq = 0

Spec == Init /\ [][Next]_vars

-----------------------------------------------------------------------------
(***************************************************************************)
(* Properties.                                                             *)
(***************************************************************************)
Chunk == [sec : {"an", "ns", "ar"}, rrs : Nat, bytes : Nat]
TypeOK ==
    /\ pc \in {"idle", "cname", "final"}
    /\ nreq \in 0..MaxRequests
    /\ c.stats \in [Counters -> Nat]
    /\ c.pkt \in Seq(Chunk)
    /\ {c.ancount, c.nscount, c.arcount, c.cname_ancount, c.offset,
        c.addtl_offset, c.dync_count} \subseteq Nat
    /\ c.tmr \in Int
    /\ s.status \in {AUTH, DELEG, NOAUTH}
    /\ s.resdom \in ZoneNodes \cup {NoNode}
    /\ s.cname_depth \in 0..MaxCnameDepth + 1
    /\ buf.qdcount \in {0, 1, 2}

\* The response size a request allows: 512 bytes on UDP without EDNS, the
\* EDNS buffer size clamped to 512..max_response with it, max_response
\* (the size of the thread's packet buffer) on TCP.
Limit(r) ==
    IF ~IsUdp THEN MaxResponse
    ELSE IF r.edns THEN MinOf(MaxOf(r.opt.size, 512), MaxResponse)
    ELSE 512

\* Every response fits the size the request allows, OPT RR and client-subnet
\* echo included: the TC check and the trimming of answer_from_db_outer()
\* keep it there, against a this_max_response that parse_optrr() and every
\* client-subnet option have cut.
ResponseFitsLimit == resp.sent => resp.len <= Limit(resp)

\* The header counts of a response that was not truncated are the RRs its
\* body holds, section by section, after a CNAME chain was wiped for being
\* too long, after whole additional RR-sets were popped by the trim loop
\* (restoring arcount from the unwind records), and with the OPT RR.
HeaderCountsMatchBodyUntruncated ==
    resp.sent /\ ~resp.tc => resp.hdr = resp.body

\* The same for every response, truncated ones included: the TC path of
\* answer_from_db_outer() zeroes ancount, nscount and arcount.
HeaderCountsMatchBody == resp.sent => resp.hdr = resp.body

\* A delegation's glue is never trimmed away: a response that is not
\* truncated carries every glue RR-set written to the side buffer.
GlueKeptUnlessTruncated == resp.sent /\ ~resp.tc => resp.glue_kept

\* Dynamic CNAME targets never overrun dync_store, which holds
\* max_cname_depth names of 256 bytes: the depth check of the CNAME loop
\* comes before encode_rr_cname() takes a slot.
DyncStoreBound == c.dync_count <= MaxCnameDepth

\* Every request handled counts in exactly one of the counters statio sums
\* as the thread's requests: each path of process_dns_query() increments
\* one of them once.
RcodeCounters == {"noerror", "refused", "nxdomain", "notimp", "badvers",
                  "formerr", "dropped"}
EveryRequestCounted ==
    pc = "idle" =>
        FoldSet(LAMBDA k, acc : acc + c.stats[k], 0, RcodeCounters) = nreq

\* A request shorter than a header and a minimal question is dropped
\* without a response (the DECODE_IGNORE of decode_query()).
ShortRequestsDropped == resp.short => ~resp.sent

\* A response is truncated only when what it cannot do without (answer,
\* authority and the glue part of the additional section) does not fit;
\* other additional data is trimmed instead.
TruncatedOnlyWhenRequired == resp.sent /\ resp.tc => UGt(resp.needed, resp.room)

=============================================================================
