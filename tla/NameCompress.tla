---------------------------- MODULE NameCompress ----------------------------
(***************************************************************************)
(* DNS name compression in dnspacket.c: store_dname(), its compression    *)
(* target search, store_dname_nocomp(), repeat_name() and chase_auth_ptr(),*)
(* driven by the RR encoders that write owner and rdata names into one    *)
(* response (the CNAME chain first, then RRs of any type, as for an ANY   *)
(* query, and A RRs for additional-section glue in addtl_store).          *)
(*                                                                         *)
(* A name is a sequence of labels, leftmost first, without the root; a    *)
(* label is a model value whose wire size is 1 + LabelLen[l].  The packet *)
(* is a function from the offsets at which names were written to the      *)
(* segment written there: literal labels followed by either the root byte *)
(* or a 16-bit compression pointer word.  Everything else in the packet   *)
(* (header, type, class, TTL, rdlen and non-name rdata) only moves the    *)
(* offset.  Positions inside a name are label indices: index i stands for *)
(* the byte where label i starts, Len(dn) + 1 for the root byte or the    *)
(* pointer that ends the name.                                             *)
(***************************************************************************)
EXTENDS Integers, SequencesExt

CONSTANTS
    LabelLen,        \* label -> number of bytes of its text
    Zone,            \* the zone apex all query names are in
    QNames,          \* query names (lqname), all in Zone
    RNames,          \* names in rdata: NS, PTR, MX, SRV, NAPTR, SOA, CNAME
    SoaNames,        \* <<MNAME, RNAME>> of the zone's SOA
    RdLens,          \* rdata lengths of RFC 3597 RRs, which hold no names
    MaxResponse,     \* max_response
    CompTargetsMax,  \* COMPTARGETS_MAX
    MaxRRs           \* bound: RRs written into one response

HeaderSize == 12        \* sizeof(wire_dns_header_t)
PtrRange == 16384       \* a compression pointer holds a 14-bit offset
NoBest == 256           \* best_matched_at = dn + 255: past every label
MaxHops == 8            \* bound: pointers a decoder follows in one name
Limit == MaxResponse - 11   \* this_max_response on TCP (room for the OPT RR)

\* Bytes the labels of s take on the wire (length byte and text of each).
\* (a label read from bytes that start no name counts one byte)
RECURSIVE LabelBytes(_)
LabelBytes(s) ==
    IF s = << >> THEN 0
    ELSE LET l == Head(s)
         IN 1 + (IF l \in DOMAIN LabelLen THEN LabelLen[l] ELSE 1) + LabelBytes(Tail(s))
\* *dn: the length of the stored name, root byte included.
DnLen(dn) == LabelBytes(dn) + 1
\* dn_last - dn_current: bytes from label i of dn to its root byte.
Remain(dn, i) == LabelBytes(SubSeq(dn, i, Len(dn)))

RootTail == [ptr |-> FALSE, w |-> 0]
PtrTail(w) == [ptr |-> TRUE, w |-> w]
Seg(labels, tail) == [labels |-> labels, tail |-> tail]
\* htons(0xC000 | off): the 16-bit word a pointer to off is written as.  For
\* off < 65536 the OR keeps off's low 14 bits and sets the top two, so an
\* off of 16384 or more loses its bit 14 (and bit 15).
PtrField(off) == 49152 + (off % PtrRange)
\* ntohs(word) & ~0xC000: the offset a reader takes from a pointer word.
PtrTarget(w) == w % PtrRange

Target(dn, at, comp) == [name |-> dn, stored_at |-> at, comp |-> comp]
NoMatch == [at |-> NoBest, off |-> 0]

\* Remain(dn, i) for every label index of dn (dn_last - dn_current).
Remains(dn) == [i \in 1..Len(dn) + 1 |-> LabelBytes(SubSeq(dn, i, Len(dn)))]

(***************************************************************************)
(* The do-while of store_dname() over one candidate: walk the suffixes of  *)
(* dn (from label i, rd[i] bytes to its root) and of the candidate (from  *)
(* label j, rc[j] bytes), advancing the longer one (both when equally     *)
(* long), until equal-length equal suffixes are found or a walk reaches   *)
(* the best match so far, the candidate's comp_ptr or a root.  Returns    *)
(* the match, or in = 0 for none.                                          *)
(***************************************************************************)
RECURSIVE Walk(_, _, _, _, _, _, _, _)

\* Mutant of Walk: the walk of dn goes on while it has not passed the best
\* match (> for >=), so a later candidate can replace an equally long one.
WalkTieLater(dn, rd, cand, rc, comp, i, j, best) ==
    LET lcmp == rd[i] - rc[j]
        i2 == IF lcmp >= 0 THEN i + 1 ELSE i
        j2 == IF lcmp <= 0 THEN j + 1 ELSE j
    IN IF lcmp = 0 /\ SubSeq(dn, i, Len(dn)) = SubSeq(cand, j, Len(cand))
       THEN [at |-> i, in |-> j]
       ELSE IF \/ lcmp >= 0 /\ (i2 > best \/ rd[i2] = 0)
               \/ lcmp <= 0 /\ (j2 >= comp \/ rc[j2] = 0)
            THEN [at |-> best, in |-> 0]
            ELSE Walk(dn, rd, cand, rc, comp, i2, j2, best)

Walk(dn, rd, cand, rc, comp, i, j, best) ==
    LET lcmp == rd[i] - rc[j]
        i2 == IF lcmp >= 0 THEN i + 1 ELSE i
        j2 == IF lcmp <= 0 THEN j + 1 ELSE j
    IN IF lcmp = 0 /\ SubSeq(dn, i, Len(dn)) = SubSeq(cand, j, Len(cand))
       THEN [at |-> i, in |-> j]
       ELSE IF \/ lcmp >= 0 /\ (i2 >= best \/ rd[i2] = 0)
               \/ lcmp <= 0 /\ (j2 >= comp \/ rc[j2] = 0)
            THEN [at |-> best, in |-> 0]
            ELSE Walk(dn, rd, cand, rc, comp, i2, j2, best)

\* The best match after candidate t (rc: its Remains) gave the walk result w;
\* its offset is stored_at plus the candidate's bytes before the match.
Taken(best, t, rc, w) ==
    IF w.in = 0 THEN best ELSE [at |-> w.at, off |-> t.stored_at + rc[1] - rc[w.in]]
TakenFrom(dn, rd, t, rc, best) == Taken(best, t, rc, Walk(dn, rd, t.name, rc, t.comp, 1, 1, best.at))

\* The foreach-candidate loop: targets in the order they were recorded, a
\* later one only taken for a strictly longer match, stopping at a full one.
RECURSIVE Search(_, _, _, _, _)
Search(dn, rd, ts, k, best) ==
    IF k > Len(ts) \/ best.at = 1 THEN best
    ELSE Search(dn, rd, ts, k + 1, TakenFrom(dn, rd, ts[k], Remains(ts[k].name), best))

\* The rest of store_dname() once the search gave b: record dn as a target
\* unless fully compressed (main packet, offset in pointer range, room in
\* the list), then write the unmatched labels and a pointer, or the name.
StoredAs(o, dn, is_addtl, ts, rd, b) ==
    [size |-> IF b.off # 0 THEN rd[1] - rd[b.at] + 2 ELSE rd[1] + 1,
     seg |-> IF b.off # 0 THEN Seg(SubSeq(dn, 1, b.at - 1), PtrTail(PtrField(b.off)))
             ELSE Seg(dn, RootTail),
     ts |-> IF b.at # 1 /\ ~is_addtl /\ o < PtrRange /\ Len(ts) < CompTargetsMax
            THEN Append(ts, Target(dn, o, b.at)) ELSE ts]
StoredWith(o, dn, is_addtl, ts, rd) == StoredAs(o, dn, is_addtl, ts, rd, Search(dn, rd, ts, 1, NoMatch))

\* store_dname(): the bytes written, the segment and the target list after.
StoreDname(o, dn, is_addtl, ts) ==
    IF dn = << >> THEN [size |-> 1, seg |-> Seg(<< >>, RootTail), ts |-> ts]
    ELSE StoredWith(o, dn, is_addtl, ts, Remains(dn))

\* Mutant of StoreDnameNocomp: the room check is <= COMPTARGETS_MAX.
StoreDnameNocompOverfill(o, dn, ts) ==
    [size |-> DnLen(dn), seg |-> Seg(dn, RootTail),
     ts |-> IF dn # << >> /\ o < PtrRange /\ Len(ts) <= CompTargetsMax
            THEN Append(ts, Target(dn, o, NoBest)) ELSE ts]

\* store_dname_nocomp(): written whole, recorded as a target all the same.
StoreDnameNocomp(o, dn, ts) ==
    [size |-> DnLen(dn), seg |-> Seg(dn, RootTail),
     ts |-> IF dn # << >> /\ o < PtrRange /\ Len(ts) < CompTargetsMax
            THEN Append(ts, Target(dn, o, NoBest)) ELSE ts]

\* The <<segment start, label index>> pairs that begin at byte x of P.
Positions(P, x) ==
    {p \in UNION {{<<s, k>> : k \in 1..Len(P[s].labels) + 1} : s \in DOMAIN P} :
        p[1] + LabelBytes(SubSeq(P[p[1]].labels, 1, p[2] - 1)) = x}
\* What starts at label index k of segment g: a label, or its end ("root"
\* or "ptr").
LocatedIn(g, k) ==
    [seg |-> g, k |-> k,
     kind |-> CASE k <= Len(g.labels) -> "label" [] g.tail.ptr -> "ptr" [] OTHER -> "root"]
NoLoc == [seg |-> Seg(<< >>, RootTail), k |-> 1, kind |-> "none"]
LocatedAt(P, p) == LocatedIn(P[p[1]], p[2])
\* What starts at byte x of P; NoLoc where no name starts.
Locate(P, x) ==
    IF Positions(P, x) = {} THEN NoLoc ELSE LocatedAt(P, CHOOSE p \in Positions(P, x) : TRUE)

Garbage == "?"   \* what a reader makes of bytes that start no name
\* The name a reader decodes at x, following pointers (gdnsd_dname_from_raw()).
RECURSIVE DecodeAt(_, _, _)
DecodeFrom(P, l, hops) ==
    IF l.kind = "none" \/ hops = 0 THEN <<Garbage>>
    ELSE SubSeq(l.seg.labels, l.k, Len(l.seg.labels))
         \o (IF l.seg.tail.ptr THEN DecodeAt(P, PtrTarget(l.seg.tail.w), hops - 1) ELSE << >>)
DecodeAt(P, x, hops) == DecodeFrom(P, Locate(P, x), hops)

\* repeat_name(): a name already in the packet at orig (found there: l) is
\* repeated at store_at: the root byte, a copy of the pointer found there,
\* a pointer to orig, or (orig out of pointer range) the name stored again
\* by store_dname() against the targets, as an additional-section write.
RepeatFrom(P, store_at, orig, ts, l) ==
    CASE l.kind = "root" -> [size |-> 1, seg |-> Seg(<< >>, RootTail), ts |-> ts]
      [] l.kind = "ptr" -> [size |-> 2, seg |-> Seg(<< >>, l.seg.tail), ts |-> ts]
      [] orig < PtrRange -> [size |-> 2, seg |-> Seg(<< >>, PtrTail(PtrField(orig))), ts |-> ts]
      [] OTHER -> StoreDname(store_at, DecodeAt(P, orig, MaxHops), TRUE, ts)
RepeatName(P, store_at, orig, is_addtl, ts) == RepeatFrom(P, store_at, orig, ts, Locate(P, orig))

\* chase_auth_ptr(): from the name at x (found there: l), skip depth bytes
\* of labels, following pointers; -1 where the walk leaves the names.
RECURSIVE ChaseAuthPtr(_, _, _, _)

\* Mutant of ChaseFrom: a compression pointer ends the chase, as if it
\* were the start of the zone's name.
ChaseFromStopAtPtr(P, x, depth, hops, l) ==
    CASE depth = 0 \/ l.kind = "ptr" -> x
      [] l.kind = "label" /\ LabelBytes(<<l.seg.labels[l.k]>>) <= depth ->
            ChaseAuthPtr(P, x + LabelBytes(<<l.seg.labels[l.k]>>),
                         depth - LabelBytes(<<l.seg.labels[l.k]>>), hops)
      [] OTHER -> -1

ChaseFrom(P, x, depth, hops, l) ==
    CASE depth = 0 -> x
      [] l.kind = "ptr" /\ hops > 0 -> ChaseAuthPtr(P, PtrTarget(l.seg.tail.w), depth, hops - 1)
      [] l.kind = "label" /\ LabelBytes(<<l.seg.labels[l.k]>>) <= depth ->
            ChaseAuthPtr(P, x + LabelBytes(<<l.seg.labels[l.k]>>),
                         depth - LabelBytes(<<l.seg.labels[l.k]>>), hops)
      [] OTHER -> -1
ChaseAuthPtr(P, x, depth, hops) == ChaseFrom(P, x, depth, hops, Locate(P, x))

\* auth_depth from search_ltree(): the bytes of dn's labels above the zone.
AuthDepth(dn) == LabelBytes(dn) - LabelBytes(Zone)
InZone(dn) == IsSuffix(Zone, dn)

-----------------------------------------------------------------------------
VARIABLES
    pkt,      \* offset -> segment: the names written into c->packet
    apkt,     \* offset -> segment: the names written into c->addtl_store
    ts,       \* c->comptargets[0 .. comptarget_count - 1]
    off,      \* the offset the next RR of the answer is written at
    aoff,     \* c->addtl_offset
    qcomp,    \* c->qname_comp
    acomp,    \* c->auth_comp
    qn,       \* the name qname_comp stands for: lqname or the last CNAME target
    glue,     \* rdata names with addresses: add_addtl_rrset(c, ad, offset)
    want,     \* every name written: where, and the name the code meant
    nrr,      \* RRs written
    chain     \* still in the CNAME chain of answer_from_db()

vars == <<pkt, apkt, ts, off, aoff, qcomp, acomp, qn, glue, want, nrr, chain>>

Want(buf, at, name) == [buf |-> buf, at |-> at, name |-> name]
ARFixed == 14    \* type, class, TTL, rdlen and the 4-byte address of an A RR
NaptrTexts == 3  \* the flags, services and regexp strings, here all empty

\* add_addtl_rrset() from an encoder whose rdata name dn (with addresses,
\* not added before) was stored at `at`: enc_a_static() into addtl_store,
\* its owner by repeat_name(c, addtl_offset, at, true).
AddtlA(dn, a) ==
    [apkt |-> apkt @@ (aoff :> a.seg), aoff |-> aoff + a.size + ARFixed,
     glue |-> glue \cup {dn}, want |-> {Want("addtl", aoff, dn)}, ts |-> a.ts]
AddAddtl(P, at, dn, t) == AddtlA(dn, RepeatName(P, aoff, at, TRUE, t))
NoAddtl(t) == [apkt |-> apkt, aoff |-> aoff, glue |-> glue, want |-> {}, ts |-> t]

(***************************************************************************)
(* One RR: the owner by repeat_name() from the name at comp (standing for *)
(* owner), 10 fixed bytes, pre rdata bytes, the rdata name dn stored by   *)
(* store_dname() (store_dname_nocomp() if nocomp), post rdata bytes, and  *)
(* the glue of dn when the RR type has additional-section processing (ad).*)
(* The response must keep room for what was written.                     *)
(***************************************************************************)
WriteRR(comp, owner, pre, dn, nocomp, post, ad) ==
    /\ nrr < MaxRRs
    /\ \E own \in {RepeatName(pkt, off, comp, FALSE, ts)} :
       LET at == off + own.size + 10 + pre IN
       \E r \in {IF nocomp THEN StoreDnameNocomp(at, dn, own.ts) ELSE StoreDname(at, dn, FALSE, own.ts)} :
       \E P \in {pkt @@ (off :> own.seg) @@ (at :> r.seg)} :
       \E x \in {IF ad /\ InZone(dn) /\ dn \notin glue THEN AddAddtl(P, at, dn, r.ts) ELSE NoAddtl(r.ts)} :
          /\ at + r.size + post + x.aoff <= Limit
          /\ pkt' = P
          /\ ts' = x.ts
          /\ off' = at + r.size + post
          /\ apkt' = x.apkt
          /\ aoff' = x.aoff
          /\ glue' = x.glue
          /\ want' = want \cup x.want \cup {Want("pkt", off, owner), Want("pkt", at, dn)}
          /\ nrr' = nrr + 1

\* encode_rrs_ns(): owner auth_comp, the NS name compressed, glue.
EncodeRRsNS(dn) ==
    /\ WriteRR(acomp, Zone, 0, dn, FALSE, 0, TRUE)
    /\ chain' = FALSE
    /\ UNCHANGED <<qcomp, acomp, qn>>

\* encode_rrs_ptr(): owner qname_comp, the PTR name compressed.
EncodeRRsPtr(dn) ==
    /\ WriteRR(qcomp, qn, 0, dn, FALSE, 0, TRUE)
    /\ chain' = FALSE
    /\ UNCHANGED <<qcomp, acomp, qn>>

\* encode_rrs_mx(): a 2-byte preference, then the exchange compressed.
EncodeRRsMx(dn) ==
    /\ WriteRR(qcomp, qn, 2, dn, FALSE, 0, TRUE)
    /\ chain' = FALSE
    /\ UNCHANGED <<qcomp, acomp, qn>>

\* encode_rrs_srv(): priority, weight, port, then the target uncompressed.
EncodeRRsSrv(dn) ==
    /\ WriteRR(qcomp, qn, 6, dn, TRUE, 0, TRUE)
    /\ chain' = FALSE
    /\ UNCHANGED <<qcomp, acomp, qn>>

\* encode_rrs_naptr(): order, preference, three strings, the replacement
\* uncompressed.
EncodeRRsNaptr(dn) ==
    /\ WriteRR(qcomp, qn, 4 + NaptrTexts, dn, TRUE, 0, TRUE)
    /\ chain' = FALSE
    /\ UNCHANGED <<qcomp, acomp, qn>>

\* encode_rrs_rfc3597(): owner qname_comp and opaque rdata, no name.
EncodeRRsRfc3597(len) ==
    /\ nrr < MaxRRs
    /\ \E own \in {RepeatName(pkt, off, qcomp, FALSE, ts)} :
          /\ off + own.size + 10 + len + aoff <= Limit
          /\ pkt' = pkt @@ (off :> own.seg)
          /\ off' = off + own.size + 10 + len
    /\ want' = want \cup {Want("pkt", off, qn)}
    /\ nrr' = nrr + 1
    /\ chain' = FALSE
    /\ UNCHANGED <<apkt, ts, aoff, qcomp, acomp, qn, glue>>

\* encode_rr_soa(): owner auth_comp, MNAME and RNAME compressed one after
\* the other, then the five 32-bit times.
EncodeRRSoa(m, e) ==
    /\ nrr < MaxRRs
    /\ \E own \in {RepeatName(pkt, off, acomp, FALSE, ts)} :
       LET at1 == off + own.size + 10 IN
       \E r1 \in {StoreDname(at1, m, FALSE, own.ts)} :
       \E r2 \in {StoreDname(at1 + r1.size, e, FALSE, r1.ts)} :
          /\ at1 + r1.size + r2.size + 20 + aoff <= Limit
          /\ pkt' = pkt @@ (off :> own.seg) @@ (at1 :> r1.seg) @@ (at1 + r1.size :> r2.seg)
          /\ ts' = r2.ts
          /\ off' = at1 + r1.size + r2.size + 20
          /\ want' = want \cup {Want("pkt", off, Zone), Want("pkt", at1, m),
                                Want("pkt", at1 + r1.size, e)}
    /\ nrr' = nrr + 1
    /\ chain' = FALSE
    /\ UNCHANGED <<apkt, aoff, qcomp, acomp, qn, glue>>

\* One turn of the CNAME loop of answer_from_db(): encode_rr_cname() with
\* answer = false writes the CNAME and moves qname_comp to its target;
\* search_ltree() of the target (in the zone: the authority is crossed)
\* gives auth_depth, and chase_auth_ptr() moves auth_comp.
CnameStep(dn) ==
    /\ chain
    /\ InZone(dn)
    /\ WriteRR(qcomp, qn, 0, dn, FALSE, 0, FALSE)
    /\ qcomp' = Max(DOMAIN pkt')
    /\ qn' = dn
    /\ acomp' = ChaseAuthPtr(pkt', qcomp', AuthDepth(dn), MaxHops)
    /\ chain' = TRUE

NoSegs == [x \in {} |-> Seg(<< >>, RootTail)]

\* process_dns_query() for a decoded query: the question name copied to
\* offset 12 and made compression target 0 when it is not the root,
\* qname_comp = 12, then answer_from_db(): auth_comp = qname_comp + auth_depth.
Init ==
    \E q \in QNames :
        /\ pkt = (HeaderSize :> Seg(q, RootTail))
        /\ ts = IF q # << >> THEN <<Target(q, HeaderSize, NoBest)>> ELSE << >>
        /\ off = HeaderSize + DnLen(q) + 4
        /\ qcomp = HeaderSize
        /\ acomp = HeaderSize + AuthDepth(q)
        /\ qn = q
        /\ apkt = NoSegs
        /\ aoff = 0
        /\ glue = {}
        /\ want = {Want("pkt", HeaderSize, q)}
        /\ nrr = 0
        /\ chain = TRUE

Next ==
    \/ \E dn \in RNames : \/ CnameStep(dn)
                          \/ EncodeRRsNS(dn)
                          \/ EncodeRRsPtr(dn)
                          \/ EncodeRRsMx(dn)
                          \/ EncodeRRsSrv(dn)
                          \/ EncodeRRsNaptr(dn)
    \/ \E me \in SoaNames : EncodeRRSoa(me[1], me[2])
    \/ \E len \in RdLens : EncodeRRsRfc3597(len)

Spec == Init /\ [][Next]_vars

-----------------------------------------------------------------------------
\* The response as sent: c->packet, then addtl_store copied in at offset.
Final == pkt @@ [x \in {off + a : a \in DOMAIN apkt} |-> apkt[x - off]]
AbsAt(w) == IF w.buf = "pkt" THEN w.at ELSE off + w.at

IsSegment(g) ==
    /\ g.labels \in Seq(DOMAIN LabelLen)
    /\ g.tail = RootTail \/ (g.tail.ptr /\ g.tail.w \in 49152..65535)

TypeOK ==
    /\ DOMAIN pkt \subseteq HeaderSize..Limit /\ \A o \in DOMAIN pkt : IsSegment(pkt[o])
    /\ DOMAIN apkt \subseteq 0..Limit /\ \A o \in DOMAIN apkt : IsSegment(apkt[o])
    /\ Len(ts) <= CompTargetsMax
    /\ \A k \in 1..Len(ts) : ts[k].stored_at \in HeaderSize..(PtrRange - 1)
    /\ off + aoff <= Limit
    /\ qcomp \in DOMAIN pkt /\ glue \subseteq RNames /\ nrr \in 0..MaxRRs

\* Every name any encoder wrote, into the packet or the additional
\* section, reads back, through the compression pointers store_dname() and
\* repeat_name() made and the auth_comp chase_auth_ptr() found, as the name
\* the code meant to write there: owner names as the query name, the CNAME
\* target or the zone, rdata names as themselves.
NamesDecode ==
    \A w \in want : DecodeAt(Final, AbsAt(w), MaxHops) = w.name

\* The target search of store_dname() finds what a declarative statement
\* says, for every rdata name against the targets recorded so far: the
\* longest suffix of the name (by label) that some target holds literally
\* (before its comp_ptr), at the offset of the first target holding it.
RefBest(dn, t) ==
    LET M == {m \in UNION {{<<k, i, j>> : i \in 1..Len(dn), j \in 1..Len(t[k].name)} : k \in 1..Len(t)} :
                 /\ m[3] < t[m[1]].comp
                 /\ SubSeq(dn, m[2], Len(dn)) = SubSeq(t[m[1]].name, m[3], Len(t[m[1]].name))}
    IN IF M = {} THEN NoMatch
       ELSE LET at == CHOOSE i \in {m[2] : m \in M} : \A m \in M : i <= m[2]
                first == CHOOSE m \in M : m[2] = at /\ \A m2 \in M : m2[2] = at => m[1] <= m2[1]
            IN [at |-> at,
                off |-> t[first[1]].stored_at + LabelBytes(SubSeq(t[first[1]].name, 1, first[3] - 1))]

SearchMatchesReference ==
    \A dn \in RNames \ {<< >>} : Search(dn, Remains(dn), ts, 1, NoMatch) = RefBest(dn, ts)
=============================================================================
