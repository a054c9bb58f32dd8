---------------------------- MODULE DnsZone ----------------------------
(***************************************************************************)
(* The in-memory zone tree ("ltree") that the DNS engine of gdnsd answers *)
(* from, and the walk search_ltree() makes over it (dnspacket.c).         *)
(*                                                                         *)
(* A domain name is a sequence of labels in wire order: <<"www","example">>*)
(* is www.example., << >> is the root.  A node of the tree is a name; the *)
(* tree is closed under taking the parent, so every node's ancestors are  *)
(* nodes too.  The flags LTNFLAG_ZROOT and LTNFLAG_DELEG are the sets     *)
(* ZRoots and Delegs.  A node's RR-sets are a sequence of records built    *)
(* by the constructors below (one record shape for every type, so that     *)
(* TLC can compare any two).                                               *)
(***************************************************************************)
EXTENDS Naturals, Sequences, FiniteSets

CONSTANTS
    ZoneNodes,      \* the names of the tree's nodes
    ZRoots,         \* nodes flagged LTNFLAG_ZROOT (zone apexes)
    Delegs,         \* nodes flagged LTNFLAG_DELEG (delegation points)
    NodeRRsets      \* node -> sequence of RR-set records (ltree_rrset_t list)

\* The sentinel for a NULL ltree_node_t pointer.
NoNode == <<"-">>

\* The search statuses of ltree_dname_status_t.
AUTH == "AUTH"
DELEG == "DELEG"
NOAUTH == "NOAUTH"

\* The wildcard label.
Wild == "*"

Parent(n) == Tail(n)

\* The name of the child of node n with label l.
Child(n, l) == <<l>> \o n

\* The suffix of name q made of its last k labels: the node the walk of
\* search_ltree() is at after consuming k labels from the top of the stack.
Suffix(q, k) == SubSeq(q, Len(q) - k + 1, Len(q))

\* n is name q itself or one of its ancestors.
IsSuffixOf(n, q) == Len(n) <= Len(q) /\ Suffix(q, Len(n)) = n

HasChildren(n) == \E m \in ZoneNodes : Len(m) = Len(n) + 1 /\ Parent(m) = n

(***************************************************************************)
(* RR-set records.  An Addr RR-set holds both the A and AAAA addresses of *)
(* a node (ltree_rrset_addr_t); it is static (counts from the zone file)  *)
(* or dynamic (DYNA: the plugin callback decides the counts per request). *)
(* "rdata" of NS and MX is a sequence of [size, ad, glue]: ad is the node *)
(* whose Addr RR-set the rdata's additional-data pointer names, or NoNode;*)
(* glue is the AD_IS_GLUE tag.  A CNAME is static with a target name, or  *)
(* dynamic (DYNC) with the plugin choosing the target.  size is the bytes *)
(* the encoder writes per RR (owner pointer, fixed part and rdata).       *)
(***************************************************************************)
RRset(t, st, v4, v6, rd, tg, sz) ==
    [type |-> t, static |-> st, v4 |-> v4, v6 |-> v6, rdata |-> rd,
     target |-> tg, size |-> sz]
AddrRRset(v4, v6) == RRset("ADDR", TRUE, v4, v6, << >>, NoNode, 0)
DynAddrRRset == RRset("ADDR", FALSE, 0, 0, << >>, NoNode, 0)
NSRRset(rd) == RRset("NS", TRUE, 0, 0, rd, NoNode, 0)
MXRRset(rd) == RRset("MX", TRUE, 0, 0, rd, NoNode, 0)
CnameRRset(tg, sz) == RRset("CNAME", TRUE, 0, 0, << >>, tg, sz)
DynCnameRRset(sz) == RRset("CNAME", FALSE, 0, 0, << >>, NoNode, sz)
SoaRRset(sz) == RRset("SOA", TRUE, 0, 0, << >>, NoNode, sz)
TxtRRset(sz) == RRset("TXT", TRUE, 0, 0, << >>, NoNode, sz)
Rdata(sz, ad, glue) == [size |-> sz, ad |-> ad, glue |-> glue]

\* Bytes of one A and one AAAA RR: 2-byte compressed owner, 10 fixed bytes,
\* then 4 or 16 address bytes (enc_a_static, enc_aaaa_static).
ASize == 16
AAAASize == 28

RRsetsOf(n) == IF n \in ZoneNodes THEN NodeRRsets[n] ELSE << >>

\* The first RR-set of node n of type t, or the empty sequence.
FindRRset(n, t) ==
    LET rs == RRsetsOf(n)
        hits == {i \in 1..Len(rs) : rs[i].type = t}
    IN IF hits = {} THEN << >>
       ELSE << rs[CHOOSE i \in hits : \A j \in hits : i <= j] >>

\* The node's first RR-set is a CNAME (a CNAME node has no other RR-set).
IsCnameNode(n) == n # NoNode /\ Len(RRsetsOf(n)) > 0
                  /\ RRsetsOf(n)[1].type = "CNAME"

(***************************************************************************)
(* search_ltree(dname, &node, &auth, checkroot, &auth_depth, &crossed).   *)
(* The walk starts at the root with all labels on the stack.  Entering a  *)
(* node flagged ZROOT makes the status AUTH with that node as authority;  *)
(* DELEG makes it DELEG with the delegation as result node.  The walk     *)
(* stops when the labels are exhausted (AUTH: the current node is the     *)
(* result) or the node has no child table; on a missing child in AUTH     *)
(* space the result is the current node's wildcard child, if any.         *)
(* "crossed" is *checkroot_crossed: the walk entered checkroot.           *)
(* auth_depth only places the zone name for compression and is left out. *)
(***************************************************************************)
RECURSIVE Walk(_, _, _, _), WalkCrossedLast(_, _, _, _)

\* Mutant of Walk: *checkroot_crossed reflects only the node the walk
\* ends at instead of sticking once checkroot is passed.
WalkCrossedLast(q, k, checkroot, r) ==
    LET cur == Suffix(q, k)
        r1 == [r EXCEPT !.crossed = (cur = checkroot)]
        r2 == IF cur \in ZRoots THEN [r1 EXCEPT !.auth = cur, !.node = NoNode,
                                                !.status = AUTH]
              ELSE IF cur \in Delegs THEN [r1 EXCEPT !.node = cur, !.status = DELEG]
              ELSE r1
    IN IF k = Len(q) \/ ~HasChildren(cur)
       THEN IF k = Len(q) /\ r2.status = AUTH THEN [r2 EXCEPT !.node = cur] ELSE r2
       ELSE IF Suffix(q, k + 1) \in ZoneNodes THEN Walk(q, k + 1, checkroot, r2)
       ELSE IF r2.status = AUTH /\ Child(cur, Wild) \in ZoneNodes
            THEN [r2 EXCEPT !.node = Child(cur, Wild)]
       ELSE r2

Walk(q, k, checkroot, r) ==
    LET cur == Suffix(q, k)
        r1 == [r EXCEPT !.crossed = @ \/ cur = checkroot]
        r2 == IF cur \in ZRoots THEN [r1 EXCEPT !.auth = cur, !.node = NoNode,
                                                !.status = AUTH]
              ELSE IF cur \in Delegs THEN [r1 EXCEPT !.node = cur,
                                                     !.status = DELEG]
              ELSE r1
        next == Suffix(q, k + 1)
    IN IF k = Len(q) \/ ~HasChildren(cur)
       THEN IF k = Len(q) /\ r2.status = AUTH THEN [r2 EXCEPT !.node = cur]
            ELSE r2
       ELSE IF next \in ZoneNodes THEN Walk(q, k + 1, checkroot, r2)
       ELSE IF r2.status = AUTH /\ Child(cur, Wild) \in ZoneNodes
            THEN [r2 EXCEPT !.node = Child(cur, Wild)]
       ELSE r2

SearchLtree(q, checkroot) ==
    Walk(q, 0, checkroot,
         [status |-> NOAUTH, node |-> NoNode, auth |-> NoNode, crossed |-> FALSE])

=============================================================================
