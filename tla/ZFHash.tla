------------------------------- MODULE ZFHash -------------------------------
(***************************************************************************)
(* zfhash of zsrc_rfc1035.c: the open-addressing hash of zfile_t entries, *)
(* with triangular probing (slot += jmpby++), deletion tombstones          *)
(* (ZFILE_DELETED) that only zfhash_grow() clears, and growth by doubling *)
(* at 25% load.                                                            *)
(*                                                                         *)
(* A slot holds NULL, DELETED or the name of the file whose zfile_t it    *)
(* points at.  HashOf is str_djb_hash() of each name; only its low bits   *)
(* matter (slot = hash & mask).  The actions are the table's uses by the  *)
(* zone watcher: process_zonefile() adds a file it found on disk after    *)
(* zfhash_find() missed it, and quiesce_check() deletes the entry of a    *)
(* file found gone.                                                        *)
(***************************************************************************)
EXTENDS Integers, FiniteSets

CONSTANTS
    Names,      \* zone file names
    HashOf,     \* name -> str_djb_hash(name), reduced to a few bits
    NULL,       \* an empty slot
    DELETED     \* ZFILE_DELETED

\* The size zfhash_grow() gives the table on its first call.
InitAlloc == 16

VARIABLES
    zfhash,         \* slot index -> NULL, DELETED or a name
    zfhash_alloc,   \* the number of slots (0 before the first add)
    zfhash_count    \* the number of real entries

vars == <<zfhash, zfhash_alloc, zfhash_count>>

\* SLOT_REAL(x): neither NULL nor a reclaimable tombstone.
SlotReal(x) == x \notin {NULL, DELETED}

\* The names the table holds.
Live(t) == {t[i] : i \in {j \in DOMAIN t : SlotReal(t[j])}}

\* The results of zfhash_find(): a slot index, NULL, or no result because
\* the probe loop never meets a NULL slot.
FIND_NULL == -1
FIND_LOOPS == -2

(***************************************************************************)
(* zfhash_find(): probe from hash & mask until a NULL slot or the name.   *)
(* The table does not change during the loop and the probe sequence is    *)
(* periodic with period 2 * alloc, so a loop that has made 2 * alloc      *)
(* probes without an answer never ends.                                   *)
(***************************************************************************)
RECURSIVE FindProbe(_, _, _, _, _, _)
FindProbe(t, a, n, slot, jmpby, steps) ==
    IF t[slot] = NULL THEN FIND_NULL
    ELSE IF t[slot] = n THEN slot
    ELSE IF steps >= 2 * a THEN FIND_LOOPS
    ELSE FindProbe(t, a, n, (slot + jmpby) % a, jmpby + 1, steps + 1)

ZfhashFind(t, a, n) ==
    IF a = 0 THEN FIND_NULL ELSE FindProbe(t, a, n, HashOf[n] % a, 1, 0)

\* The slot a probe from the name's home slot stops at: the first one that
\* holds a value of stopAt.
RECURSIVE FreeSlot(_, _, _, _, _)
FreeSlot(t, a, stopAt, slot, jmpby) ==
    IF t[slot] \in stopAt THEN slot
    ELSE FreeSlot(t, a, stopAt, (slot + jmpby) % a, jmpby + 1)

(***************************************************************************)
(* zfhash_grow(): the first call allocates 16 NULL slots; later calls     *)
(* double the table and re-insert the real entries in slot order, each at *)
(* the first NULL slot of its probe sequence in the new table.            *)
(***************************************************************************)
RECURSIVE Rehash(_, _, _, _, _)
Rehash(old, oa, i, nt, na) ==
    IF i = oa THEN nt
    ELSE Rehash(old, oa, i + 1,
                IF SlotReal(old[i])
                THEN [nt EXCEPT ![FreeSlot(nt, na, {NULL},
                                           HashOf[old[i]] % na, 1)] = old[i]]
                ELSE nt,
                na)

ZfhashGrow(t, a) ==
    IF a = 0 THEN [tbl |-> [i \in 0..InitAlloc - 1 |-> NULL], alloc |-> InitAlloc]
    ELSE [tbl |-> Rehash(t, a, 0, [i \in 0..2 * a - 1 |-> NULL], 2 * a),
          alloc |-> 2 * a]

(***************************************************************************)
(* zfhash_add(): grow first when count >= alloc / 4 (this also makes the  *)
(* first table), then take the first slot of the probe sequence that is   *)
(* not SLOT_REAL: a NULL one or a tombstone.                               *)
(***************************************************************************)
WithRoom == IF zfhash_count >= zfhash_alloc \div 4
            THEN ZfhashGrow(zfhash, zfhash_alloc)
            ELSE [tbl |-> zfhash, alloc |-> zfhash_alloc]

\* Mutant of PlaceAt: the new entry goes to its home slot, over whatever
\* is there.
PlaceAtHome(g, n) == [g.tbl EXCEPT ![HashOf[n] % g.alloc] = n]

PlaceAt(g, n) ==
    [g.tbl EXCEPT ![FreeSlot(g.tbl, g.alloc, {NULL, DELETED},
                             HashOf[n] % g.alloc, 1)] = n]

ZfhashAdd(n) ==
    /\ zfhash' = PlaceAt(WithRoom, n)
    /\ zfhash_alloc' = WithRoom.alloc
    /\ zfhash_count' = zfhash_count + 1

(***************************************************************************)
(* zfhash_del(): probe to the entry's slot, leave a tombstone there.      *)
(***************************************************************************)
\* Mutant of Tombstone: the slot is cleared to NULL instead.
TombstoneNull(n) ==
    [zfhash EXCEPT ![FreeSlot(zfhash, zfhash_alloc, {n},
                              HashOf[n] % zfhash_alloc, 1)] = NULL]

\* Mutant of Tombstone: no probe; the tombstone goes to the home slot.
TombstoneHome(n) == [zfhash EXCEPT ![HashOf[n] % zfhash_alloc] = DELETED]

Tombstone(n) ==
    [zfhash EXCEPT ![FreeSlot(zfhash, zfhash_alloc, {n},
                              HashOf[n] % zfhash_alloc, 1)] = DELETED]

ZfhashDel(n) ==
    /\ zfhash' = Tombstone(n)
    /\ zfhash_count' = zfhash_count - 1
    /\ UNCHANGED zfhash_alloc

(***************************************************************************)
(* The table's uses.  process_zonefile() looks a name up and, when the    *)
(* file exists and zfhash_find() returned NULL, allocates a zfile_t and   *)
(* adds it.  quiesce_check() deletes the entry of a file whose quiesced   *)
(* state is "gone".                                                        *)
(***************************************************************************)
AddNewFile(n) ==
    /\ ZfhashFind(zfhash, zfhash_alloc, n) = FIND_NULL
    /\ ZfhashAdd(n)

DeleteGoneFile(n) ==
    /\ ZfhashFind(zfhash, zfhash_alloc, n) >= 0
    /\ ZfhashDel(n)

Next == \E n \in Names : AddNewFile(n) \/ DeleteGoneFile(n)

Init ==
    /\ zfhash = [i \in {} |-> NULL]
    /\ zfhash_alloc = 0
    /\ zfhash_count = 0

Spec == Init /\ [][Next]_vars

-----------------------------------------------------------------------------
TypeOK ==
    /\ zfhash_alloc \in {0} \cup {InitAlloc * 2^k : k \in 0..4}
    /\ zfhash \in [0..zfhash_alloc - 1 -> Names \cup {NULL, DELETED}]
    /\ zfhash_count \in 0..Cardinality(Names)

\* Whenever zfhash_find() returns, it answers a name with the slot of its
\* entry when the table holds one and with NULL when it does not, across
\* tombstones left by deletions, tombstones reused by later adds and
\* rehashing by growth.  Whether it returns at all is LookupsTerminate's
\* question.
FindAgrees ==
    \A n \in Names :
        LET r == ZfhashFind(zfhash, zfhash_alloc, n)
        IN r # FIND_LOOPS =>
              /\ (r >= 0) <=> n \in Live(zfhash)
              /\ r >= 0 => zfhash[r] = n

\* Every zfhash_find() that process_zonefile() may make returns: some slot
\* on every probe sequence is still NULL.
LookupsTerminate ==
    \A n \in Names : ZfhashFind(zfhash, zfhash_alloc, n) # FIND_LOOPS

\* The names the table holds behave as the set of ZoneFileSet: adds and
\* deletes, growth included, change it by exactly the one name.
Abstract == INSTANCE ZoneFileSet WITH files <- Live(zfhash)
ImplementsZoneFileSet == Abstract!Spec

=============================================================================
