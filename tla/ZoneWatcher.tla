---------------------------- MODULE ZoneWatcher ----------------------------
(***************************************************************************)
(* The zone-file watcher of zsrc_rfc1035.c: the reload thread's initial   *)
(* load and its periodic rescans, the quiescence timer of each zfile_t,    *)
(* and the zones it publishes with zlist_update(), against a zones         *)
(* directory that another process writes to at any time.                 *)
(*                                                                         *)
(* A file's lstat() triple (mtime, inode, device) is a stamp: NX (0/0/0)  *)
(* for a missing file, and a fresh number for every write, except that a  *)
(* rewrite in place within the same second keeps the stamp (mtime has     *)
(* one-second granularity).  A file's contents are a version number and  *)
(* whether they parse.  The table of zfile_t is a function from names;    *)
(* ZFHash shows the hash table behind it implements such a set.           *)
(***************************************************************************)
EXTENDS Naturals, FiniteSets

CONSTANTS
    Files,              \* zone file names
    MaxWrites,          \* bound on the writes to the directory
    SameSecondWrites,   \* a rewrite may keep the file's stamp
    WritesDuringLoad,   \* the directory may change during the initial load
    NoZone              \* no zone published (NULL)

VARIABLES
    disk,       \* name -> [st, v, ok]: the file as lstat() and the parser see it
    zf,         \* name -> the zfile_t, if the table has one
    pub,        \* name -> the zone version zlist holds, or NoZone
    inload,     \* the quiesce_check() that is between parsing and post_check
    phase,      \* "load": zsrc_rfc1035_load_zones()'s loop; "run": after it
    nwrites     \* writes made so far

vars == <<disk, zf, pub, inload, phase, nwrites>>

NX == 0
NoFile == [st |-> NX, v |-> 0, ok |-> FALSE]
NoZf == [in |-> FALSE, pending |-> NX, loaded |-> NX, armed |-> FALSE, delay |-> 0]
NoLoad == [f |-> NoZone, z |-> NoZone]

\* The quiescence delays: 0 in the initial scan, 5 s at runtime and on a
\* re-arm.
InitialQuiesce == 0
RuntimeQuiesce == 5

(***************************************************************************)
(* process_zonefile(): a file on disk without an entry gets a zeroed one; *)
(* an entry whose stamp differs from "pending" records the new stamp and  *)
(* (re)starts its timer, whether or not one was running.                   *)
(***************************************************************************)
\* Mutant of ProcessZf: a change seen while the timer runs only restarts
\* the timer.
ProcessZfKeepPending(z, st, quiesce) ==
    LET z1 == IF st # NX /\ ~z.in THEN [NoZf EXCEPT !.in = TRUE] ELSE z
    IN IF z1.in /\ st # z1.pending
       THEN IF z1.armed THEN [z1 EXCEPT !.delay = quiesce]
            ELSE [z1 EXCEPT !.pending = st, !.armed = TRUE, !.delay = quiesce]
       ELSE z1

ProcessZf(z, st, quiesce) ==
    LET z1 == IF st # NX /\ ~z.in THEN [NoZf EXCEPT !.in = TRUE] ELSE z
    IN IF z1.in /\ st # z1.pending
       THEN [z1 EXCEPT !.pending = st, !.armed = TRUE, !.delay = quiesce]
       ELSE z1

\* periodic_scan(): scan_dir() over the files present, then check_missing()
\* over the entries the scan did not see, each with its current stamp.
PeriodicScan ==
    /\ phase = "run"
    /\ inload = NoLoad
    /\ zf' = [n \in Files |-> ProcessZf(zf[n], disk[n].st, RuntimeQuiesce)]
    /\ UNCHANGED <<disk, pub, inload, phase, nwrites>>

(***************************************************************************)
(* quiesce_check(), for an entry whose timer expired.  The stamp equal to *)
(* "pending": a missing file's zone is withdrawn and the entry deleted, a *)
(* present file is parsed (zone_from_zf).  A different stamp re-arms the  *)
(* timer for 5 s and leaves "pending" as it was.                           *)
(***************************************************************************)
TimerDue(n) == inload = NoLoad /\ zf[n].in /\ zf[n].armed

\* Mutant of QuiesceDelete: the entry leaves the table but keeps its
\* fields and its timer.
QuiesceDeleteKeepEntry(n) ==
    /\ pub' = [pub EXCEPT ![n] = NoZone]
    /\ zf' = [zf EXCEPT ![n].in = FALSE]
    /\ UNCHANGED <<disk, inload, phase, nwrites>>

QuiesceDelete(n) ==
    /\ pub' = [pub EXCEPT ![n] = NoZone]
    /\ zf' = [zf EXCEPT ![n] = NoZf]
    /\ UNCHANGED <<disk, inload, phase, nwrites>>

QuiesceLoad(n) ==
    /\ inload' = [f |-> n, z |-> IF disk[n].ok THEN disk[n].v ELSE NoZone]
    /\ UNCHANGED <<disk, zf, pub, phase, nwrites>>

QuiesceRearm(n) ==
    /\ zf' = [zf EXCEPT ![n].delay = RuntimeQuiesce]
    /\ UNCHANGED <<disk, pub, inload, phase, nwrites>>

\* Mutant of QuiesceCheck: an entry pending deletion is deleted without the
\* stamp being read again.
QuiesceCheckNoRecheck(n) ==
    /\ TimerDue(n)
    /\ IF zf[n].pending = NX THEN QuiesceDelete(n)
       ELSE IF disk[n].st = zf[n].pending THEN QuiesceLoad(n)
       ELSE QuiesceRearm(n)

QuiesceCheck(n) ==
    /\ TimerDue(n)
    /\ IF disk[n].st = zf[n].pending
       THEN IF disk[n].st = NX THEN QuiesceDelete(n) ELSE QuiesceLoad(n)
       ELSE QuiesceRearm(n)

(***************************************************************************)
(* The end of quiesce_check()'s load: post_check re-reads the stamp.  A   *)
(* change during the parse discards the new zone and re-arms the timer;   *)
(* otherwise a zone that parsed replaces the published one and "loaded"   *)
(* takes the stamp, and the entry's timer is freed either way.            *)
(***************************************************************************)
LoadDiscard(n) ==
    /\ zf' = [zf EXCEPT ![n].delay = RuntimeQuiesce]
    /\ UNCHANGED pub

\* "loaded" is set to the stamp st when the zone parsed.
LoadCommit(n, st) ==
    /\ zf' = [zf EXCEPT ![n].armed = FALSE,
                         ![n].loaded = IF inload.z # NoZone THEN st ELSE @]
    /\ pub' = IF inload.z # NoZone THEN [pub EXCEPT ![n] = inload.z] ELSE pub

\* Mutant of LoadFinish: no post_check, and "loaded" is the stamp read
\* after the parse.
LoadFinishStatAfter ==
    /\ inload # NoLoad
    /\ LoadCommit(inload.f, disk[inload.f].st)
    /\ inload' = NoLoad
    /\ UNCHANGED <<disk, phase, nwrites>>

LoadFinish ==
    /\ inload # NoLoad
    /\ LET n == inload.f
       IN IF disk[n].st # zf[n].pending THEN LoadDiscard(n)
          ELSE LoadCommit(n, zf[n].pending)
    /\ inload' = NoLoad
    /\ UNCHANGED <<disk, phase, nwrites>>

\* ev_run() of the temporary loop returns once no timer is active; then
\* zsrc_rfc1035_runtime_init() starts the periodic scan.
StartRuntime ==
    /\ phase = "load"
    /\ inload = NoLoad
    /\ \A n \in Files : ~zf[n].armed
    /\ phase' = "run"
    /\ UNCHANGED <<disk, zf, pub, inload, nwrites>>

(***************************************************************************)
(* The other process: create or rewrite a file (contents that parse or    *)
(* not), or remove it.                                                     *)
(***************************************************************************)
CanWrite == nwrites < MaxWrites /\ (WritesDuringLoad \/ phase = "run")

WriteFile(n) ==
    /\ CanWrite
    /\ \E ok \in BOOLEAN, same \in (IF SameSecondWrites /\ disk[n].st # NX
                                     THEN BOOLEAN ELSE {FALSE}) :
         disk' = [disk EXCEPT ![n] = [st |-> IF same THEN @.st ELSE nwrites + 2,
                                      v |-> nwrites + 2, ok |-> ok]]
    /\ nwrites' = nwrites + 1
    /\ UNCHANGED <<zf, pub, inload, phase>>

RemoveFile(n) ==
    /\ CanWrite
    /\ disk[n].st # NX
    /\ disk' = [disk EXCEPT ![n] = NoFile]
    /\ nwrites' = nwrites + 1
    /\ UNCHANGED <<zf, pub, inload, phase>>

ReloadStep ==
    \/ PeriodicScan \/ LoadFinish \/ StartRuntime
    \/ \E n \in Files : QuiesceCheck(n)

Next == ReloadStep \/ \E n \in Files : WriteFile(n) \/ RemoveFile(n)

\* The directory as it is at startup, and zsrc_rfc1035_load_zones()'s
\* scan_dir() with quiescence 0 over it.
Init ==
    /\ disk \in [Files -> {NoFile, [st |-> 1, v |-> 1, ok |-> TRUE],
                           [st |-> 1, v |-> 1, ok |-> FALSE]}]
    /\ zf = [n \in Files |-> ProcessZf(NoZf, disk[n].st, InitialQuiesce)]
    /\ pub = [n \in Files |-> NoZone]
    /\ inload = NoLoad
    /\ phase = "load"
    /\ nwrites = 0

\* libev fires every expired timer of the reload thread's loop and the
\* thread does nothing else, so each of its steps is weakly fair; the
\* writer owes nothing.
Fairness ==
    /\ WF_vars(PeriodicScan) /\ WF_vars(LoadFinish) /\ WF_vars(StartRuntime)
    /\ \A n \in Files : WF_vars(QuiesceCheck(n))

Spec == Init /\ [][Next]_vars /\ Fairness

-----------------------------------------------------------------------------
Stamps == 0..MaxWrites + 1
Zfile == [in : BOOLEAN, pending : Stamps, loaded : Stamps, armed : BOOLEAN,
          delay : {InitialQuiesce, RuntimeQuiesce}]

\* A zfile_t outside the table is the zeroed one, and only entries in the
\* table have a timer.
TypeOK ==
    /\ disk \in [Files -> [st : Stamps, v : Stamps, ok : BOOLEAN]]
    /\ zf \in [Files -> Zfile]
    /\ \A n \in Files : ~zf[n].in => zf[n] = NoZf
    /\ pub \in [Files -> Stamps \cup {NoZone}]
    /\ inload \in {NoLoad} \cup [f : Files, z : Stamps \cup {NoZone}]
    /\ phase \in {"load", "run"}
    /\ nwrites \in 0..MaxWrites

\* When a file's stamp is the one its zone was loaded from, the published
\* zone is that file's contents: quiesce_check()'s post_check keeps a
\* write made during the parse from being recorded as loaded.
StatMatchImpliesContent ==
    \A n \in Files :
        zf[n].in /\ pub[n] # NoZone /\ disk[n].st = zf[n].loaded
            => pub[n] = disk[n].v

\* zlist_update() only ever publishes what the directory holds at that
\* moment: a zone parsed from the file's current contents, or no zone for
\* a file that is gone.  Both branches of quiesce_check() re-read the
\* stamp before they publish.
PublishesCurrent ==
    [][\A n \in Files :
         pub'[n] # pub[n] =>
            pub'[n] = IF disk[n].st = NX THEN NoZone ELSE disk[n].v]_vars

\* zsrc_rfc1035_load_zones() returns: ev_run() of the temporary loop ends
\* once every file's timer has fired for good.
InitialLoadCompletes == <>(phase = "run")

\* Once the directory stops changing, the published zones come to match it:
\* each present file's entry is quiet at its stamp with its contents
\* published if they parse, and each missing file has no zone or entry.
Converged ==
    /\ phase = "run"
    /\ inload = NoLoad
    /\ \A n \in Files :
        IF disk[n].st = NX THEN pub[n] = NoZone /\ ~zf[n].in
        ELSE /\ zf[n].in /\ ~zf[n].armed /\ zf[n].pending = disk[n].st
             /\ disk[n].ok => pub[n] = disk[n].v

EventuallyConverged == <>[]Converged

=============================================================================
