---------------------------- MODULE ZoneFileSet ----------------------------
(***************************************************************************)
(* What the zone-file table of zsrc_rfc1035.c promises its user: a set of *)
(* zone-file names, to which process_zonefile() adds a name it has not    *)
(* seen and from which quiesce_check() removes a name whose file is gone. *)
(***************************************************************************)
CONSTANT Names

VARIABLE files

Init == files = {}

Insert(n) == n \notin files /\ files' = files \cup {n}

Remove(n) == n \in files /\ files' = files \ {n}

Next == \E n \in Names : Insert(n) \/ Remove(n)

Spec == Init /\ [][Next]_files

=============================================================================
