------------------------------ MODULE MCZFHash ------------------------------
(***************************************************************************)
(* Hash values for TLC.  Collisions: five names whose hashes agree in the *)
(* low 4 bits in pairs, and two of them also in the low 5 bits, so that   *)
(* probes pass occupied slots and tombstones before and after growth.     *)
(* Spread: one name per slot of the first 16-slot table.                  *)
(***************************************************************************)
EXTENDS ZFHash

MCHashCollide == [n \in Names |->
                    CASE n = "a" -> 0 [] n = "b" -> 16 [] n = "c" -> 1
                      [] n = "d" -> 32 [] n = "e" -> 17]

\* Names numbered by the slot they hash to.
MCSpreadNames == 0..15
MCHashSpread == [n \in Names |-> n]

\* Zone files replaced by new names one after another (a file per day,
\* say), in the order of their slots: at most one file exists at a time and
\* the slots ever used are the first ones.  Every behaviour this keeps is
\* one of the specification's.
RotatingFiles ==
    /\ zfhash_count <= 1
    /\ \A i \in DOMAIN zfhash :
         zfhash[i] # NULL => \A j \in 0..i : zfhash[j] # NULL

=============================================================================
