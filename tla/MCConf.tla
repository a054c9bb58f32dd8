------------------------------- MODULE MCConf -------------------------------
(***************************************************************************)
(* A configuration space for Conf: interface lists with an any-address,   *)
(* an unknown family and a repeated address; listen arrays and hashes     *)
(* that name one address twice, disable TCP and set late_bind_secs; zone  *)
(* keys that nest, repeat a name with and without the trailing dot, or    *)
(* are empty, wildcard or over-long.                                       *)
(***************************************************************************)
EXTENDS Conf

A4 == [fam |-> 4, ip |-> "A"]
MCIfaces == {
    << [fam |-> 4, ip |-> "A"], [fam |-> 0, ip |-> "L"], [fam |-> 4, ip |-> "any"],
       [fam |-> 4, ip |-> "A"], [fam |-> 6, ip |-> "B"] >>,
    << [fam |-> 6, ip |-> "any"] >> }

MCSpecAddr == [s \in {"A", "A:53", "B", "bad"} |->
                 CASE s \in {"A", "A:53"} -> A4
                   [] s = "B" -> [fam |-> 6, ip |-> "B"]
                   [] OTHER -> NoAddr]
MCListenArrays == { <<"A", "B">>, <<"A", "bad">> }
MCListenHashes == {
    << [spec |-> "A", disable_tcp |-> TRUE, late_bind |-> Absent],
       [spec |-> "B", disable_tcp |-> Absent, late_bind |-> 30] >>,
    << [spec |-> "A", disable_tcp |-> Absent, late_bind |-> 301] >> }
MCLateBindOpts == {Absent, 60, 301}

MCZoneKeys == {
    [labels |-> << >>, dot |-> TRUE],          \* "."
    [labels |-> << >>, dot |-> FALSE],         \* ""
    [labels |-> <<"a">>, dot |-> FALSE],       \* "a"
    [labels |-> <<"a">>, dot |-> TRUE],        \* "a."
    [labels |-> <<"b", "a">>, dot |-> TRUE],   \* "b.a."
    [labels |-> <<"*", "a">>, dot |-> TRUE],   \* "*.a."
    [labels |-> <<"big">>, dot |-> TRUE] }     \* a 64-byte label
MCLabelBytes == [l \in {"a", "b", "*", "big"} |->
                   CASE l = "a" -> <<97>> [] l = "b" -> <<98>> [] l = "*" -> <<42>>
                     [] OTHER -> [i \in 1..64 |-> 120]]
MCZoneTtls == {Absent, Over31}

====
