--------------------------- MODULE MCNameCompress ---------------------------
(***************************************************************************)
(* Labels with their text lengths ("z" stands for a 7-byte label such as  *)
(* "example"), one zone, a query name in it, and rdata names that share   *)
(* suffixes with it and with each other, an out-of-zone one and the root. *)
(***************************************************************************)
EXTENDS NameCompress

MCLabelLen == ("www" :> 3) @@ ("z" :> 7) @@ ("mx" :> 2) @@ ("a" :> 1)
              @@ ("b" :> 1) @@ ("ns" :> 2) @@ ("o" :> 3)
MCZone == <<"z">>
MCQNames == {<<"www", "z">>, <<"z">>}
MCRNames == {<<"a", "mx", "z">>, <<"b", "mx", "z">>, <<"ns", "z">>, <<"a", "o">>, << >>}
MCSoaNames == {<<<<"ns", "z">>, <<"b", "mx", "z">>>>}
=============================================================================
