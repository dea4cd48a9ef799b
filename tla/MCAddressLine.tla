----------------------------- MODULE MCAddressLine -----------------------------
(***************************************************************************)
(* Binary strings: pages of two bytes on both sides of the lengths at      *)
(* which bn_add and bn_cmp cut a string.                                   *)
(***************************************************************************)
EXTENDS AddressLine

SmallPages == {Hex(n) : n \in {0, 4, 6, 8, 14, 16, 20}}

FewPages == {Hex(n) : n \in {6, 8, 16}}
FewAddresses == {Hex(n) : n \in {7, 11, 16}}

\* Addresses are selected on few pages only, the line is drawn for all.
MCNext ==
  /\ Next
  /\ DOMAIN pmaps' \subseteq FewPages \/ \A k \in {"iaddr", "daddr"} : page'.s[k] = None

MCSpec == Init /\ [][MCNext]_vars
================================================================================
