----------------------------- MODULE MCRoundTrip -----------------------------
EXTENDS RoundTrip

Leaf == <<"a">>
Parent == <<"o">>
Nested == <<"o", "b">>
MirrorOnly == <<"m">>

MCForms(p) ==
  CASE p = Parent -> {[q \in {<<>>} |-> "null"]}
    [] p = Nested -> {[q \in {<<>>} |-> "{}"], [q \in {<<"k">>} |-> "x"]}
    [] p = MirrorOnly -> {[q \in {<<>>} |-> "x"]}
    [] OTHER -> {[q \in {<<>>} |-> "x"], [q \in {<<>>} |-> "list"]}

Version(served, marked) ==
  [served |-> served,
   schema |-> [fp |-> {Leaf, Parent, Nested}, ap |-> {Leaf, Parent, Nested, MirrorOnly}, marked |-> marked]]
File(kind, versions) == [parses |-> TRUE, isCRD |-> TRUE, group |-> "g", kind |-> kind, versions |-> versions]
MCCrdFiles == {<<File("Other", <<>>), File("Kind", <<Version(FALSE, {}), Version(TRUE, {Parent})>>)>>,
               <<File("Kind", <<Version(TRUE, {Leaf})>>)>>, <<>>}
MCTestFields == {Leaf, Nested}
==============================================================================
