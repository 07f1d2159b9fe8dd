------------------------------ MODULE MCValidate ------------------------------
EXTENDS Validate

Scalar(v) == [q \in {<<>>} |-> v]
Obj(members) == [q \in {<<>>} \cup {<<k>> : k \in DOMAIN members} |-> IF q = <<>> THEN "obj" ELSE members[q[1]]]
ListOf(element) == [q \in {<<>>} \cup {<<"0">> \o r : r \in DOMAIN element} |-> IF q = <<>> THEN "arr" ELSE element[Tail(q)]]
None == Scalar("arr")
a == Obj([a |-> "x"])
ab == Obj([a |-> "y", b |-> "y"])
ar == Obj([a |-> "x", r |-> "x"])

\* The types: Widget has a struct m, a list l of the same struct and an immutable id.
Field(json, elem, omitempty) ==
  [kind |-> "field", braces |-> 0,
   info |-> [json |-> json, elem |-> elem, omitempty |-> omitempty, immutable |-> FALSE, refOf |-> "none"]]
Marker == [kind |-> "comment", braces |-> 0, marked |-> TRUE]
Blank == [kind |-> "other", braces |-> 0, marked |-> FALSE]
Close == [kind |-> "close", braces |-> 0 - 1]
Struct(name, marked, fields, declares) ==
  <<[kind |-> "struct", name |-> name, braces |-> 1, declares |-> declares]>> \o marked \o fields \o <<Close>>
Free(names) == {<<n, FALSE>> : n \in names}
Params == Struct(<<"Widget", "Parameters">>, <<Marker, Field("id", "none", FALSE)>>,
                 <<Field("m", "Cfg", TRUE), Field("l", "Cfg", TRUE), [Field("lRef", "none", TRUE) EXCEPT !.info.refOf = "l"]>>,
                 Free({"m", "l", "lRef"}) \cup {<<"id", TRUE>>})
Cfg == Struct(<<"Cfg", "">>, <<>>, <<Field("a", "none", TRUE), Field("b", "none", TRUE), Field("r", "none", TRUE)>>, Free({"a", "b", "r"}))
CfgObs == Struct(<<"Cfg", "Observation">>, <<>>, <<Field("a", "none", FALSE), Field("b", "none", TRUE)>>, Free({"a", "b"}))
WidgetObs == Struct(<<"Widget", "Observation">>, <<Marker, Blank>>, <<Field("m", "Seen", TRUE)>>, Free({"m"}))
Seen == Struct(<<"Seen", "">>, <<>>, <<Field("a", "none", TRUE), Field("b", "none", TRUE)>>, Free({"a", "b"}))
Empty1 == <<[kind |-> "struct", name |-> <<"Empty", "">>, braces |-> 0, declares |-> {}]>>
MCTypesDirs == {<<Cfg \o Params \o CfgObs>>, <<Seen \o WidgetObs, Params \o Cfg>>}
MCOneLine == {<<Cfg \o Params \o CfgObs>>, <<Empty1 \o Params \o Cfg>>}

SeenA == Struct(<<"Seen", "">>, <<>>, <<Field("a", "none", TRUE)>>, Free({"a"}))
MCNarrow == {<<SeenA \o WidgetObs, Params \o Cfg>>}

\* Registered: the function that clears b of a cfg, and one that clears a of an item.
MCControllers == {{},
  {[isGo |-> TRUE, transformers |-> {"normalize", "normalizeItem"},
    funcs |-> {[name |-> "normalize", param |-> "cfg", clears |-> {"b"}], [name |-> "other", param |-> "cfg", clears |-> {"a"}],
               [name |-> "normalizeItem", param |-> "item", clears |-> {"a"}]},
    structs |-> {[name |-> "cfg", names |-> {"a", "b"}], [name |-> "item", names |-> {"a", "z"}]}]}}
\* The backend gives m the value a when the manifest does not set it.
MCBackend == setAtPath(Empty, <<"m">>, a)

\* The CRD: lists l, g and o.l, maps t, q and the labels of a selector.
Node(type) == [type |-> type, open |-> FALSE, minItems |-> 0, marked |-> FALSE]
Open == [Node("object") EXCEPT !.open = TRUE]
MCNodes ==
  [q \in {<<>>, <<"m">>, <<"m", "a">>, <<"o">>, <<"o", "sel">>} |-> Node("object")] @@
  [q \in {<<"t">>, <<"q">>, <<"o", "t">>, <<"o", "sel", "matchLabels">>} |-> Open] @@
  [q \in {<<"l">>, <<"g">>} |-> Node("array")] @@
  [q \in {<<"o", "l">>} |-> [Node("array") EXCEPT !.minItems = 1]] @@
  [q \in {<<"id">>, <<"l", "items">>, <<"g", "items">>, <<"o", "l", "items">>} |-> Node("string")]
MCSchema ==
  [nodes |-> MCNodes, atProvider |-> {<<"l">>, <<"g">>, <<"t">>, <<"q">>, <<"o", "l">>, <<"o", "t">>}, policies |-> {"*"},
   required |-> {[leaf |-> <<"q">>, policies |-> {"*", "Create"}]},
   guards |-> <<[leaf |-> <<"g">>, disjuncts |-> <<[kind |-> "unset", path |-> <<"m", "r">>],
                                                  [kind |-> "differs", path |-> <<"m", "a">>, value |-> "x"]>>]>>]

E(field, value) == UpdateTest(field, value)
Skip(field, reason, names) ==
  [E(field, Nil) EXCEPT !.explicit = FALSE, !.skip = [NoSkip EXCEPT !.reason = reason, !.names = names]]
M == <<"m">>
L == <<"l">>
MCEntries ==
  {E(M, a), E(M, ab), [E(M, a) EXCEPT !.ignoreMap = {"b"}], E(M, ar),
   [E(M, a) EXCEPT !.expect = ab], [E(M, ab) EXCEPT !.clear = {L}], [E(M, ab) EXCEPT !.clear = {<<"q">>}],
   [E(M, ab) EXCEPT !.with = [s \in {<<"g">>} |-> None]], E(<<"m", "a">>, Scalar("z")),
   E(L, ListOf(a)), [E(L, ListOf(a)) EXCEPT !.ignoreList = {"b"}], E(L, None), E(L, Nil),
   [E(L, None) EXCEPT !.disp = "backend-discards"], [E(L, ListOf(ab)) EXCEPT !.clear = {<<"o">>, M}],
   Skip(L, "covered-elsewhere", <<"f", "l">>), Skip(L, "union-arm", <<"nobody">>),
   E(<<"t">>, Obj([k |-> "null"])), E(<<"o", "t">>, Obj([k |-> "null"])), E(<<"t">>, Empty), E(<<"o", "l">>, ListOf(Scalar("x"))), E(<<"o">>, Obj([z |-> "x"]))}
MCEdits ==
  {[path |-> M, value |-> v] : v \in {ab, ar}} \cup
  {[path |-> L, value |-> ListOf(a)], [path |-> <<"g">>, value |-> ListOf(Scalar("x"))]}
MCOther == [f \in {"f"} |-> <<Skip(L, "covered-elsewhere", <<"f", "m">>), E(M, a)>>]
MCUnchanged == {{<<"m", "r">>}}
=============================================================================
