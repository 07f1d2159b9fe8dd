------------------------------- MODULE Manifest -------------------------------
(***************************************************************************)
(* Package manifest: the entries of the update-test annotation and the     *)
(* rules an annotation is refused by; with them the merge patch an entry   *)
(* becomes and the comparison its result is judged by, which the rules are *)
(* about.                                                                  *)
(*                                                                         *)
(* A JSON value is a tree: the function from its paths to "obj", "arr",    *)
(* "null" or a scalar, with <<>> for the value itself; a number is the     *)
(* scalar "number", true and false are "bool", any other is a string.  The *)
(* elements of a list hang under it like members.  The empty function is   *)
(* "no value".                                                             *)
(***************************************************************************)
EXTENDS Naturals, Sequences, FiniteSetsExt, SequencesExt

\* A value that is there is below objects and lists only.
IsTree(tree) ==
  /\ tree = [q \in DOMAIN tree |-> tree[q]] /\ DOMAIN tree \subseteq Seq(STRING)
  /\ \A q \in DOMAIN tree : \A n \in 0..(Len(q) - 1) : SubSeq(q, 1, n) \in DOMAIN tree /\ tree[SubSeq(q, 1, n)] \in {"obj", "arr"}

Missing == <<>>
Nil == [q \in {<<>>} |-> "null"]
Keys(tree, path) == {Last(q) : q \in {r \in DOMAIN tree : Len(r) = Len(path) + 1 /\ IsPrefix(path, r)}}

(* navigateForProvider, valueAtPath, navigateJSONPath: the value at a path. *)
ValueAt(tree, path) ==
  LET below == {q \in DOMAIN tree : IsPrefix(path, q)}
  IN [r \in {SubSeq(q, Len(path) + 1, Len(q)) : q \in below} |-> tree[path \o r]]
IsObject(tree) == tree # Missing /\ tree[<<>>] = "obj"
IsArray(tree) == tree # Missing /\ tree[<<>>] = "arr"
(* asObjects: the value, or the elements of the list, that are objects. *)
asObjects(tree) ==
  IF IsObject(tree) THEN {tree}
  ELSE IF ~IsArray(tree) THEN {}
  ELSE {o \in {ValueAt(tree, <<k>>) : k \in Keys(tree, <<>>)} : IsObject(o)}
-----------------------------------------------------------------------------
SkipReasons == {"union-arm", "covered-elsewhere", "vendor-defect", "fixture-missing", "write-only"}
Dispositions == {"statically-provable", "one-live-patch", "declared-exclusion", "defect", "backend-discards"}

(* SkipInfo: a mapping with a reason, or (legacy) free prose; names is what the     *)
(* companion key of its reason holds: the sibling, the file and field that by:      *)
(* names, or the evidence; declared says that declared-by: and reconfirm: are there. *)
NoSkip == [legacy |-> FALSE, reason |-> "none", names |-> <<>>, declared |-> FALSE, disp |-> "none"]
(* UpdateTest: an entry with value: and nothing else. *)
UpdateTest(field, value) ==
  [field |-> field, value |-> value, explicit |-> TRUE, expect |-> Nil, skip |-> NoSkip, clear |-> {}, with |-> Missing,
   ignoreMap |-> {}, ignoreList |-> {}, disp |-> "none"]
Present(skip) == skip.legacy \/ skip.reason # "none"
Skipped(t) == Present(t.skip)

validateDispositionValue(d, declared) ==
  d = "none" \/ (d \in Dispositions /\ (d = "declared-exclusion" => declared))
validateSkipInfo(s) ==
  /\ ~(s.legacy /\ s.reason # "none")
  /\ ~s.legacy => s.reason \in SkipReasons /\ (s.reason = "write-only" \/ s.names # <<>>)
  /\ ~s.legacy /\ s.reason = "covered-elsewhere" => Len(s.names) = 2
  /\ validateDispositionValue(s.disp, s.declared)

(* EffectiveDisposition: the entry's own, or that of its skip: block. *)
EffectiveDisposition(t) == IF t.disp # "none" THEN t.disp ELSE t.skip.disp
validateEntryDisposition(t) ==
  t.disp = "none" \/ (~Skipped(t) /\ t.disp = "backend-discards")

entryCarriesTestedContent(t) ==
  t.value # Nil \/ t.explicit \/ t.expect # Nil \/ t.clear # {} \/ t.with # Missing

ValidateClear(t) == t.clear = {} \/ (Len(t.field) = 1 /\ \A c \in t.clear : Len(c) = 1 /\ c # t.field)
ValidateWithValues(t) ==
  DOMAIN t.with = {} \/ (Len(t.field) = 1 /\ \A s \in DOMAIN t.with : Len(s) = 1 /\ s # t.field /\ s \notin t.clear)

(* effectiveExpectation: expect: when there is one, else value:. *)
effectiveExpectation(t) == IF t.expect # Nil THEN t.expect ELSE t.value
ValidateIgnoreMapKeys(t) ==
  t.ignoreMap # {} => ~Skipped(t)
    /\ (IsObject(effectiveExpectation(t)) => t.ignoreMap \cap Keys(effectiveExpectation(t), <<>>) = {})
ValidateIgnoreListElementKeys(t) ==
  t.ignoreList # {} => ~Skipped(t)
    /\ (IsArray(effectiveExpectation(t)) =>
          \A o \in asObjects(effectiveExpectation(t)) : t.ignoreList \cap Keys(o, <<>>) = {})

(* ValidateFieldEntryMix: no entry and no field is both skipped and tested. *)
ValidateFieldEntryMix(tests) ==
  /\ \A i \in DOMAIN tests : ~(Skipped(tests[i]) /\ entryCarriesTestedContent(tests[i]))
  /\ \A i, j \in DOMAIN tests : tests[i].field = tests[j].field => Skipped(tests[i]) = Skipped(tests[j])

(* ParseAnnotation: is the annotation accepted? *)
ParseAnnotation(tests, assertUnchanged) ==
  /\ \A i \in DOMAIN tests :
       LET t == tests[i]
       IN /\ t.skip # NoSkip => validateSkipInfo(t.skip)
          /\ t.value # Nil \/ t.explicit \/ Skipped(t)
          /\ ValidateClear(t) /\ ValidateWithValues(t)
          /\ ValidateIgnoreMapKeys(t) /\ ValidateIgnoreListElementKeys(t)
          /\ validateEntryDisposition(t)
          /\ t.field \notin assertUnchanged
  /\ ValidateFieldEntryMix(tests)
-----------------------------------------------------------------------------
(* Prefixes that a value put at path needs to be objects. *)
Above(path) == {SubSeq(path, 1, n) : n \in 0..(Len(path) - 1)}
(* setAtPath: an ancestor that is no object becomes one. *)
setAtPath(tree, path, v) ==
  LET new == {path \o r : r \in DOMAIN v}
      kept == {q \in DOMAIN tree : ~IsPrefix(path, q) /\ ~\E a \in Above(path) : IsStrictPrefix(a, q) /\ tree[a] # "obj"}
  IN [q \in kept \cup new \cup Above(path) |->
       IF q \in new THEN v[SubSeq(q, Len(path) + 1, Len(q))] ELSE IF q \in Above(path) THEN "obj" ELSE tree[q]]

Empty == [q \in {<<>>} |-> "obj"]
(* buildMergePatch: the patch of spec.forProvider for one entry. *)
buildMergePatch(t) ==
  LET body == setAtPath(Empty, t.field, t.value)
      siblings == UNION {{s \o r : r \in DOMAIN t.with[s]} : s \in DOMAIN t.with}
  IN [q \in DOMAIN body \cup t.clear \cup siblings |->
       IF q \in siblings THEN t.with[<<q[1]>>][Tail(q)] ELSE IF q \in t.clear THEN "null" ELSE body[q]]

(* RFC 7386, as the API server applies it: null removes a member, an object is     *)
(* merged member by member, anything else replaces what was there.                 *)
MergePatch(tree, patch) ==
  LET replaces(r) == r # <<>> /\ ~(patch[r] = "obj" /\ r \in DOMAIN tree /\ tree[r] = "obj")
      kept == {q \in DOMAIN tree : ~\E r \in DOMAIN patch : replaces(r) /\ IsPrefix(r, q)}
      new == {r \in DOMAIN patch : r # <<>> /\ patch[r] # "null"}
  IN [q \in kept \cup new |-> IF q \in new THEN patch[q] ELSE tree[q]]

(* jsonEqual: a null expectation matches a value that is not there. *)
jsonEqual(expected, actual) == IF expected = Nil THEN actual \in {Missing, Nil} ELSE expected = actual
(* stripKeys, stripListElementKeys: only an object, only a list's elements, lose keys. *)
stripKeys(tree, keys) ==
  IF IsObject(tree) THEN [q \in {r \in DOMAIN tree : r = <<>> \/ r[1] \notin keys} |-> tree[q]] ELSE tree
stripListElementKeys(tree, keys) ==
  IF IsArray(tree) THEN [q \in {r \in DOMAIN tree : Len(r) < 2 \/ tree[<<r[1]>>] # "obj" \/ r[2] \notin keys} |-> tree[q]]
  ELSE tree
(* compareFieldValue: with keys to ignore both sides must decode, which a bare string *)
(* and the "" of a value that is not there do not.                                    *)
Literals == {"number", "bool"}
Decodes(tree) == tree # Missing /\ tree[<<>>] \in {"obj", "arr"} \cup Literals
compareFieldValue(t, actual) ==
  LET strip(tree) == stripListElementKeys(stripKeys(tree, t.ignoreMap), t.ignoreList)
  IN IF t.ignoreMap = {} /\ t.ignoreList = {} THEN jsonEqual(effectiveExpectation(t), actual)
     ELSE Decodes(actual) /\ strip(effectiveExpectation(t)) = strip(actual)
=============================================================================
