------------------------------- MODULE Validate -------------------------------
(***************************************************************************)
(* The validate command: what it concludes from the manifest, the Go types *)
(* of the provider, its controller's normalizers and the CRD, before any   *)
(* cluster is there; and, to judge it by, what the run command does with   *)
(* the same entries on a provider that is right.                           *)
(*                                                                         *)
(* The state is the manifest; each step is an edit of it.  A types file is *)
(* the sequence of its lines: a line opens a struct, holds a field, a      *)
(* comment, a closing brace or something else.  A struct is named by its   *)
(* stem and suffix, <<"Widget", "Parameters">>.                            *)
(***************************************************************************)
EXTENDS ClearCells

CONSTANTS
  Kind, TypesDirs,        \* stem of the kind; the contents apis/<scope> may have
  TypesFile,              \* the file of them that --types-file names, or 0
  Controllers,            \* the controller directories --controller-dir may name
  Backend,                \* what atProvider shows of the fields nobody sets
  OtherManifests,         \* file name -> entries, for covered-elsewhere
  Entries, Edits,         \* the entries and the [path, value] the author may write
  Unchanged, MaxEntries   \* the assert-unchanged lists he may give

\* What the author writes are JSON values, at paths of names.
ASSUME ValidateAssumption ==
  /\ TypesFile \in Nat /\ IsTree(Backend)
  /\ DOMAIN Nodes \subseteq Seq(STRING)
  /\ \A t \in Entries :
       /\ t.field \in Seq(STRING) \ {<<>>} /\ t.clear \subseteq Seq(STRING) /\ DOMAIN t.with \subseteq Seq(STRING)
       /\ \A v \in {t.value, t.expect} \cup {t.with[s] : s \in DOMAIN t.with} :
            IsTree(v) /\ v # Missing
  /\ \A e \in Edits : e.path \in Seq(STRING) \ {<<>>} /\ IsTree(e.value) /\ e.value # Missing

VARIABLES dir, controller, tests, forProvider, assertUnchanged
vars == <<dir, controller, tests, forProvider, assertUnchanged>>
-----------------------------------------------------------------------------
(* goTypesParser: in which struct, how deep, and is a marker waiting for its field? *)
goTypesParser == [in |-> "none", depth |-> 0, found |-> FALSE, done |-> FALSE, marked |-> FALSE, fields |-> <<>>]
\* Seeded fault: the markers above a field stay for the next one.
MarkersStay(p, line) == [p EXCEPT !.fields = Append(@, [line.info EXCEPT !.immutable = @ \/ p.marked])]
addField(p, line) == [p EXCEPT !.fields = Append(@, [line.info EXCEPT !.immutable = @ \/ p.marked]), !.marked = FALSE]
parseFieldLine(p, line) ==
  IF line.kind = "field" THEN addField(p, line)
  ELSE [p EXCEPT !.marked = line.kind = "comment" /\ (@ \/ line.marked)]
tryEnterStruct(p, line, name) ==
  IF line.kind # "struct" THEN p
  ELSE IF line.name = name THEN [p EXCEPT !.in = "target", !.found = TRUE, !.depth = 1, !.marked = FALSE]
  ELSE [p EXCEPT !.in = "other", !.depth = 1]
handleLine(p, line, name) ==
  IF p.done THEN p ELSE IF p.in = "none" THEN tryEnterStruct(p, line, name)
  ELSE LET depth == p.depth + line.braces
       IN IF depth <= 0 THEN [p EXCEPT !.depth = depth, !.done = p.in = "target", !.in = "none"]
          ELSE IF p.in = "other" THEN [p EXCEPT !.depth = depth]
          ELSE parseFieldLine([p EXCEPT !.depth = depth], line)
(* ParseStructFields: found, and the fields. *)
ParseStructFields(file, name) ==
  FoldLeft(LAMBDA p, line : handleLine(p, line, name), goTypesParser, file)

fileDeclaresStruct(file, name) == \E i \in DOMAIN file : file[i].kind = "struct" /\ file[i].name = name
(* FindTypesFile: the one file that declares the kind's Parameters; 0 is an error. *)
findStructDeclarations(name) == {i \in DOMAIN dir : fileDeclaresStruct(dir[i], name)}
FindTypesFile ==
  LET declaring == findStructDeclarations(<<Kind, "Parameters">>)
  IN IF Cardinality(declaring) = 1 THEN CHOOSE i \in declaring : TRUE ELSE 0
typesFile == IF TypesFile # 0 THEN TypesFile ELSE FindTypesFile
(* resolveInSiblingTypesFiles: the types file, then its siblings; {} and none are told apart. *)
NotFound == [found |-> FALSE, fields |-> {}]
FirstFound(a, b) == IF a.found THEN a ELSE b
FirstParsed(parsed) ==
  LET hit == SelectInSeq(parsed, LAMBDA p : p.found)
  IN IF hit = 0 THEN NotFound ELSE [found |-> TRUE, fields |-> ToSet(parsed[hit].fields)]
OthersAfter(first) == <<first>> \o SelectSeq([i \in 1..Len(dir) |-> i], LAMBDA i : i # first)
ParseAll(order, name) == [n \in DOMAIN order |-> ParseStructFields(dir[order[n]], name)]
StructOf(name) == FirstParsed(ParseAll(OthersAfter(typesFile), name))
Fields == ToSet(ParseStructFields(dir[typesFile], <<Kind, "Parameters">>).fields)
FieldSet == {f.json : f \in Fields}
-----------------------------------------------------------------------------
(* ValidateManifest: the status of every field; names nobody declares are not good. *)
top(field) == field[1]
isReferencePlumbingField(f) == f.refOf # "none" /\ f.refOf \in FieldSet
Tested == {t \in EntriesOf(tests) : ~Skipped(t)}
(* What a field is credited with; its own undotted entry, the last of them, comes first. *)
credit(json) ==
  LET own == selfByField(tests, <<json>>)
  IN IF own # {} THEN LET t == CHOOSE e \in own : TRUE
                      IN IF t.skip.legacy THEN "skipped-unstructured" ELSE IF Skipped(t) THEN "skipped" ELSE "tested"
     ELSE IF \E t \in EntriesOf(tests) : top(t.field) = json THEN "covered-nested"
     ELSE IF \E a \in assertUnchanged : top(a) = json THEN "guarded-assert-unchanged"
     ELSE IF \E t \in Tested : <<json>> \in t.clear THEN "tested-via-switch" ELSE "MISSING"
Status(f) ==
  IF f.immutable THEN "immutable"
  ELSE IF isReferencePlumbingField(f) THEN "reference-plumbing" ELSE credit(f.json)
TargetsKnown == \A t \in Tested : \A c \in t.clear \cup DOMAIN t.with : top(c) \in FieldSet
AllGood ==
  /\ \A t \in EntriesOf(tests) : top(t.field) \in FieldSet
  /\ TargetsKnown
  /\ \A f \in Fields : Status(f) # "MISSING"

(* resolveObservationFieldsForKindField: the companion of the field's type, or the *)
(* type that the kind's Observation gives a field of this name.                    *)
resolveObservationFields(elem) == StructOf(<<elem, "Observation">>)
resolveKindObservationFields == resolveObservationFields(Kind).fields
resolveKindObservationFieldType(json) ==
  {f.elem : f \in {g \in resolveKindObservationFields : g.json = json /\ g.elem # "none"}}
resolveObservationFieldsForKindField(f) ==
  FirstFound(resolveObservationFields(f.elem),
             LET declared == resolveKindObservationFieldType(f.json)
             IN IF declared = {} THEN NotFound ELSE StructOf(<<CHOOSE e \in declared : TRUE, "">>))
(* The fields whose shape the offline checks know: their own struct, by an undotted entry. *)
Shaped(t) == {f \in Fields : t.field = <<f.json>> /\ f.elem # "none"}
Observed(t) == UNION {resolveObservationFieldsForKindField(f).fields : f \in Shaped(t)}
Resolved(t) == \E f \in Shaped(t) : resolveObservationFieldsForKindField(f).found

(* CheckObservability: members that the Observation cannot hold. *)
unobservableKeys(t) ==
  IF ~Resolved(t) THEN {}
  ELSE (UNION {Keys(o, <<>>) : o \in asObjects(effectiveExpectation(t))}) \ {f.json : f \in Observed(t)}

(* CheckMergePatchSiblings: members of the object at create time that the patch does *)
(* not address and the expectation does not name.                                    *)
\* Seeded fault: a member that the Observation declares may survive.
DeclaredIsFine(t) ==
  LET created == ValueAt(forProvider, t.field)
  IN IF ~IsObject(t.value) \/ ~IsObject(created) THEN {}
     ELSE Keys(created, <<>>) \ (t.ignoreMap \cup Keys(t.value, <<>>) \cup {f.json : f \in Observed(t)})
survivingSiblingKeys(t) ==
  LET created == ValueAt(forProvider, t.field)
      expected == IF IsObject(effectiveExpectation(t)) THEN Keys(effectiveExpectation(t), <<>>) ELSE {}
  IN IF ~IsObject(t.value) \/ ~IsObject(created) THEN {}
     ELSE Keys(created, <<>>) \ (t.ignoreMap \cup Keys(t.value, <<>>) \cup expected)

(* CheckIncompleteExpectations: members always marshalled that the expectation omits, *)
(* but for those already reported as surviving.                                       *)
mergePatchSiblingKeySet(t) == survivingSiblingKeys(t)
incompleteExpectationKeys(t) ==
  {f.json : f \in {g \in Observed(t) : ~g.omitempty /\ \E o \in asObjects(effectiveExpectation(t)) : g.json \notin Keys(o, <<>>)}}
    \ (mergePatchSiblingKeySet(t) \cup t.ignoreMap \cup t.ignoreList)

(* discoverServerEchoedMembers: the fields that the functions registered as go-cmp *)
(* transformers clear in their parameter, with the fields its struct declares.     *)
clearedFields(param) ==
  LET registered == UNION {file.transformers : file \in controller}
      funcs == UNION {file.funcs : file \in controller}
  IN UNION {fn.clears : fn \in {g \in funcs : g.name \in registered /\ g.param = param}}
discoverServerEchoedMembers ==
  UNION {{[names |-> s.names, echoed |-> k] : k \in clearedFields(s.name)} :
           s \in UNION {file.structs : file \in controller}}
matchServerEchoedMembers(fields) ==
  LET names == {f.json : f \in fields}
  IN {m.echoed : m \in {x \in discoverServerEchoedMembers : x.names \subseteq names}}
resolveTypeFieldsForWalk(elem) == FirstFound(resolveObservationFields(elem), StructOf(<<elem, "">>)).fields
(* The type of the member at a path below a value of type elem; a list in a list has none. *)
TypeAt(elem, tree, path) ==
  LET type[n \in 0..Len(path)] ==
        IF n = 0 THEN elem
        ELSE LET e == type[n - 1]
                 f == {g \in resolveTypeFieldsForWalk(e) : g.json = path[n]}
                 isList(k) == tree[SubSeq(path, 1, k)] = "arr"
             IN IF e = "none" \/ isList(n - 1) THEN IF n > 1 /\ isList(n - 1) /\ isList(n - 2) THEN "none" ELSE e
                ELSE IF f = {} THEN "none" ELSE (CHOOSE g \in f : TRUE).elem
  IN type[Len(path)]
EchoedAmong(fields) == {k \in matchServerEchoedMembers(fields) : \E f \in fields : f.json = k}
EchoedIn(type) == IF type = "none" THEN {} ELSE EchoedAmong(resolveTypeFieldsForWalk(type))
EchoedAt(elem, tree, q) == IF tree[q] # "obj" THEN {} ELSE EchoedIn(TypeAt(elem, tree, q)) \ Keys(tree, q)
(* CheckServerEchoedExpectations: anywhere in the expectation, a member left out that *)
(* the backend fills in.                                                              *)
walkServerEchoedMembers(t) ==
  LET e == effectiveExpectation(t)
  IN UNION {UNION {EchoedAt(f.elem, e, q) : q \in DOMAIN e} : f \in Shaped(t)}
ControllerUnreadable == controller # {} /\ \A file \in controller : ~file.isGo

(* CheckGuaranteedNoOp: an entry repeats the value of the create, and no earlier *)
(* entry has touched its top-level field.                                        *)
Touches(t) == {top(t.field)} \cup {top(c) : c \in t.clear \cup DOMAIN t.with}
FirstTouch(i) == \A j \in 1..(i - 1) : ~Skipped(tests[j]) => top(tests[i].field) \notin Touches(tests[j])
\* Seeded fault: what the earlier entries have touched is not looked at.
AnyTouch(i) == ~Skipped(tests[i]) /\ ValueAt(forProvider, tests[i].field) = tests[i].value
guaranteedNoOpEqual(value, created) == created = value
CheckGuaranteedNoOp(i) ==
  ~Skipped(tests[i]) /\ FirstTouch(i) /\ guaranteedNoOpEqual(tests[i].value, ValueAt(forProvider, tests[i].field))

(* resolveCoveredElsewhere, CheckSkipReasons: the sibling is declared, the chain of references ends in a test. *)
References == {t.skip.names : t \in Entries \cup UNION {ToSet(OtherManifests[f]) : f \in DOMAIN OtherManifests}}
resolveCoveredElsewhere[by \in References, seen \in SUBSET References] ==
  /\ by \notin seen /\ by[1] \in DOMAIN OtherManifests
  /\ LET entries == OtherManifests[by[1]]
         i == SelectInSeq(entries, LAMBDA t : t.field = <<by[2]>>)
     IN /\ ParseAnnotation(entries, {}) /\ i # 0
        /\ Skipped(entries[i]) => /\ ~entries[i].skip.legacy /\ entries[i].skip.reason = "covered-elsewhere"
                                  /\ resolveCoveredElsewhere[entries[i].skip.names, seen \cup {by}]
CheckSkipReasons(t) ==
  /\ ~t.skip.legacy /\ t.skip.reason = "union-arm" => t.skip.names[1] \in FieldSet
  /\ ~t.skip.legacy /\ t.skip.reason = "covered-elsewhere" => resolveCoveredElsewhere[t.skip.names, {}]

(* cmdValidate: the exit code. *)
Accepted == ParseAnnotation(tests, assertUnchanged)
Readable == Accepted /\ typesFile \in DOMAIN dir /\ ParseStructFields(dir[typesFile], <<Kind, "Parameters">>).found
printContainerClearCells ==
  IF CoverageFails(tests, forProvider) THEN {} ELSE PrintClearCellReport(ContainerClearCoverage(tests, forProvider))
CheckObservability(t) == IF Skipped(t) THEN {} ELSE unobservableKeys(t)
CheckMergePatchSiblings(t) == IF Skipped(t) THEN {} ELSE survivingSiblingKeys(t)
CheckIncompleteExpectations(t) == IF Skipped(t) THEN {} ELSE incompleteExpectationKeys(t)
CheckServerEchoedExpectations(t) == IF Skipped(t) THEN {} ELSE walkServerEchoedMembers(t)
NoFindings(t) ==
  CheckObservability(t) \cup CheckMergePatchSiblings(t) \cup CheckIncompleteExpectations(t) \cup CheckServerEchoedExpectations(t) = {}
cmdValidate ==
  /\ Readable /\ AllGood /\ ~ControllerUnreadable
  /\ \A i \in DOMAIN tests : NoFindings(tests[i]) /\ ~CheckGuaranteedNoOp(i) /\ CheckSkipReasons(tests[i])
  /\ printContainerClearCells = {}
-----------------------------------------------------------------------------
(* The edits. *)
Init == /\ dir \in TypesDirs /\ controller \in Controllers /\ assertUnchanged \in Unchanged
        /\ tests = <<>> /\ forProvider = Empty
Declare == \E t \in Entries : Len(tests) < MaxEntries /\ tests' = Append(tests, t) /\ UNCHANGED <<dir, controller, forProvider, assertUnchanged>>
Withdraw == tests # <<>> /\ tests' = Front(tests) /\ UNCHANGED <<dir, controller, forProvider, assertUnchanged>>
SetField == \E e \in Edits : forProvider' = setAtPath(forProvider, e.path, e.value) /\ UNCHANGED <<dir, controller, tests, assertUnchanged>>
Next == Declare \/ Withdraw \/ SetField
Spec == Init /\ [][Next]_vars
-----------------------------------------------------------------------------
(* What the run command does with the entries: the no-op guard of runFieldTest, then *)
(* the patch.  readCurrentValue: what spec does not hold is read from the status.    *)
HeldIn(spec, field) == ValueAt(spec, field) \notin {Missing, Nil}
readCurrentValue(spec, field) == ValueAt(IF HeldIn(spec, field) THEN spec ELSE Backend, field)
NoOp(t, spec) == jsonEqual(t.value, readCurrentValue(spec, t.field))
Apply(spec, t) == IF Skipped(t) \/ NoOp(t, spec) THEN spec ELSE MergePatch(spec, buildMergePatch(t))
Before[i \in 1..(Len(tests) + 1)] == IF i = 1 THEN forProvider ELSE Apply(Before[i - 1], tests[i - 1])
(* A right provider mirrors the value in the struct it generates: the members that   *)
(* the Observation declares, null for those always marshalled, the backend's own for *)
(* those it fills in.                                                                *)
Shown(t, v) ==
  IF ~Resolved(t) THEN {} ELSE {q \in DOMAIN v : v[q] = "obj" /\ (q = <<>> \/ (v[<<>>] = "arr" /\ Len(q) = 1))}
Mirror(t, v) ==
  LET objects == Shown(t, v)
      names == {f.json : f \in Observed(t)}
      hidden(q) == \E o \in objects : IsStrictPrefix(o, q) /\ q[Len(o) + 1] \notin names
      nulls == {Append(o, f.json) : o \in objects, f \in {g \in Observed(t) : ~g.omitempty}} \ DOMAIN v
      echoes == UNION {{Append(q, k) : k \in UNION {EchoedAt(f.elem, v, q) : f \in Shaped(t)}} : q \in DOMAIN v}
  IN [q \in {r \in DOMAIN v \cup nulls \cup echoes : ~hidden(r)} |->
       IF q \in echoes THEN "default" ELSE IF q \in nulls THEN "null" ELSE v[q]]
Matches(i) == compareFieldValue(tests[i], Mirror(tests[i], ValueAt(Apply(Before[i], tests[i]), tests[i].field)))

\* The value is the one that the backend gives to a field the manifest leaves to it.
RepeatsDefault(t) == ~HeldIn(forProvider, t.field) /\ ValueAt(Backend, t.field) = t.value

\* A manifest that validate passes passes on a right provider: an entry that is the first to
\* touch its undotted field, does not repeat a default of the backend, expects its own value,
\* nulls nothing, ignores no keys of another shape and merges no object inside an object, is
\* no no-op and matches.
CleanManifestPasses == cmdValidate => \A i \in DOMAIN tests :
  LET t == tests[i]
  IN (~Skipped(t) /\ FirstTouch(i) /\ Len(t.field) = 1 /\ ~RepeatsDefault(t)
        /\ t.expect = Nil /\ (\A q \in DOMAIN t.value : t.value[q] # "null")
        /\ (t.ignoreMap # {} => IsObject(t.value)) /\ (t.ignoreList # {} => IsArray(t.value))
        /\ \A k \in Keys(t.value, <<>>) : ~(t.value[<<k>>] = "obj" /\ IsObject(ValueAt(forProvider, Append(t.field, k)))))
       => ~NoOp(t, Before[i]) /\ Matches(i)

\* "A currently-absent field is by definition not what the patch would repeat": the first
\* entry for a field, once validate has passed, is no no-op.  It may be one.
AbsentIsNotRepeated == cmdValidate => \A i \in DOMAIN tests :
  ~Skipped(tests[i]) /\ FirstTouch(i) /\ tests[i].value # Nil => ~NoOp(tests[i], Before[i])

\* What the check of echoed members finds, short of the members that the entry ignores and
\* of those that the type of the Observation which shows the object does not declare.
EchoedAndShown(t) ==
  LET e == effectiveExpectation(t)
      shown == Shown(t, e)
      names == {f.json : f \in Observed(t)}
  IN (UNION {{k \in EchoedAt(f.elem, e, q) : q \in shown => k \in names} : f \in Shaped(t), q \in DOMAIN e})
       \ (t.ignoreMap \cup t.ignoreList)

\* A member reported as unobservable or omitted, one of EchoedAndShown, and a no-op reported
\* for a value that is not null, do fail the entry when it runs.  The provider echoes what
\* its normalizers say it does, which is what the check reads too: of the echoed members this
\* tells that the walk finds them where the comparison meets them.
FindingsAreReal == Readable => \A i \in DOMAIN tests :
  LET t == tests[i]
  IN ~Skipped(t) =>
       /\ CheckGuaranteedNoOp(i) /\ t.value # Nil => NoOp(t, Before[i])
       /\ unobservableKeys(t) # {} \/ incompleteExpectationKeys(t) # {} \/ EchoedAndShown(t) # {}
            => NoOp(t, Before[i]) \/ ~Matches(i)

\* The same of every member that the walk over the expectation finds ("never reports a false
\* positive by construction").
EchoedIsReal == Readable => \A i \in DOMAIN tests :
  LET t == tests[i]
  IN ~Skipped(t) /\ walkServerEchoedMembers(t) \ (t.ignoreMap \cup t.ignoreList) # {}
       => NoOp(t, Before[i]) \/ ~Matches(i)

\* The check of surviving members never cries wolf: a member it reports is still there when
\* the entry has run.
NeverCriesWolf == Readable => \A i \in DOMAIN tests :
  ~Skipped(tests[i]) /\ ~NoOp(tests[i], Before[i]) =>
    survivingSiblingKeys(tests[i]) \subseteq Keys(ValueAt(Apply(Before[i], tests[i]), tests[i].field), <<>>)

\* An object that holds everything declared, and of every map the members that an entry names.
MembersOf(p) ==
  IF ShapeOfLeaf(p) = "list" THEN {"0"} ELSE {"k"} \cup UNION {Keys(t.value, <<>>) : t \in {e \in EntriesOf(tests) : e.field = p}}
Full ==
  LET leaves == DeclaredContainerLeaves
      members == UNION {{Append(p, k) : k \in MembersOf(p)} : p \in leaves}
  IN [q \in {<<>>} \cup (UNION {Above(p) : p \in leaves}) \cup leaves \cup members |->
       IF q \in leaves THEN IF ShapeOfLeaf(q) = "list" THEN "arr" ELSE "obj" ELSE IF q \in members THEN "x" ELSE "obj"]
\* A leaf credited with a removal is removed: on such an object, the patch of some entry takes
\* the leaf, or a member of it, away, or leaves no list where there was one.
CreditIsReal == Accepted /\ ~CoverageFails(tests, forProvider) =>
  \A f \in ContainerClearCoverage(tests, forProvider) : f.covered =>
    \E t \in Tested :
      LET before == ValueAt(Full, f.path)
          after == ValueAt(MergePatch(Full, buildMergePatch(t)), f.path)
      IN ~(DOMAIN before \subseteq DOMAIN after /\ after[<<>>] = before[<<>>])

\* An entry for a new field, with no disposition, takes no leaf's credit away.
CreditIsKept == [][
  (Len(tests') > Len(tests) /\ EffectiveDisposition(Last(tests')) = "none" /\ (\A i \in DOMAIN tests : tests[i].field # Last(tests').field)
     /\ ~CoverageFails(tests', forProvider))
    => \A p \in DeclaredContainerLeaves : Credited(p, tests, forProvider) => Credited(p, tests', forProvider)]_vars

\* The fields the parser returns for a struct are those that its declaration holds.
ParsedIsDeclared == \A i \in DOMAIN dir : \A n \in DOMAIN dir[i] :
  dir[i][n].kind = "struct" =>
    {<<f.json, f.immutable>> : f \in ToSet(ParseStructFields(dir[i], dir[i][n].name).fields)} = dir[i][n].declares
=============================================================================
