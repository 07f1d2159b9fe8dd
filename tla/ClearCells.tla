------------------------------ MODULE ClearCells ------------------------------
(***************************************************************************)
(* Package roundtrip, container-clear coverage: for every list or map      *)
(* declared under spec.forProvider, does an entry of the manifest exercise *)
(* its removal?  A leaf is covered by one of five routes, or ineligible by *)
(* the CRD or for want of a value, or a gap; leaves of one shape and depth *)
(* form a cell, and one covered leaf credits its cell.                     *)
(*                                                                         *)
(* A schema maps the paths of its nodes to [type, open, minItems, marked]; *)
(* the items of a list hang under it as "items".  Its CEL rules are        *)
(* given decoded: the leaves a has() guard requires under which policies,  *)
(* and the size() guards, each a disjunction or something else.            *)
(***************************************************************************)
EXTENDS Manifest, FiniteSets

CONSTANT Schema   \* [nodes, atProvider, policies, required, guards]

Nodes == Schema.nodes
Props(p) == {Last(q) : q \in {r \in DOMAIN Nodes : Len(r) = Len(p) + 1 /\ IsPrefix(p, r)}}
Holds(p, type) == p \in DOMAIN Nodes /\ Nodes[p].type = type
Parent(p) == Front(p)

(* DeclaredContainerLeaves: below objects with properties, the lists and free-form maps. *)
ShapeOfLeaf(p) == IF Nodes[p].type = "array" THEN "list" ELSE "map"
DeclaredContainerLeaves ==
  {p \in DOMAIN Nodes \ {<<>>} :
     /\ \A n \in 0..(Len(p) - 1) : Holds(SubSeq(p, 1, n), "object")
     /\ Nodes[p].type = "array" \/ (Nodes[p].type = "object" /\ Nodes[p].open /\ Props(p) = {})}
depthOf(p) == IF Len(p) > 1 THEN "nested" ELSE "top"
CellOf(p) == <<ShapeOfLeaf(p), depthOf(p)>>
-----------------------------------------------------------------------------
(* The routes.  A later entry for a field stands for the field. *)
EntriesOf(tests) == {tests[i] : i \in DOMAIN tests}
selfByField(tests, f) == LET n == {i \in DOMAIN tests : tests[i].field = f}
                         IN {tests[i] : i \in {j \in n : \A k \in n : k <= j}}

hasNestedNullMember(v) == IsObject(v) /\ \E k \in Keys(v, <<>>) : v[<<k>>] = "null"

\* Seeded fault: an empty object counts as a tombstone too.
EmptyObjectToo(t, shape) ==
  IF t.value = Nil THEN t.explicit ELSE DOMAIN t.value = {<<>>} /\ t.value[<<>>] \in {"arr", "obj"}
selfTombstoned(t, shape) ==
  IF t.value = Nil THEN t.explicit ELSE shape = "list" /\ t.value = [q \in {<<>>} |-> "arr"]

coverageFor(p, tests) ==
  LET all == EntriesOf(tests)
      cleared == UNION {t.clear : t \in all}
  IN IF p \in cleared THEN "sibling clear:"
     ELSE IF ShapeOfLeaf(p) = "list" /\ \E t \in all : p \in DOMAIN t.with /\ t.with[p] = [q \in {<<>>} |-> "arr"]
     THEN "sibling withValues:"
     ELSE IF \E c \in cleared : IsStrictPrefix(c, p) THEN "ancestor-tombstone"
     ELSE IF \E t \in all : t.field = p /\ hasNestedNullMember(t.value) THEN "per-key-null"
     ELSE IF \E t \in selfByField(tests, p) : selfTombstoned(t, ShapeOfLeaf(p)) THEN "self-tombstone"
     ELSE "none"
Covers(p, tests) == coverageFor(p, tests) # "none"

(* dispositionFor: what the leaf's own entry declares. *)
dispositionFor(p, tests) ==
  LET own == selfByField(tests, p)
  IN IF own = {} THEN "none" ELSE EffectiveDisposition(CHOOSE t \in own : TRUE)
-----------------------------------------------------------------------------
(* Ineligibility. *)
isPolicyShape(p) == Props(p) # {} /\ Props(p) \subseteq {"resolution", "resolve"}
isSelectorShape(p) ==
  /\ Props(p) \subseteq {"matchControllerRef", "matchLabels", "namespace", "policy"}
  /\ Props(p) \cap {"matchControllerRef", "matchLabels"} # {}
  /\ "matchLabels" \in Props(p) => Holds(Append(p, "matchLabels"), "object") /\ Nodes[Append(p, "matchLabels")].open
  /\ "namespace" \in Props(p) => Holds(Append(p, "namespace"), "string")
  /\ "policy" \in Props(p) => isPolicyShape(Append(p, "policy"))
isReferenceItemShape(p) ==
  /\ Props(p) \subseteq {"name", "namespace", "policy"}
  /\ Holds(Append(p, "name"), "string")
  /\ "policy" \in Props(p) => isPolicyShape(Append(p, "policy"))
referenceResolutionShape(p) ==
  /\ p \notin Schema.atProvider
  /\ IF ShapeOfLeaf(p) = "map" THEN Len(p) > 1 /\ isSelectorShape(Parent(p))
     ELSE isReferenceItemShape(Append(p, "items"))

immutable(p) == \E n \in 0..Len(p) : Nodes[SubSeq(p, 1, n)].marked
managementPoliciesDefault == Schema.policies
(* requiredByManagementPolicies: a has() guard that names one of the default policies. *)
requiredByManagementPolicies(p) == \E r \in Schema.required : r.leaf = p /\ r.policies \cap managementPoliciesDefault # {}

(* evalGuardDisjunct: "true", "false", or "unknown" of a disjunct on this object. *)
evalGuardDisjunct(d, fp) ==
  LET v == ValueAt(fp, d.path)
  IN CASE d.kind = "unset" -> IF v = Missing THEN "true" ELSE "false"
       [] d.kind = "differs" -> IF v = Missing THEN "true"
                                ELSE IF v[<<>>] \in {"obj", "arr", "null"} THEN "unknown"
                                ELSE IF v[<<>>] # d.value THEN "true" ELSE "false"
       [] d.kind = "opaque" -> "unknown"
(* sizeGuardRule: a rule "d1 || ... || size" is evaluated left to right; an unreadable *)
(* disjunct met first makes it bind always, a true one means that it does not bind.    *)
sizeGuardRule(g, fp) ==
  LET verdict == [i \in DOMAIN g.disjuncts |-> evalGuardDisjunct(g.disjuncts[i], fp)]
      first == SelectInSeq(verdict, LAMBDA x : x # "false")
  IN IF verdict = <<>> THEN "always"
     ELSE IF first = 0 THEN "here" ELSE IF verdict[first] = "unknown" THEN "always" ELSE "no"
sizeNonEmptyGuard(p, fp) ==
  LET verdicts == [i \in DOMAIN Schema.guards |->
                     IF Schema.guards[i].leaf = p THEN sizeGuardRule(Schema.guards[i], fp) ELSE "no"]
      hit == SelectInSeq(verdicts, LAMBDA x : x # "no")
  IN IF hit = 0 THEN "no" ELSE verdicts[hit]
minItemsGuard(p) == Nodes[p].minItems > 0
listEmptyRouteBlocked(p, fp) == IF minItemsGuard(p) THEN "always" ELSE sizeNonEmptyGuard(p, fp)

(* classifyIneligibility: the reasons that hold by the schema alone, and those of a *)
(* list that merely may not be empty.                                               *)
structural(p, fp) ==
  IF referenceResolutionShape(p) THEN "reference-resolution"
  ELSE IF immutable(p) THEN "CEL-immutable"
  ELSE IF requiredByManagementPolicies(p) /\ (ShapeOfLeaf(p) = "map" \/ listEmptyRouteBlocked(p, fp) # "no")
  THEN "required by CEL" ELSE "none"
markerOnly(p, fp) ==
  IF structural(p, fp) # "none" \/ ShapeOfLeaf(p) # "list" THEN "none"
  ELSE CASE listEmptyRouteBlocked(p, fp) = "always" -> "never empty"
         [] listEmptyRouteBlocked(p, fp) = "here" -> "not empty here"
         [] OTHER -> "none"

(* testEntryDataTree: what the tested entries write, in order. *)
testEntryDataTree(tests) ==
  FoldLeft(LAMBDA tree, t : IF Skipped(t) THEN tree
             ELSE FoldSet(LAMBDA s, acc : setAtPath(acc, s, t.with[s]), setAtPath(tree, t.field, t.value), DOMAIN t.with),
           Empty, tests)
presentAtPath(tree, p) == ValueAt(tree, p) # Missing /\ \A a \in Above(p) : tree[a] = "obj"
classifyAbsentFromManifest(p, tests, fp) == ~presentAtPath(fp, p) /\ ~presentAtPath(testEntryDataTree(tests), p)

cellCovered(tests, fp) ==
  {CellOf(p) : p \in {q \in DeclaredContainerLeaves : structural(q, fp) = "none" /\ Covers(q, tests)}}
\* Seeded fault: a leaf without a value is out whatever its cell is credited with.
AbsentAtOnce(p, tests, fp) ==
  IF structural(p, fp) # "none" THEN structural(p, fp)
  ELSE IF classifyAbsentFromManifest(p, tests, fp) THEN "absent"
  ELSE IF CellOf(p) \notin cellCovered(tests, fp) THEN markerOnly(p, fp) ELSE "none"
ineligible(p, tests, fp) ==
  IF structural(p, fp) # "none" THEN structural(p, fp)
  ELSE IF CellOf(p) \in cellCovered(tests, fp) THEN "none"
  ELSE IF markerOnly(p, fp) # "none" THEN markerOnly(p, fp)
  ELSE IF classifyAbsentFromManifest(p, tests, fp) THEN "absent" ELSE "none"
-----------------------------------------------------------------------------
(* ContainerClearFinding: a disposition that denies the coverage withdraws the credit. *)
ContainerClearFinding(p, reason, route, disp) ==
  LET contradiction == reason = "none" /\ route # "none" /\ disp = "backend-discards"
      covered == reason = "none" /\ route # "none" /\ ~contradiction
  IN [path |-> p, reason |-> reason, covered |-> covered, contradiction |-> contradiction,
      route |-> IF covered THEN route ELSE "none",
      disp |-> IF reason # "none" \/ covered \/ contradiction THEN "none" ELSE disp]
(* ContainerClearCoverage: one finding per leaf, or an error for all. *)
Disagrees(p, tests, fp) ==
  ineligible(p, tests, fp) \notin {"none", "reference-resolution", "absent"} /\ Covers(p, tests)
CoverageFails(tests, fp) == \E p \in DeclaredContainerLeaves : Disagrees(p, tests, fp)
ContainerClearCoverage(tests, fp) ==
  {ContainerClearFinding(p, ineligible(p, tests, fp), coverageFor(p, tests), dispositionFor(p, tests)) :
     p \in DeclaredContainerLeaves}

(* GroupClearCells, buildClearCellReport *)
GroupClearCells(findings) ==
  [c \in {CellOf(f.path) : f \in findings} |-> {f \in findings : CellOf(f.path) = c}]
EligibleMembers(members) == {f \in members : f.reason = "none"}
buildClearCellReport(members) ==
  LET eligible == EligibleMembers(members)
      covered == \E f \in eligible : f.covered
  IN [vacuous |-> eligible = {}, covered |-> covered,
      contradictory |-> {f.path : f \in {x \in eligible : x.contradiction}},
      undispositioned |-> IF covered THEN {} ELSE
        {f.path : f \in {x \in eligible : ~x.contradiction /\ x.disp = "none"}}]
(* PrintClearCellReport: the cells that block. *)
PrintClearCellReport(findings) ==
  LET cells == GroupClearCells(findings)
      report == [c \in DOMAIN cells |-> buildClearCellReport(cells[c])]
  IN {c \in DOMAIN cells : report[c].contradictory # {} \/ report[c].undispositioned # {}}
(* containerLeafSummary: the leaves covered, and those that could be. *)
containerLeafSummary(findings) ==
  <<Cardinality({f \in findings : f.covered}), Cardinality(EligibleMembers(findings))>>
-----------------------------------------------------------------------------
\* What a covered leaf of its cell does for a leaf that nothing rules out.
Credited(p, tests, fp) ==
  /\ ineligible(p, tests, fp) = "none"
  /\ \E f \in ContainerClearCoverage(tests, fp) : f.covered /\ CellOf(f.path) = CellOf(p)
=============================================================================
