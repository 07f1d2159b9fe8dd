------------------------------ MODULE RoundTrip ------------------------------
(***************************************************************************)
(* Package roundtrip: how the fields of a live object are classified       *)
(* against the CRD's schema, and which skip: entries of the manifest that  *)
(* classification confirms or disproves.                                   *)
(*                                                                         *)
(* A path is a sequence of segments.  A schema is the set of its nodes, a  *)
(* decoded JSON object the function from the paths that hold a scalar, a   *)
(* list, {} or null to that value: the value at a path is the part of the  *)
(* function under it.  The state is what the command reads; each step is   *)
(* an edit somebody makes to it, and the report is a function of it.       *)
(***************************************************************************)
EXTENDS Naturals, Sequences, FiniteSetsExt, SequencesExt

CONSTANTS
  CrdFiles,     \* the possible contents of package/crds, sequences in name order
  Group, Kind,  \* the manifest's API group and kind
  TestFields,   \* paths an entry of the manifest may name
  Forms(_)      \* path -> the values it can take, functions of relative paths

\* Files and versions are in order, the segments of a path are names.
ASSUME CrdAssumption == \A files \in CrdFiles :
  /\ files \in Seq(Range(files))
  /\ \A i \in DOMAIN files : LET versions == files[i].versions IN
       /\ versions \in Seq(Range(versions))
       /\ \A v \in DOMAIN versions : \A p \in versions[v].schema.fp :
            p \in Seq(STRING) /\ \A form \in Forms(p) : DOMAIN form \subseteq Seq(STRING)

VARIABLES dir, spec, mirror, tests
reportVars == <<dir, spec, mirror, tests>>

\* What the manifest says of a field: no skip: entry, free prose, write-only, or one
\* of the reasons that carry a citation of their own.
Skips == {"none", "legacy", "write-only", "cited"}

(* FindCRD: the first file that parses to a CRD of the group and kind. *)
FindCRD(files, group, kind) ==
  SelectInSeq(files, LAMBDA f : f.parses /\ f.isCRD /\ f.group = group /\ f.kind = kind)

(* servedSchema: the first served version, or else the first; 0 is an error. *)
servedSchema(versions) ==
  LET served == SelectInSeq(versions, LAMBDA v : v.served)
  IN IF versions = <<>> THEN 0 ELSE IF served = 0 THEN 1 ELSE served

Crd == LET i == FindCRD(dir, Group, Kind) IN IF i = 0 THEN <<>> ELSE dir[i].versions
Schema == LET v == servedSchema(Crd)
          IN IF v = 0 THEN [fp |-> {}, ap |-> {}, marked |-> {}] ELSE Crd[v].schema

(* leafPaths: the nodes with no declared property below them. *)
leafPaths(nodes) == {p \in nodes : ~\E q \in nodes : IsStrictPrefix(p, q)}

\* Seeded fault: one marked field makes its siblings immutable.
SiblingsToo(schema) == IF schema.marked = {} THEN {} ELSE leafPaths(schema.fp)
(* immutablePaths: the leaves at or below a node with a self == oldSelf rule. *)
immutablePaths(schema) == {p \in leafPaths(schema.fp) : \E q \in schema.marked : IsPrefix(q, p)}

(* getValue: the part of a JSON object under a path; {} is "not found". *)
getValue(obj, path) == {<<SubSeq(q, Len(path) + 1, Len(q)), obj[q]>> : q \in {r \in DOMAIN obj : IsPrefix(path, r)}}

(* classify: the class of a field, "unreported" when neither side has it. *)
classify(sv, mv) ==
  IF sv # {} /\ mv # {} THEN IF sv = mv THEN "equal" ELSE "value-changed"
  ELSE IF sv # {} THEN "present-in-spec-absent-from-mirror"
  ELSE IF mv # {} THEN "defaulted-by-server" ELSE "unreported"

(* DiffReport: the rows, one per path. *)
DiffReport(schema, obj, mir) ==
  LET fp == leafPaths(schema.fp)
      row(p) == [path |-> p, spec |-> getValue(obj, p), mirror |-> getValue(mir, p),
                 class |-> IF p \in fp THEN classify(getValue(obj, p), getValue(mir, p))
                           ELSE "present-in-mirror-absent-from-spec",
                 immutable |-> p \in immutablePaths(schema)]
      mirrorOnly == {p \in leafPaths(schema.ap) \ fp : getValue(mir, p) # {}}
  IN {r \in {row(p) : p \in fp \cup mirrorOnly} : r.class # "unreported"}

(* ShapeOf: the shape of the spec's value, or of the mirror's. *)
ShapeOf(r) ==
  LET v == IF r.spec # {} THEN r.spec ELSE r.mirror
  IN IF v \subseteq {<<<<>>, "list">>} THEN "list"
     ELSE IF v = {<<<<>>, "{}">>} \/ \E x \in v : x[1] # <<>> THEN "map" ELSE "scalar"

(* GroupCells: the set-direction cells, keyed by class and shape. *)
GroupCells(rows) ==
  LET inSpec == {r \in rows : r.class # "present-in-mirror-absent-from-spec"}
      key(r) == <<r.class, ShapeOf(r)>>
  IN [k \in {key(r) : r \in inSpec} |-> {r.path : r \in {x \in inSpec : key(x) = k}}]

isMustTestClass(class) ==
  class \in {"value-changed", "defaulted-by-server", "present-in-spec-absent-from-mirror"}

\* A field the backend never echoes and nobody can update is out of the denominator.
Excludes(r) == r.class = "present-in-spec-absent-from-mirror" /\ r.immutable
excluded(rows) == {r \in rows : isMustTestClass(r.class) /\ Excludes(r)}
mustTestCount(rows) == Cardinality({r \in rows : isMustTestClass(r.class)} \ excluded(rows))

\* Seeded fault: a field without a row is waived for any reason.
NoRowIsFine(f, skip, rows) == \E r \in rows : r.path = f /\ isMustTestClass(r.class) /\ ~Excludes(r) /\ skip # "write-only"
(* DenominatorReport's second loop: is the skip: entry on f disproved? *)
Disproved(f, skip, rows) ==
  LET own == {r \in rows : r.path = f}
  IN IF own = {} THEN skip \in {"legacy", "write-only"}
     ELSE \E r \in own :
            \/ r.class \in {"value-changed", "defaulted-by-server"}
            \/ r.class = "present-in-spec-absent-from-mirror" /\ ~r.immutable /\ skip # "write-only"

Waived == {f \in TestFields : tests[f] # "none"}
Rows == DiffReport(Schema, spec, mirror)
findings(rows) == {f \in Waived : Disproved(f, tests[f], rows)}

(* ClassifyWaivers: the bucket of every skip: entry. *)
ClassifyWaivers(rows) ==
  [f \in Waived |-> IF (\E r \in rows : r.path = f) /\ Disproved(f, tests[f], rows) THEN "false" ELSE "keep"]

(* A manifest is skipped without a report when its CRD is not found. *)
HasReport == FindCRD(dir, Group, Kind) # 0 /\ servedSchema(Crd) # 0
(* buildRoundtripVerifyReport, and the verdict cmdRoundtripVerify gives it. *)
Gate == IF HasReport /\ findings(Rows) = {} THEN "ok" ELSE "error"
-----------------------------------------------------------------------------
(* The edits.  A value written at a path replaces what was there, and the  *)
(* scalar or null that an ancestor held.                                   *)
Without(obj, p) == {q \in DOMAIN obj : ~IsPrefix(p, q)}
Put(obj, p, form) ==
  LET kept == {q \in Without(obj, p) : ~IsPrefix(q, p)}
      new == {p \o r : r \in DOMAIN form}
  IN [q \in kept \cup new |-> IF q \in new THEN form[SubSeq(q, Len(p) + 1, Len(q))] ELSE obj[q]]
Unset(obj, p) == [q \in Without(obj, p) |-> obj[q]]

ReportInit == dir \in CrdFiles /\ spec = <<>> /\ mirror = <<>> /\ tests = [f \in TestFields |-> "none"]

SetField == \E p \in Schema.fp : \E v \in Forms(p) : spec' = Put(spec, p, v) /\ UNCHANGED <<dir, mirror, tests>>
DeleteField == \E p \in Schema.fp : spec' = Unset(spec, p) /\ UNCHANGED <<dir, mirror, tests>>
Echo == \E p \in Schema.ap : \E v \in Forms(p) : mirror' = Put(mirror, p, v) /\ UNCHANGED <<dir, spec, tests>>
Withdraw == \E p \in Schema.ap : mirror' = Unset(mirror, p) /\ UNCHANGED <<dir, spec, tests>>
Declare == \E f \in TestFields, s \in Skips : tests' = [tests EXCEPT ![f] = s] /\ UNCHANGED <<dir, spec, mirror>>

ReportNext == SetField \/ DeleteField \/ Echo \/ Withdraw \/ Declare
ReportSpec == ReportInit /\ [][ReportNext]_reportVars
-----------------------------------------------------------------------------
\* roundtrip-verify accepts a skip: entry only with the evidence for its kind: the
\* backend echoed exactly what was sent; or it never echoes the field and the entry
\* says write-only or no update exists; or the object never held the field and the
\* entry cites something else.
WaiverIsEarned == Gate = "ok" => \A f \in Waived \cap leafPaths(Schema.fp) :
  LET s == getValue(spec, f)
      m == getValue(mirror, f)
  IN \/ m # {} /\ s = m
     \/ s # {} /\ m = {} /\ (tests[f] = "write-only" \/ \E q \in Schema.marked : IsPrefix(q, f))
     \/ s = {} /\ m = {} /\ tests[f] = "cited"

\* A field the backend changes or supplies by itself is in the must-test set, whatever
\* the schema says of its immutability.
DeviationIsCounted ==
  mustTestCount(Rows) >= Cardinality({p \in leafPaths(Schema.fp) :
    getValue(mirror, p) # {} /\ getValue(mirror, p) # getValue(spec, p)})

\* Removing a field from the example never turns a disproved write-only or free-prose
\* waiver, of that field or of any other, into an accepted one.
DeletingEarnsNothing == [][DeleteField =>
  {f \in findings(Rows) : tests[f] \in {"legacy", "write-only"}} \subseteq findings(DiffReport(Schema, spec', mirror))]_reportVars

\* A waiver's bucket agrees with whether DenominatorReport raises a finding for it.
BucketAgrees == HasReport => \A f \in Waived : (ClassifyWaivers(Rows)[f] = "false") <=> f \in findings(Rows)
=============================================================================
