------------------------------ MODULE MCRunTests ------------------------------
(***************************************************************************)
(* Instances of RunTests for TLC.                                          *)
(***************************************************************************)
EXTENDS RunTests

Fields == {"size", "name", "mode", "opts", "zone"}
FewFields == Fields \ {"size"}
Values == {"absent", "empty", "unreadable", "s0", "s1", "Foo", "foo", "a", "b", "o", "z"}

\* The options lie in a container of their own.
Containers == [f \in Field |-> IF f = "opts" THEN {"box"} ELSE {}]

\* The backend folds case: "Foo" and "foo" are one name to it.
FoldCase == [v \in Values |-> IF v = "Foo" THEN "foo" ELSE v]

Test(field, value, expect, clear) ==
    [field |-> field, value |-> value, expect |-> expect, clear |-> clear,
     withValues |-> << >>, skip |-> FALSE]

Skipped(t) == [t EXCEPT !.skip = TRUE]

Size == Test("size", "s1", "s1", {})
Name == Test("name", "Foo", "foo", {})
ModeClearsOpts == Test("mode", "b", "b", {"opts"})
ModeClearsBox == Test("mode", "b", "b", {"box"})
ModeEmptiesOpts ==
    [Test("mode", "b", "b", {}) EXCEPT !.withValues = [f \in {"opts"} |-> "empty"]]
ModeAlone == Test("mode", "a", "a", {})

\* The route by which the options are credited.
ByClear == [f \in {"opts"} |-> "sibling clear"]
ByAncestor == [f \in {"opts"} |-> "ancestor tombstone"]
ByValues == [f \in {"opts"} |-> "sibling withValues"]

\* A plain field, a value the backend normalises and a lender.
ThreeEntries == <<Size, Name, ModeClearsOpts>>

\* The latter two, and a skip between them.
WithSkip == <<Name, Skipped(Test("zone", "z", "z", {})), ModeClearsBox>>

\* A value the backend normalises, a skip, and two entries for one field: its value
\* first, the union arm it clears second.
WithTwo == <<Name, Skipped(Test("zone", "z", "z", {})), ModeAlone, ModeClearsBox>>

\* Two entries for one field: the value first, the list it empties second.
TwoEntriesOneField == <<ModeAlone, ModeEmptiesOpts>>

Start(size, name, mode, zone) ==
    [size |-> size, name |-> name, mode |-> mode, opts |-> "o", zone |-> zone]

\* The name may differ from its target by case only, or be the target; so may the
\* mode be, the watched zone may be missing, and the options be clear already.
NothingMatches == {Start("s0", "a", "absent", "z")}
NameMayMatch == {Start("s0", n, "absent", "z") : n \in {"a", "foo"}}
OptsMayBeClear ==
    {[Start("s0", n, m, "z") EXCEPT !.opts = o] :
        n \in {"a", "foo", "Foo"}, m \in {"absent", "a"}, o \in {"o", "absent"}}
Few(name, mode, zone) == [name |-> name, mode |-> mode, opts |-> "o", zone |-> zone]
AnyMayMatch ==
    {[Few("a", "absent", "z") EXCEPT !.opts = "absent"], Few("foo", "b", "z"),
     Few("a", "absent", "absent")}

=============================================================================
