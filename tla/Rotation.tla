------------------------------ MODULE Rotation ------------------------------
(***************************************************************************)
(* The lender rotation of roundtrip-verify: each invocation loads the      *)
(* rotation state, visits its manifests in order, lets Select draw this    *)
(* run's representatives of every equal cell, and writes the state back    *)
(* in place.  A process may die at any step, also inside the write.        *)
(*                                                                         *)
(* Abstracted: fields are the numbers 1..N in the order sortedPaths gives  *)
(* them, a cell key is its shape (the classification is always equal, the  *)
(* direction always set), and the seeded permutation is the constant       *)
(* Shuffle.  Invocations follow one another.                               *)
(***************************************************************************)
EXTENDS Integers, Sequences, FiniteSets

CONSTANTS
  Manifests,        \* the manifests given to every invocation, as a sequence
  manifestScope,    \* manifest -> its scope
  NumFields,        \* how many fields the schema has
  Shapes,           \* the shapes an equal row can have
  Lives(_),         \* the live states a manifest's object can be in: field -> shape or "none"
  Seeds,            \* seeds NewRotationState may draw
  Shuffle(_, _, _), \* seed, key, n -> a permutation of 0..n-1
  MaxSticky,        \* bound: promoted members
  Missing, Torn,    \* no state file; one that does not parse
  NoState           \* no invocation runs

Fields == 1..NumFields
Ms == {Manifests[j] : j \in DOMAIN Manifests}
Scopes == {manifestScope[m] : m \in Ms}
Slots == Scopes \X Shapes

RotationStates == [seed : Seeds, cursors : [Slots -> 0..(NumFields - 1)], sticky : [Slots -> SUBSET Fields]]

ASSUME RotationAssumption ==
  /\ NumFields \in Nat \ {0} /\ MaxSticky \in Nat
  /\ Manifests \in Seq(Ms)
  /\ \A s \in Seeds, k \in Shapes, n \in 1..NumFields :
       {Shuffle(s, k, n)[i] : i \in 0..(n - 1)} = 0..(n - 1)
  /\ Missing # Torn /\ {Missing, Torn, NoState} \cap RotationStates = {}

VARIABLES
  file,      \* Missing, Torn, or the saved RotationState
  rotation,  \* the state in the process's memory
  pos,       \* 0 when no invocation runs, else the manifest it visits next
  produced,  \* has this invocation printed a report?
  anyFindings, exit,
  live,      \* manifest -> what its object shows now
  picks,     \* slot -> representatives of this invocation
  idle,      \* history: slot -> field -> saved runs of an unchanged cell that left the field out
  settled,   \* history: slot -> the members of the slot's last saved run
  promoted   \* history: <<slot, field>> that PromoteFailure recorded and a save persisted

vars == <<file, rotation, pos, produced, anyFindings, exit, live, picks, idle, settled, promoted>>
history == <<idle, settled, promoted>>

CeilDiv(a, b) == (a + b - 1) \div b
\* The number of runs the budget is built to converge within.
Target(size) == IF CeilDiv(size, 8) < 2 THEN 2 ELSE CeilDiv(size, 8)

RepresentativesPerRun(size) ==
  IF size <= 0 THEN 0
  ELSE IF CeilDiv(size, Target(size)) > size THEN size ELSE CeilDiv(size, Target(size))

NewRotationState(seed) == [seed |-> seed, cursors |-> [s \in Slots |-> 0], sticky |-> [s \in Slots |-> {}]]

\* Seeded fault: the cursor is kept per cell key, as before the scope was added.
OneCursorPerKey(scope, key) == <<CHOOSE s \in Scopes : TRUE, key>>
stateKey(scope, key) == <<scope, key>>

\* Seeded fault: an unreadable file counts as a first run.
TornIsMissing(f, seed) == IF f \in {Missing, Torn} THEN {NewRotationState(seed)} ELSE {f}
\* The states LoadRotationState can return; none when the file does not parse.
LoadRotationState(f, seed) ==
  IF f = Missing THEN {NewRotationState(seed)} ELSE IF f = Torn THEN {} ELSE {f}

(* GroupCells: the equal cell of shape k; sortedPaths: its member at index j. *)
members(m, k) == {f \in Fields : live[m][f] = k}
Nth(mem, j) == CHOOSE f \in mem : Cardinality({g \in mem : g < f}) = j

Advance(cursor, budget, n) == (cursor + budget) % n

(* Select: [state, chosen].  The budget walks the shuffled order from the   *)
(* cursor, the sticky members come on top.                                  *)
Select(s, scope, key, mem) ==
  LET n == Cardinality(mem)
      slot == stateKey(scope, key)
      budget == RepresentativesPerRun(n)
      order == Shuffle(s.seed, key, n)
  IN IF n = 0 THEN [state |-> s, chosen |-> {}]
     ELSE [state |-> [s EXCEPT !.cursors[slot] = Advance(@, budget, n)],
           chosen |-> {Nth(mem, order[(s.cursors[slot] + i) % n]) : i \in 0..(budget - 1)} \cup s.sticky[slot]]

\* CreditCells: Select for the equal cells of one manifest.  Cells have slots of
\* their own, so the order the map is walked in does not matter.
CreditCells(s, m) ==
  LET sel == [k \in Shapes |-> Select(s, manifestScope[m], k, members(m, k))]
  IN [state |-> [s EXCEPT !.cursors = [x \in Slots |->
                   LET mine == {k \in Shapes : stateKey(manifestScope[m], k) = x}
                   IN IF mine = {} THEN s.cursors[x]
                      ELSE sel[CHOOSE k \in mine : TRUE].state.cursors[x]]],
      chosen |-> [k \in Shapes |-> sel[k].chosen]]

Init ==
  /\ file = Missing /\ rotation = NoState /\ pos = 0 /\ produced = FALSE /\ anyFindings = FALSE
  /\ exit = "none"
  /\ live \in {l \in [Ms -> UNION {Lives(m) : m \in Ms}] : \A m \in Ms : l[m] \in Lives(m)}
  /\ picks = [s \in Slots |-> {}]
  /\ idle = [s \in Slots |-> [f \in Fields |-> 0]] /\ settled = [s \in Slots |-> {}] /\ promoted = {}

\* cmdRoundtripVerify starts: the state is loaded once.
Load == \E seed \in Seeds : \E s \in LoadRotationState(file, seed) :
  /\ pos = 0 /\ rotation' = s /\ pos' = 1 /\ exit' = "none"
  /\ UNCHANGED <<file, produced, anyFindings, live, picks, history>>

\* A file that does not parse ends the command before any manifest is visited.
LoadFails ==
  /\ pos = 0 /\ exit # "error" /\ \A seed \in Seeds : LoadRotationState(file, seed) = {}
  /\ exit' = "error"
  /\ UNCHANGED <<file, rotation, pos, produced, anyFindings, live, picks, history>>

\* One manifest is skipped: not parsed, not found in the cluster, or without a CRD.
SkipManifest ==
  /\ pos \in 1..Len(Manifests) /\ pos' = pos + 1
  /\ UNCHANGED <<file, rotation, produced, anyFindings, exit, live, picks, history>>

\* One manifest is reported: its object is read and its equal cells are credited.
Report == \E finding \in BOOLEAN :
  /\ pos \in 1..Len(Manifests) /\ pos' = pos + 1 /\ produced' = TRUE /\ anyFindings' = (anyFindings \/ finding)
  /\ LET m == Manifests[pos]
         c == CreditCells(rotation, m)
     IN /\ rotation' = c.state
        /\ picks' = [x \in Slots |-> IF x[1] = manifestScope[m] THEN c.chosen[x[2]] ELSE picks[x]]
  /\ UNCHANGED <<file, exit, live, history>>

Promotions(s) == UNION {{slot} \X s.sticky[slot] : slot \in Slots}

\* RotationState's caller reports a failed live test of a representative.  The
\* package promises this operation; no command calls it yet.
PromoteFailure == \E slot \in Slots : \E f \in picks[slot] :
  /\ pos > 1 /\ Cardinality(Promotions(rotation)) < MaxSticky
  /\ rotation' = [rotation EXCEPT !.sticky[slot] = @ \cup {f}]
  /\ UNCHANGED <<file, pos, produced, anyFindings, exit, live, picks, history>>

\* What the saved run means for the fields of a slot it reported.
Members(slot) == UNION {members(m, slot[2]) : m \in {n \in Ms : manifestScope[n] = slot[1]}}
Reported(slot) == picks[slot] # {}
SettledNow(slot) == IF Reported(slot) THEN Members(slot) ELSE settled[slot]
IdleNow(slot, f) ==
  IF ~Reported(slot) THEN idle[slot][f]
  ELSE IF f \in picks[slot] \/ f \notin Members(slot) THEN 0
  ELSE IF settled[slot] = Members(slot) THEN idle[slot][f] + 1 ELSE 1
Counted ==
  /\ idle' = [s \in Slots |-> [f \in Fields |-> IdleNow(s, f)]]
  /\ settled' = [s \in Slots |-> SettledNow(s)]
  /\ promoted' = Promotions(rotation)

Verdict == IF ~produced \/ anyFindings THEN "error" ELSE "ok"
Finished == pos = Len(Manifests) + 1
Ends ==
  /\ pos' = 0 /\ rotation' = NoState /\ produced' = FALSE /\ anyFindings' = FALSE
  /\ picks' = [s \in Slots |-> {}] /\ UNCHANGED live

Save == Finished /\ produced /\ file' = rotation /\ exit' = Verdict /\ Ends /\ Counted
\* A save that fails before it opens the file is only a warning.
SaveFails == Finished /\ produced /\ exit' = Verdict /\ Ends /\ UNCHANGED <<file, history>>
NothingToSave == Finished /\ ~produced /\ exit' = Verdict /\ Ends /\ UNCHANGED <<file, history>>
\* os.WriteFile truncates the file before it writes: a crash in between leaves it cut.
CrashInSave == Finished /\ produced /\ file' = Torn /\ exit' = "killed" /\ Ends /\ UNCHANGED history
Crash == pos # 0 /\ exit' = "killed" /\ Ends /\ UNCHANGED <<file, history>>

\* The rest of the world, between two invocations: objects change, and whoever
\* meets the parse error removes the file.
LiveChanges == \E m \in Ms : \E l \in Lives(m) :
  /\ pos = 0 /\ live[m] # l /\ live' = [live EXCEPT ![m] = l]
  /\ UNCHANGED <<file, rotation, pos, produced, anyFindings, exit, picks, history>>
FileRemoved ==
  /\ pos = 0 /\ exit = "error" /\ file = Torn /\ file' = Missing
  /\ promoted' = {} /\ idle' = [s \in Slots |-> [f \in Fields |-> 0]] /\ settled' = [s \in Slots |-> {}]
  /\ UNCHANGED <<rotation, pos, produced, anyFindings, exit, live, picks>>

Next ==
  \/ Load \/ LoadFails \/ SkipManifest \/ Report \/ PromoteFailure
  \/ Save \/ SaveFails \/ NothingToSave \/ CrashInSave \/ Crash \/ LiveChanges \/ FileRemoved

Spec == Init /\ [][Next]_vars
-----------------------------------------------------------------------------
\* Every variable has its type; a cursor on disk indexes its cell's last order.
TypeOK ==
  /\ file \in {Missing, Torn} \cup RotationStates /\ rotation \in {NoState} \cup RotationStates
  /\ pos \in 0..(Len(Manifests) + 1) /\ produced \in BOOLEAN /\ anyFindings \in BOOLEAN
  /\ exit \in {"none", "ok", "error", "killed"} /\ \A m \in Ms : live[m] \in Lives(m)
  /\ picks \in [Slots -> SUBSET Fields] /\ promoted \subseteq Slots \X Fields

\* A member of a cell whose member list stays the same is chosen at least once in
\* every Target(size) saved runs, whatever other manifests the runs visit, whatever
\* the list was before, and however many invocations crashed in between.
EveryMemberInTurn == \A s \in Slots : \A f \in settled[s] : idle[s][f] < Target(Cardinality(settled[s]))

\* A promoted member, once saved, is a representative of every later report of its
\* slot: neither the rotation, nor a change of the member list, nor a crash loses it.
StickyIsChosen == \A x \in promoted : picks[x[1]] # {} => x[2] \in picks[x[1]]
=============================================================================
