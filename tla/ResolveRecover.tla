--------------------------- MODULE ResolveRecover ---------------------------
(***************************************************************************)
(* RunResolveRecover: pause the resource, strip its external name, resume, *)
(* and judge from the recovered name and the create events whether the     *)
(* controller found the existing backend object or created a second one.   *)
(* The controller reads the object, works on that copy and writes it back  *)
(* under optimistic concurrency, woken by changes of the spec or of an     *)
(* annotation only; its poll interval never elapses here.                  *)
(*                                                                         *)
(* Abstracted: a copy is stale as soon as somebody else wrote the object;  *)
(* the backend's objects are the original, a duplicate, and one of the     *)
(* other type, the only one whose name lacks the expected prefix.          *)
(***************************************************************************)
EXTENDS Naturals, Sequences

CONSTANTS
  EventsLate,   \* may a create event be listed only after the resource is Ready again?
  NoCopy        \* the controller holds no copy of the object

VARIABLES
  paused, ext, ready, synced,  \* the managed resource
  backend,                     \* the backend's objects
  copy, dirty,                 \* the controller: the copy it works on, whether it is woken
  pending, listed,             \* create events: recorded, listed by the API server
  pc, outcome

object == <<paused, ext, ready, synced>>
controller == <<backend, copy, dirty>>
events == <<pending, listed>>
recoverVars == <<object, controller, events, pc, outcome>>

Names == {"orig", "dup", "other"}

(* CheckExternalNamePrefix *)
CheckExternalNamePrefix(name) == name \in {"orig", "dup"}

\* Seeded fault: only the prefix of the recovered name is judged.
JudgesPrefixOnly(after, createEvents) == CheckExternalNamePrefix(after)
(* buildResolveRecoverResult: both signals. *)
buildResolveRecoverResult(after, createEvents) == CheckExternalNamePrefix(after) /\ createEvents = 1

\* Seeded fault: the conditions are cleared after the resource is resumed.
ClearsLast == [pause |-> "strip", strip |-> "unpause", unpause |-> "clear", clear |-> "wait", wait |-> "judge"]
(* RunResolveRecover and waitForRecoveryReconcile: the order of the calls. *)
Then == [pause |-> "strip", strip |-> "clear", clear |-> "unpause", unpause |-> "wait", wait |-> "judge"]

\* Another writer makes the controller's copy stale.
Stale == IF copy = NoCopy THEN NoCopy ELSE [copy EXCEPT !.stale = TRUE]
\* A change of an annotation wakes the controller, a change of the status does not.
Annotated == copy' = Stale /\ dirty' = TRUE

RecoverInit ==
  /\ paused = FALSE /\ ext = "orig" /\ ready = TRUE /\ synced = TRUE /\ backend = {"orig"}
  /\ copy \in {NoCopy, [paused |-> FALSE, ext |-> "orig", stale |-> FALSE]} /\ dirty \in BOOLEAN
  /\ pending = 0 /\ listed = 1 /\ pc = "idle" /\ outcome = "none"

To(step) == pc' = step /\ UNCHANGED outcome
End(o) == pc' = "idle" /\ outcome' = o

\* Before anything is touched the resource must be there and have an external name.
ReadBefore ==
  /\ pc = "resolve"
  /\ IF ext = "" THEN End("error") ELSE To("pause")
  /\ UNCHANGED <<object, controller, events>>

Pause ==
  /\ pc = "pause" /\ To(Then.pause) /\ paused' = TRUE
  /\ IF paused THEN UNCHANGED <<copy, dirty>> ELSE Annotated
  /\ UNCHANGED <<ext, ready, synced, backend, events>>

Strip ==
  /\ pc = "strip" /\ To(Then.strip) /\ ext' = "" /\ Annotated
  /\ UNCHANGED <<paused, ready, synced, backend, events>>

ClearConditions ==
  /\ pc = "clear" /\ To(Then.clear) /\ ready' = FALSE /\ synced' = FALSE /\ copy' = Stale
  /\ UNCHANGED <<paused, ext, backend, dirty, events>>

Unpause ==
  /\ pc = "unpause" /\ To(Then.unpause) /\ paused' = FALSE /\ Annotated
  /\ UNCHANGED <<ext, ready, synced, backend, events>>

WaitReady ==
  /\ pc = "wait" /\ ready /\ To(Then.wait)
  /\ UNCHANGED <<object, controller, events>>

\* The external name is read, then the create events are counted, once.
Judge ==
  /\ pc = "judge" /\ UNCHANGED <<object, controller, events>>
  /\ End(IF buildResolveRecoverResult(ext, listed) THEN "passed" ELSE "failed")

\* Any call may fail, and the wait may run out: RunResolveRecover returns at once.
CallFails ==
  /\ pc \in {"resolve", "pause", "strip", "clear", "unpause", "wait", "judge"} /\ (pc = "wait" => ~ready)
  /\ End("error") /\ UNCHANGED <<object, controller, events>>

Runner == ReadBefore \/ Pause \/ Strip \/ ClearConditions \/ Unpause \/ WaitReady \/ Judge
-----------------------------------------------------------------------------
(* The controller. *)

Read ==
  /\ dirty /\ copy = NoCopy /\ dirty' = FALSE
  /\ copy' = [paused |-> paused, ext |-> ext, stale |-> FALSE]
  /\ UNCHANGED <<object, backend, events, pc, outcome>>

Working == copy # NoCopy
Fresh == Working /\ ~copy.stale
Done == copy' = NoCopy /\ UNCHANGED <<pc, outcome>>

\* A write with a stale copy is refused, and the reconcile is queued again.
Conflict == Working /\ copy.stale /\ Done /\ dirty' = TRUE /\ UNCHANGED <<object, backend, events>>

\* A paused resource is only marked as such.
Skip ==
  /\ Fresh /\ copy.paused /\ Done /\ synced' = FALSE
  /\ UNCHANGED <<paused, ext, ready, backend, dirty, events>>

\* Observe by reference.
Observe ==
  /\ Fresh /\ ~copy.paused /\ copy.ext # "" /\ (EventsLate \/ pending = 0) /\ Done
  /\ ready' = TRUE /\ synced' = TRUE
  /\ UNCHANGED <<paused, ext, backend, dirty, events>>

\* Observe by search: an object is found and its name stored ...
Find == \E n \in backend \cup {"other"} :
  /\ Fresh /\ ~copy.paused /\ copy.ext = "" /\ Done /\ ext' = n /\ dirty' = TRUE
  /\ UNCHANGED <<paused, ready, synced, backend, events>>

\* ... or none is, and a second one is created.
Create ==
  /\ Fresh /\ ~copy.paused /\ copy.ext = "" /\ Done /\ dirty' = TRUE
  /\ backend' = backend \cup {"dup"} /\ ext' = "dup"
  /\ pending' = pending + 1 /\ UNCHANGED <<paused, ready, synced, listed>>

\* The recorder's queue reaches the API server.
EventListed ==
  /\ pending > 0 /\ pending' = pending - 1 /\ listed' = listed + 1
  /\ UNCHANGED <<object, controller, pc, outcome>>

Controller == Read \/ Conflict \/ Skip \/ Observe \/ Find \/ Create
-----------------------------------------------------------------------------
Copies == [paused : BOOLEAN, ext : Names \cup {""}, stale : BOOLEAN]

\* Every variable has its type; a recovery at work has no outcome yet.
RecoverTypeOK ==
  /\ paused \in BOOLEAN /\ ext \in Names \cup {""} /\ ready \in BOOLEAN /\ synced \in BOOLEAN
  /\ backend \subseteq Names /\ copy \in {NoCopy} \cup Copies /\ dirty \in BOOLEAN
  /\ pending \in Nat /\ listed \in Nat
  /\ pc \in {"idle", "resolve", "pause", "strip", "clear", "unpause", "wait", "judge"}
  /\ outcome \in {"none", "error", "passed", "failed"} /\ (pc # "idle" => outcome = "none")

\* A check that passed left one object behind, the one it started with, and the
\* resource points to it.
PassedIsRecovered == outcome = "passed" /\ pc = "idle" => backend = {"orig"} /\ ext = "orig"

\* The recovery never depends on the provider's poll interval: the resumed resource
\* becomes Ready by the reconcile that the resuming itself triggers.
ReadyComes == (pc = "wait") ~> (pc # "wait")
=============================================================================
