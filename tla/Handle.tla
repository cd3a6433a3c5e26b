------------------------------- MODULE Handle -------------------------------
(***************************************************************************)
(* Reference counts (src/src/handle.hh): an object of a class shared counts*)
(* the handles bound to it and is deleted by the one that leaves last.     *)
(* Every object here has one handle as a member, so that deleting one      *)
(* object can release the next.  The handle of an object is named by the   *)
(* object itself.                                                          *)
(***************************************************************************)
EXTENDS Naturals, FiniteSets

CONSTANTS Obj,   \* objects of a class derived from shared
          Local, \* handles that are variables of the program
          NULL   \* the null pointer

ASSUME HandleAssumption == Obj \cap Local = {} /\ NULL \notin Obj /\ IsFiniteSet(Obj \cup Local)

VARIABLES built,  \* objects constructed and not deleted
          count,  \* shared::_sharedCount
          bound,  \* handle::_obj
          outcome \* "ok", or what made the program undefined

vars == <<built, count, bound, outcome>>

Handles == Local \cup Obj

\* The handles that exist.
Existing == Local \cup built

TypeOK ==
  /\ built \subseteq Obj
  /\ count \in [Obj -> 0 .. Cardinality(Handles)]
  /\ bound \in [Handles -> Obj \cup {NULL}]
  /\ outcome \in {"ok", "use after delete"}

Init ==
  /\ built = {}
  /\ count = [o \in Obj |-> 0]
  /\ bound = [h \in Handles |-> NULL]
  /\ outcome = "ok"

-----------------------------------------------------------------------------
Bound(S) == {bound[h] : h \in S} \ {NULL}

\* What the handles S lead to, through the handles inside objects: the least
\* set that holds the objects of S and is closed.
ReachedFrom(S) ==
  {o \in built : \A T \in SUBSET built : Bound(S) \subseteq T /\ Bound(T) \subseteq T => o \in T}

\* The handles a program can name: its variables, and what operator-> leads to.
Named == Local \cup ReachedFrom(Local)

\* Mutant: what a deleted object was the last user of is not deleted.
DeletedFirst(h) == {o \in Bound({h}) : count[o] = 1}

\* The handles of H that are bound to o
Users(H, o) == {g \in H : bound[g] = o}

\* What is deleted when h is unbound: the least set that holds every object
\* all of whose users are h and the handles inside deleted objects.
Doomed(h, T) == {o \in built : count[o] <= Cardinality(Users({h} \cup T, o))}

Deleted(h) ==
  {o \in built : \A T \in SUBSET built : Doomed(h, T) \subseteq T => o \in T}

\* The handles that are unbound when h is.
Unbound(h) == {h} \cup Deleted(h)

\* What remains: the counts and the bindings, before h is bound again.
CountWithout(h) == [o \in Obj |-> count[o] - Cardinality(Users(Unbound(h), o))]
BoundWithout(h) == [g \in Handles |-> IF g \in Unbound(h) THEN NULL ELSE bound[g]]

\* Mutant: setNull without unget_ref.
SetNullCounted(h) ==
  /\ outcome = "ok" /\ h \in Named
  /\ bound' = [bound EXCEPT ![h] = NULL]
  /\ UNCHANGED <<built, count, outcome>>

\* setNull, or the end of a variable's scope
SetNull(h) ==
  /\ outcome = "ok" /\ h \in Named
  /\ built' = built \ Deleted(h)
  /\ count' = CountWithout(h)
  /\ bound' = BoundWithout(h)
  /\ UNCHANGED outcome

\* A new object, given to h: `handle<T> h( new T )' or `h = new T'.
Make(h, o) ==
  /\ outcome = "ok" /\ h \in Named
  /\ o \in Obj \ built
  /\ built' = (built \ Deleted(h)) \cup {o}
  /\ count' = [CountWithout(h) EXCEPT ![o] = 1]
  /\ bound' = [BoundWithout(h) EXCEPT ![h] = o]
  /\ UNCHANGED outcome

\* h = g.  operator= unbinds h before it reads g, which may be a handle inside
\* an object that is deleted by then, or h itself.
Assign(h, g) ==
  /\ outcome = "ok" /\ {h, g} \subseteq Named
  /\ \/ g \in Deleted(h) /\ outcome' = "use after delete" /\ UNCHANGED <<built, count, bound>>
     \/ /\ g \notin Deleted(h)
        /\ LET o == BoundWithout(h)[g]
           IN /\ bound' = [BoundWithout(h) EXCEPT ![h] = o]
              /\ count' = [x \in Obj |-> CountWithout(h)[x] + IF x = o THEN 1 ELSE 0]
        /\ built' = built \ Deleted(h)
        /\ UNCHANGED outcome

Next ==
  \/ \E h \in Handles : SetNull(h)
  \/ \E h \in Handles, o \in Obj : Make(h, o)
  \/ \E h, g \in Handles : Assign(h, g)

Spec == Init /\ [][Next]_vars

-----------------------------------------------------------------------------
\* _sharedCount is the number of handles bound to the object, whatever was
\* deleted on the way (handle.hh:41-42); an object exists as long as some
\* handle is bound to it, and no longer.
CountsHandles ==
  \A o \in Obj :
    /\ count[o] = Cardinality(Users(Existing, o))
    /\ count[o] > 0 <=> o \in built

\* No handle that exists is bound to a deleted object: operator-> is safe
\* whenever its assertion holds (handle.hh:124-128).
BoundAreBuilt == \A h \in Existing : bound[h] \in built \cup {NULL}

\* What no variable leads to any more has been deleted, unless it hangs from
\* a ring of handles inside objects.
OnlyRingsLeak ==
  \A o \in built \ ReachedFrom(Local) :
    \E r \in built : r \in ReachedFrom({r}) /\ o \in ReachedFrom({r})

\* When the count is zero it is safe to destroy the object, as no handles are
\* using it (handle.hh:42-44): the handle assigned from is not inside it.
DestroyIsSafe == outcome # "use after delete"

=============================================================================
