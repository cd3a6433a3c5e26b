---------------------------- MODULE HandleProofs ----------------------------
(***************************************************************************)
(* Proofs about Handle, for any finite numbers of objects and variables.   *)
(* The heart is what releasing a handle deletes: a least set of objects,   *)
(* all of whose users go with it (DeletedUsers) and which takes in every   *)
(* object whose last user goes (DeletedClosed).                            *)
(***************************************************************************)
EXTENDS Handle, FiniteSetTheorems, WellFoundedInduction, TLAPS

HandleInv ==
  /\ built \subseteq Obj
  /\ count \in [Obj -> Nat]
  /\ bound \in [Handles -> Obj \cup {NULL}]
  /\ outcome \in {"ok", "use after delete"}
  /\ CountsHandles
  /\ \A o \in Obj \ built : bound[o] = NULL

\* The users of an object are finitely many, and fewer among fewer handles.
LEMMA UsersFinite ==
  ASSUME NEW S \in SUBSET Handles, NEW o
  PROVE  IsFiniteSet(Users(S, o)) /\ Cardinality(Users(S, o)) \in Nat
<1>1. IsFiniteSet(Handles)
  BY HandleAssumption DEF Handles
<1>2. Users(S, o) \in SUBSET Handles
  BY DEF Users
<1> QED BY <1>1, <1>2, FS_Subset, FS_CardinalityType

LEMMA UsersMonotone ==
  ASSUME NEW T \in SUBSET Handles, NEW S \in SUBSET T, NEW o
  PROVE  /\ Cardinality(Users(S, o)) <= Cardinality(Users(T, o))
         /\ Cardinality(Users(S, o)) = Cardinality(Users(T, o)) => Users(S, o) = Users(T, o)
<1>1. Users(S, o) \in SUBSET Users(T, o)
  BY DEF Users
<1> QED BY <1>1, UsersFinite, FS_Subset

-----------------------------------------------------------------------------
(***************************************************************************)
(* What is deleted                                                         *)
(***************************************************************************)

LEMMA DoomedMonotone ==
  ASSUME HandleInv, NEW h \in Handles,
         NEW T \in SUBSET built, NEW S \in SUBSET T
  PROVE  Doomed(h, S) \subseteq Doomed(h, T)
<1> SUFFICES ASSUME NEW o \in Doomed(h, S) PROVE o \in Doomed(h, T)
  OBVIOUS
<1>1. {h} \cup T \in SUBSET Handles /\ {h} \cup S \in SUBSET ({h} \cup T)
  BY DEF HandleInv, Handles
<1>2. {h} \cup S \in SUBSET Handles
  BY <1>1
<1>3. Cardinality(Users({h} \cup S, o)) <= Cardinality(Users({h} \cup T, o))
  BY <1>1, UsersMonotone
<1>4. /\ Cardinality(Users({h} \cup S, o)) \in Nat
      /\ Cardinality(Users({h} \cup T, o)) \in Nat
  BY <1>1, <1>2, UsersFinite
<1>5. o \in built /\ count[o] \in Nat /\ count[o] <= Cardinality(Users({h} \cup S, o))
  BY DEF Doomed, HandleInv
<1> QED BY <1>3, <1>4, <1>5 DEF Doomed

\* An object whose last users go is deleted.
LEMMA DeletedClosed ==
  ASSUME HandleInv, NEW h \in Handles
  PROVE  /\ Deleted(h) \subseteq built
         /\ Doomed(h, Deleted(h)) \subseteq Deleted(h)
<1>1. Deleted(h) \in SUBSET built
  BY DEF Deleted
<1> SUFFICES ASSUME NEW o \in Doomed(h, Deleted(h)),
                    NEW T \in SUBSET built, Doomed(h, T) \subseteq T
             PROVE  o \in T
  BY <1>1 DEF Deleted, Doomed
<1>2. Deleted(h) \in SUBSET T
  BY DEF Deleted
<1> QED BY <1>2, DoomedMonotone

\* ... and nothing else is: every user of a deleted object goes with it.
LEMMA DeletedUsers ==
  ASSUME HandleInv, NEW h \in Existing, NEW o \in Deleted(h)
  PROVE  Users(Existing, o) \subseteq Unbound(h)
<1> DEFINE D == Deleted(h)
           T == {d \in D : Users(Existing, d) \subseteq Unbound(h)}
<1>1. h \in Handles /\ Existing \in SUBSET Handles
  BY DEF Existing, Handles, HandleInv
<1>2. D \in SUBSET built /\ T \in SUBSET D /\ T \in SUBSET built
  BY <1>1, DeletedClosed
<1>3. ASSUME NEW d \in Doomed(h, T) PROVE d \in T
  <2>1. {h} \cup T \in SUBSET Existing /\ {h} \cup T \in SUBSET Handles
    BY <1>1, <1>2 DEF Existing
  <2>2. d \in Obj /\ count[d] <= Cardinality(Users({h} \cup T, d))
    BY DEF Doomed, HandleInv
  <2>3. count[d] = Cardinality(Users(Existing, d))
    BY <2>2 DEF HandleInv, CountsHandles
  <2>4. Cardinality(Users({h} \cup T, d)) <= Cardinality(Users(Existing, d))
    BY <1>1, <2>1, UsersMonotone
  <2>5. /\ Cardinality(Users({h} \cup T, d)) \in Nat
        /\ Cardinality(Users(Existing, d)) \in Nat
    BY <1>1, <2>1, UsersFinite
  <2>6. Cardinality(Users({h} \cup T, d)) = Cardinality(Users(Existing, d))
    BY <2>2, <2>3, <2>4, <2>5
  <2>7. Users({h} \cup T, d) = Users(Existing, d)
    BY <1>1, <2>1, <2>6, UsersMonotone
  <2>8. Users(Existing, d) \subseteq Unbound(h)
    BY <2>7, <1>2 DEF Users, Unbound
  <2>9. d \in D
    BY <1>1, <1>2, DoomedMonotone, DeletedClosed
  <2> QED BY <2>8, <2>9
<1>4. D \subseteq T
  BY <1>2, <1>3 DEF Deleted
<1> QED BY <1>4

\* What exists and is bound, is bound to an object that exists.
LEMMA BoundIsBuilt ==
  ASSUME HandleInv, NEW g \in Existing, bound[g] # NULL
  PROVE  bound[g] \in built
<1>1. Existing \in SUBSET Handles /\ bound[g] \in Obj
  BY DEF Existing, Handles, HandleInv
<1>2. g \in Users(Existing, bound[g])
  BY DEF Users
<1>3. Cardinality(Users(Existing, bound[g])) # 0
  BY <1>1, <1>2, UsersFinite, FS_EmptySet
<1>4. Cardinality(Users(Existing, bound[g])) \in Nat
  BY <1>1, UsersFinite
<1>5. \A o \in Obj : count[o] = Cardinality(Users(Existing, o)) /\ (count[o] > 0 <=> o \in built)
  BY DEF HandleInv, CountsHandles
<1>6. count[bound[g]] = Cardinality(Users(Existing, bound[g]))
  BY <1>1, <1>5
<1>7. count[bound[g]] > 0
  BY <1>3, <1>4, <1>6
<1> QED BY <1>1, <1>5, <1>7

\* A handle the program can name is not inside what its release deletes.
LEMMA NamedSurvives ==
  ASSUME HandleInv, NEW h \in Named
  PROVE  h \in Existing /\ h \in Handles /\ h \notin Deleted(h)
<1>1. h \in Existing /\ h \in Handles
  BY DEF Named, ReachedFrom, Existing, Handles, HandleInv
<1>2. CASE h \in Local
  BY <1>1, <1>2, HandleAssumption, DeletedClosed DEF HandleInv
<1>3. CASE h \notin Local
  <2> SUFFICES ASSUME h \in Deleted(h) PROVE FALSE
    BY <1>1
  <2> DEFINE T == ReachedFrom(Local) \ Deleted(h)
  <2>1. h \in ReachedFrom(Local)
    BY <1>3 DEF Named
  <2>2. T \in SUBSET built /\ Local \cup T \subseteq Existing
    BY DEF ReachedFrom, Existing
  <2>3. ASSUME NEW g \in Local \cup T, bound[g] # NULL
        PROVE  bound[g] \in built \ Deleted(h)
    <3>1. g \in Existing /\ bound[g] \in built
      BY <2>2, <2>3, BoundIsBuilt
    <3>2. g \notin Unbound(h)
      BY <1>3, HandleAssumption, <1>1, DeletedClosed DEF Unbound, HandleInv
    <3> QED BY <3>1, <3>2, <1>1, DeletedUsers DEF Users
  <2>4. Bound(Local) \subseteq T
    <3> SUFFICES ASSUME NEW g \in Local, bound[g] # NULL PROVE bound[g] \in T
      BY DEF Bound
    <3>1. bound[g] \in ReachedFrom(Local)
      BY <2>3 DEF ReachedFrom, Bound
    <3> QED BY <3>1, <2>3
  <2>5. Bound(T) \subseteq T
    <3> SUFFICES ASSUME NEW g \in T, bound[g] # NULL PROVE bound[g] \in T
      BY DEF Bound
    <3>1. bound[g] \in ReachedFrom(Local)
      BY <2>3 DEF ReachedFrom, Bound
    <3> QED BY <3>1, <2>3
  <2>6. h \in T
    BY <2>1, <2>2, <2>4, <2>5 DEF ReachedFrom
  <2> QED BY <2>6
<1> QED BY <1>1, <1>2, <1>3

-----------------------------------------------------------------------------
(***************************************************************************)
(* What remains                                                            *)
(***************************************************************************)

\* The handles that exist and are bound to o, once h is unbound
Remaining(h, o) == {g \in Existing \ Deleted(h) : BoundWithout(h)[g] = o}

\* After a release the counts are right again.
LEMMA ReleaseCounts ==
  ASSUME HandleInv, NEW h \in Named, NEW o \in Obj
  PROVE  /\ IsFiniteSet(Remaining(h, o))
         /\ CountWithout(h)[o] \in Nat
         /\ CountWithout(h)[o] = Cardinality(Remaining(h, o))
         /\ CountWithout(h)[o] > 0 <=> o \in built \ Deleted(h)
<1> DEFINE U == Users(Existing, o)
           V == Users(Unbound(h), o)
<1>1. h \in Existing /\ h \in Handles /\ Existing \in SUBSET Handles
  BY NamedSurvives DEF Existing, Handles, HandleInv
<1>2. Deleted(h) \in SUBSET built /\ Unbound(h) \in SUBSET Existing
  BY <1>1, DeletedClosed DEF Unbound, Existing
<1>3. Remaining(h, o) = U \ V
  <2>1. o # NULL
    BY HandleAssumption
  <2> QED BY <1>1, <1>2, <2>1 DEF Remaining, Users, BoundWithout, Unbound
<1>4. /\ IsFiniteSet(U) /\ Cardinality(U) \in Nat
      /\ IsFiniteSet(V) /\ Cardinality(V) \in Nat
      /\ U \cap V = V
  <2>1. Unbound(h) \in SUBSET Handles
    BY <1>1, <1>2
  <2>2. U \cap V = V
    BY <1>2 DEF Users
  <2> QED BY <1>1, <2>1, <2>2, UsersFinite
<1>5. /\ IsFiniteSet(U \ V)
      /\ Cardinality(U \ V) = Cardinality(U) - Cardinality(V)
      /\ Cardinality(U \ V) \in Nat
  BY <1>4, FS_Difference, FS_CardinalityType
<1>6. /\ count[o] = Cardinality(U)
      /\ CountWithout(h)[o] = count[o] - Cardinality(V)
      /\ count[o] > 0 <=> o \in built
  BY DEF HandleInv, CountsHandles, CountWithout
<1>7. CASE o \in built \ Deleted(h)
  <2>1. o \notin Doomed(h, Deleted(h))
    BY <1>1, <1>7, DeletedClosed
  <2>2. ~(count[o] <= Cardinality(V))
    BY <1>7, <2>1 DEF Doomed, Unbound
  <2> QED BY <1>3, <1>4, <1>5, <1>6, <1>7, <2>2
<1>8. CASE o \in Deleted(h)
  <2>1. U \subseteq Unbound(h)
    BY <1>1, <1>8, DeletedUsers
  <2>2. U \ V = {}
    BY <2>1 DEF Users
  <2>3. Cardinality(U \ V) = 0
    BY <2>2, FS_EmptySet
  <2> QED BY <1>3, <1>4, <1>5, <1>6, <1>8, <2>3
<1>9. CASE o \notin built
  <2>1. Cardinality(U) = 0
    BY <1>4, <1>6, <1>9
  <2> QED BY <1>2, <1>3, <1>4, <1>5, <1>6, <1>9, <2>1
<1> QED BY <1>2, <1>7, <1>8, <1>9

\* ... and so they are when h is bound to an object p afterwards.
LEMMA BindCounts ==
  ASSUME HandleInv, NEW h \in Named, NEW p \in Obj, NEW o \in Obj,
         NEW E \in SUBSET Handles, h \in E, Existing \ Deleted(h) \subseteq E,
         \A g \in E : g \notin Existing \ Deleted(h) => BoundWithout(h)[g] = NULL
  PROVE  LET b == [BoundWithout(h) EXCEPT ![h] = p]
         IN Cardinality({g \in E : b[g] = o})
              = CountWithout(h)[o] + IF o = p THEN 1 ELSE 0
<1> DEFINE b == [BoundWithout(h) EXCEPT ![h] = p]
           N == {g \in E : b[g] = o}
<1>1. h \in Handles /\ BoundWithout(h)[h] = NULL /\ o # NULL
  BY NamedSurvives, HandleAssumption DEF BoundWithout, Unbound
<1>2. h \notin Remaining(h, o)
  BY <1>1 DEF Remaining
<1>3. CASE o = p
  <2>1. N = Remaining(h, o) \cup {h}
    BY <1>1, <1>3 DEF Remaining, BoundWithout
  <2>2. Cardinality(N) = Cardinality(Remaining(h, o)) + 1
    BY <2>1, <1>2, ReleaseCounts, FS_AddElement
  <2> QED BY <1>3, <2>2, ReleaseCounts
<1>4. CASE o # p
  <2>1. N = Remaining(h, o)
    BY <1>1, <1>4 DEF Remaining, BoundWithout
  <2>2. CountWithout(h)[o] = Cardinality(N) /\ CountWithout(h)[o] \in Nat
    BY <2>1, ReleaseCounts
  <2> QED BY <1>4, <2>2
<1> QED BY <1>3, <1>4

-----------------------------------------------------------------------------
(***************************************************************************)
(* The theorems                                                            *)
(***************************************************************************)

LEMMA HandleInvInit == Init => HandleInv
<1> SUFFICES ASSUME Init PROVE HandleInv
  OBVIOUS
<1>1. ASSUME NEW o \in Obj PROVE Cardinality(Users(Existing, o)) = 0
  <2>1. Users(Existing, o) = {}
    BY HandleAssumption DEF Init, Users, Existing, Handles
  <2> QED BY <2>1, FS_EmptySet
<1> QED BY <1>1 DEF Init, HandleInv, CountsHandles, Handles

LEMMA SetNullKeepsInv ==
  ASSUME HandleInv, NEW h \in Handles, SetNull(h) PROVE HandleInv'
<1>1. h \in Named
  BY DEF SetNull
<1>2. Existing' = Existing \ Deleted(h)
  BY HandleAssumption, DeletedClosed DEF Existing, SetNull, HandleInv
<1>3. ASSUME NEW o \in Obj
      PROVE  /\ count'[o] = Cardinality(Users(Existing, o)')
             /\ count'[o] > 0 <=> o \in built'
             /\ count'[o] \in Nat
  <2>1. Users(Existing, o)' = Remaining(h, o)
    BY <1>2 DEF Users, Remaining, SetNull
  <2> QED BY <1>1, <2>1, ReleaseCounts DEF SetNull
<1>4. count' = [o \in Obj |-> count'[o]]
  BY DEF SetNull, CountWithout
<1>5. \A o \in Obj \ built' : bound'[o] = NULL
  BY DEF SetNull, BoundWithout, Unbound, HandleInv, Handles
<1> QED BY <1>3, <1>4, <1>5 DEF HandleInv, CountsHandles, SetNull, BoundWithout

LEMMA MakeKeepsInv ==
  ASSUME HandleInv, NEW h \in Handles, NEW p \in Obj, Make(h, p) PROVE HandleInv'
<1>1. h \in Named /\ p \notin built /\ h \in Existing /\ h \notin Deleted(h) /\ p \notin Deleted(h)
  BY NamedSurvives, DeletedClosed DEF Make
<1>2. Existing' = (Existing \ Deleted(h)) \cup {p} /\ Existing' \in SUBSET Handles
  BY HandleAssumption, DeletedClosed DEF Existing, Make, HandleInv, Handles
<1>3. BoundWithout(h)[p] = NULL
  BY <1>1 DEF HandleInv, BoundWithout, Handles
<1>4. ASSUME NEW o \in Obj
      PROVE  /\ count'[o] = Cardinality(Users(Existing, o)')
             /\ count'[o] > 0 <=> o \in built'
             /\ count'[o] \in Nat
  <2>1. Cardinality(Users(Existing, o)') = CountWithout(h)[o] + IF o = p THEN 1 ELSE 0
    BY <1>1, <1>2, <1>3, BindCounts DEF Users, Make
  <2>2. /\ CountWithout(h)[o] \in Nat
        /\ CountWithout(h)[o] > 0 <=> o \in built \ Deleted(h)
        /\ o = p => CountWithout(h)[o] = 0
    BY <1>1, ReleaseCounts
  <2>3. count'[o] = IF o = p THEN 1 ELSE CountWithout(h)[o]
    BY DEF Make, CountWithout
  <2> QED BY <2>1, <2>2, <2>3 DEF Make
<1>5. count' = [o \in Obj |-> count'[o]]
  BY DEF Make, CountWithout
<1>6. ASSUME NEW o \in Obj \ built' PROVE bound'[o] = NULL
  <2>1. o \notin built \ Deleted(h) /\ o # h
    BY <1>1, HandleAssumption DEF Make, Existing
  <2>2. BoundWithout(h)[o] = NULL
    BY <2>1 DEF BoundWithout, Unbound, HandleInv, Handles
  <2> QED BY <2>1, <2>2 DEF Make, BoundWithout
<1> QED BY <1>4, <1>5, <1>6 DEF HandleInv, CountsHandles, Make, BoundWithout

LEMMA AssignKeepsInv ==
  ASSUME HandleInv, NEW h \in Handles, NEW g \in Handles, Assign(h, g) PROVE HandleInv'
<1>1. CASE g \in Deleted(h)
  BY <1>1 DEF Assign, HandleInv, CountsHandles, Users, Existing
<1>2. CASE g \notin Deleted(h)
  <2> DEFINE p == BoundWithout(h)[g]
  <2>1. /\ h \in Named /\ h \in Existing /\ h \notin Deleted(h)
        /\ g \in Existing \ Deleted(h)
    BY <1>2, NamedSurvives DEF Assign
  <2>2. /\ Existing' = Existing \ Deleted(h) /\ Existing' \in SUBSET Handles
        /\ built' = built \ Deleted(h)
        /\ bound' = [BoundWithout(h) EXCEPT ![h] = p]
        /\ count' = [x \in Obj |-> CountWithout(h)[x] + IF x = p THEN 1 ELSE 0]
        /\ outcome' = outcome
    BY <1>2, HandleAssumption, DeletedClosed DEF Existing, Assign, HandleInv, Handles
  <2>3. p \in Obj \cup {NULL}
    BY DEF BoundWithout, HandleInv
  <2>4. ASSUME NEW o \in Obj
        PROVE  /\ count'[o] = Cardinality(Users(Existing, o)')
               /\ count'[o] > 0 <=> o \in built'
               /\ count'[o] \in Nat
    <3>1. /\ CountWithout(h)[o] \in Nat
          /\ CountWithout(h)[o] > 0 <=> o \in built \ Deleted(h)
          /\ CountWithout(h)[o] = Cardinality(Remaining(h, o))
          /\ IsFiniteSet(Remaining(h, o))
      BY <2>1, ReleaseCounts
    <3>2. CASE p = NULL
      <4>1. bound' = BoundWithout(h) /\ o # NULL
        BY <2>2, <3>2, HandleAssumption DEF BoundWithout, Unbound
      <4>2. Users(Existing, o)' = Remaining(h, o)
        BY <2>2, <4>1 DEF Users, Remaining
      <4> QED BY <2>2, <3>1, <3>2, <4>1, <4>2
    <3>3. CASE p # NULL
      <4>1. p \in Obj
        BY <2>3, <3>3
      <4>2. Cardinality(Users(Existing, o)') = CountWithout(h)[o] + IF o = p THEN 1 ELSE 0
        BY <2>1, <2>2, <4>1, BindCounts DEF Users
      <4>3. o = p => CountWithout(h)[o] > 0
        <5>1. SUFFICES ASSUME o = p PROVE CountWithout(h)[o] > 0
          OBVIOUS
        <5>2. g \in Remaining(h, o)
          BY <2>1, <5>1 DEF Remaining
        <5>3. Cardinality(Remaining(h, o)) # 0
          BY <3>1, <5>2, FS_EmptySet
        <5> QED BY <3>1, <5>3
      <4> QED BY <2>2, <3>1, <4>2, <4>3
    <3> QED BY <3>2, <3>3
  <2>5. ASSUME NEW o \in Obj \ built' PROVE bound'[o] = NULL
    <3>1. o \notin built \ Deleted(h) /\ o # h
      BY <2>1, <2>2, HandleAssumption DEF Existing
    <3>2. BoundWithout(h)[o] = NULL
      BY <3>1 DEF BoundWithout, Unbound, HandleInv, Handles
    <3> QED BY <2>2, <3>1, <3>2 DEF BoundWithout
  <2>6. bound' \in [Handles -> Obj \cup {NULL}]
    BY <2>2, <2>3 DEF BoundWithout, HandleInv
  <2>7. count' \in [Obj -> Nat]
    BY <2>2, <2>4
  <2> QED BY <2>2, <2>4, <2>5, <2>6, <2>7 DEF HandleInv, CountsHandles
<1> QED BY <1>1, <1>2

\* HandleInv is an invariant of the reference counts.
THEOREM HandleInvariant == Spec => []HandleInv
<1>1. HandleInv /\ [Next]_vars => HandleInv'
  <2> SUFFICES ASSUME HandleInv, [Next]_vars PROVE HandleInv'
    OBVIOUS
  <2>1. ASSUME NEW h \in Handles, SetNull(h) PROVE HandleInv'
    BY <2>1, SetNullKeepsInv
  <2>2. ASSUME NEW h \in Handles, NEW o \in Obj, Make(h, o) PROVE HandleInv'
    BY <2>2, MakeKeepsInv
  <2>3. ASSUME NEW h \in Handles, NEW g \in Handles, Assign(h, g) PROVE HandleInv'
    BY <2>3, AssignKeepsInv
  <2>4. CASE UNCHANGED vars
    BY <2>4 DEF vars, HandleInv, CountsHandles, Users, Existing
  <2> QED BY <2>1, <2>2, <2>3, <2>4 DEF Next
<1> QED BY <1>1, HandleInvInit, PTL DEF Spec

\* The variables keep their types: a count is never more than the handles
\* there are, and an unsigned count never passes zero (handle.hh:72-83).
THEOREM HandleTypeCorrect == Spec => []TypeOK
<1>1. ASSUME HandleInv, NEW o \in Obj
      PROVE  count[o] \in 0 .. Cardinality(Handles)
  <2>1. Existing \in SUBSET Handles /\ IsFiniteSet(Handles)
    BY <1>1, HandleAssumption DEF Existing, Handles, HandleInv
  <2>2. Users(Existing, o) \in SUBSET Handles
    BY <2>1 DEF Users
  <2>3. Cardinality(Users(Existing, o)) <= Cardinality(Handles)
    BY <2>1, <2>2, FS_Subset
  <2>4. Cardinality(Handles) \in Nat /\ count[o] \in Nat
    BY <1>1, <2>1, FS_CardinalityType DEF HandleInv
  <2>5. count[o] = Cardinality(Users(Existing, o))
    BY <1>1 DEF HandleInv, CountsHandles
  <2> QED BY <2>3, <2>4, <2>5
<1>2. HandleInv => TypeOK
  BY <1>1 DEF HandleInv, TypeOK
<1> QED BY <1>2, HandleInvariant, PTL

\* The count of an object is always the number of handles bound to it, and the
\* object exists exactly as long as there is one (handle.hh:41-44, 155-160).
THEOREM AlwaysCountsHandles == Spec => []CountsHandles
<1>1. HandleInv => CountsHandles
  BY DEF HandleInv
<1> QED BY <1>1, HandleInvariant, PTL

\* No handle that exists is ever bound to a deleted object (handle.hh:124-128).
THEOREM BoundAlwaysBuilt == Spec => []BoundAreBuilt
<1>1. HandleInv => BoundAreBuilt
  BY BoundIsBuilt DEF BoundAreBuilt
<1> QED BY <1>1, HandleInvariant, PTL

-----------------------------------------------------------------------------
(***************************************************************************)
(* What leaks                                                              *)
(***************************************************************************)

\* What handles lead to is closed.
LEMMA ReachedClosed ==
  ASSUME HandleInv, NEW S \in SUBSET Existing
  PROVE  /\ ReachedFrom(S) \subseteq built
         /\ Bound(S) \subseteq ReachedFrom(S)
         /\ Bound(ReachedFrom(S)) \subseteq ReachedFrom(S)
<1>1. ReachedFrom(S) \subseteq built /\ ReachedFrom(S) \subseteq Existing
  BY DEF ReachedFrom, Existing
<1>2. ASSUME NEW g \in S, bound[g] # NULL PROVE bound[g] \in ReachedFrom(S)
  BY <1>2, BoundIsBuilt DEF ReachedFrom, Bound
<1>3. ASSUME NEW g \in ReachedFrom(S), bound[g] # NULL PROVE bound[g] \in ReachedFrom(S)
  <2>1. bound[g] \in built
    BY <1>1, <1>3, BoundIsBuilt
  <2>2. ASSUME NEW T \in SUBSET built, Bound(S) \subseteq T, Bound(T) \subseteq T
        PROVE  bound[g] \in T
    BY <1>3, <2>2 DEF ReachedFrom, Bound
  <2> QED BY <2>1, <2>2 DEF ReachedFrom
<1> QED BY <1>1, <1>2, <1>3 DEF Bound

\* What is reached from what is reached is reached.
LEMMA ReachedOn ==
  ASSUME HandleInv, NEW S \in SUBSET Existing, NEW r \in ReachedFrom(S)
  PROVE  r \in built /\ ReachedFrom({r}) \subseteq ReachedFrom(S)
<1>1. /\ ReachedFrom(S) \subseteq built
      /\ Bound(ReachedFrom(S)) \subseteq ReachedFrom(S)
  BY ReachedClosed
<1>2. Bound({r}) \subseteq ReachedFrom(S)
  BY <1>1 DEF Bound
<1> QED BY <1>1, <1>2 DEF ReachedFrom

\* Whatever exists is held: by a variable, or by an object.
LEMMA BuiltHasUser ==
  ASSUME HandleInv, NEW o \in built
  PROVE  \E g \in Existing : bound[g] = o /\ o # NULL
<1>1. o \in Obj /\ o # NULL
  BY HandleAssumption DEF HandleInv
<1>2. count[o] > 0 /\ count[o] = Cardinality(Users(Existing, o))
  BY <1>1 DEF HandleInv, CountsHandles
<1>3. Users(Existing, o) # {}
  BY <1>2, FS_EmptySet
<1> QED BY <1>1, <1>3 DEF Users

\* A set of numbers has a least one.
LEMMA LeastNumber ==
  ASSUME NEW T \in SUBSET Nat, T # {}
  PROVE  \E n \in T : \A m \in T : ~(m < n)
<1> DEFINE R == {ss \in Nat \X Nat : ss[1] < ss[2]}
<1>1. IsWellFoundedOn(R, Nat)
  BY NatLessThanWellFounded DEF OpToRel
<1>2. \E n \in T : \A m \in T : ~(<<m, n>> \in R)
  BY <1>1, WFMin, Zenon
<1> QED BY <1>2

\* Going back from user to user one stays among finitely many objects, so one
\* comes round: what leaks hangs from a ring.
LEMMA LeaksHangFromRings ==
  ASSUME HandleInv, NEW o \in built \ ReachedFrom(Local)
  PROVE  \E r \in built : r \in ReachedFrom({r}) /\ o \in ReachedFrom({r})
<1> DEFINE L       == built \ ReachedFrom(Local)
           Back(x) == {y \in built : x \in ReachedFrom({y})}
           A       == {x \in L : o \in ReachedFrom({x})}
<1> SUFFICES ASSUME \A r \in built : o \in ReachedFrom({r}) => r \notin ReachedFrom({r})
             PROVE  FALSE
  OBVIOUS
<1>1. \A x \in built : {x} \in SUBSET Existing
  BY DEF Existing
<1>2. Local \in SUBSET Existing
  BY DEF Existing
<1>3. ASSUME NEW x \in L PROVE \E g \in L : x \in ReachedFrom({g})
  <2>1. PICK g \in Existing : bound[g] = x /\ x # NULL
    BY BuiltHasUser
  <2>2. g \notin Local
    BY <1>2, <2>1, ReachedClosed DEF Bound
  <2>3. g \in built
    BY <2>2 DEF Existing
  <2>4. g \notin ReachedFrom(Local)
    BY <1>2, <2>1, ReachedClosed DEF Bound
  <2>5. x \in ReachedFrom({g})
    BY <1>1, <2>1, <2>3, ReachedClosed DEF Bound
  <2> QED BY <2>3, <2>4, <2>5
<1>4. \A x \in built : IsFiniteSet(Back(x)) /\ Cardinality(Back(x)) \in Nat
  <2>1. IsFiniteSet(Obj \cup Local) /\ \A x : Back(x) \in SUBSET (Obj \cup Local)
    BY HandleAssumption DEF HandleInv
  <2> HIDE DEF Back
  <2> QED BY <2>1, FS_Subset, FS_CardinalityType
<1>5. ASSUME NEW x \in A
      PROVE  \E g \in A : Cardinality(Back(g)) < Cardinality(Back(x))
  <2>1. PICK g \in L : x \in ReachedFrom({g})
    BY <1>3
  <2>2. o \in ReachedFrom({g})
    BY <1>1, <2>1, ReachedOn
  <2>3. g \in Back(x) /\ g \notin Back(g)
    BY <2>1, <2>2
  <2>4. Back(g) \subseteq Back(x)
    BY <1>1, <2>1, ReachedOn
  <2>5. IsFiniteSet(Back(x)) /\ Cardinality(Back(x)) \in Nat /\ Cardinality(Back(g)) \in Nat
    BY <1>4
  <2>6. g \in A
    BY <2>1, <2>2
  <2>7. Back(g) \in SUBSET Back(x) /\ Back(g) # Back(x)
    BY <2>3, <2>4, Zenon
  <2> HIDE DEF Back
  <2>8. Cardinality(Back(g)) <= Cardinality(Back(x)) /\ Cardinality(Back(g)) # Cardinality(Back(x))
    BY <2>5, <2>7, FS_Subset
  <2>9. Cardinality(Back(g)) < Cardinality(Back(x))
    BY <2>5, <2>8
  <2> HIDE DEF A
  <2> QED BY <2>6, <2>9
<1>6. A # {}
  <2>1. PICK g \in L : o \in ReachedFrom({g})
    BY <1>3
  <2> QED BY <2>1
<1> HIDE DEF Back
<1>7. A \subseteq built
  OBVIOUS
<1> HIDE DEF A
<1> DEFINE T == {Cardinality(Back(x)) : x \in A}
<1>8. T \in SUBSET Nat /\ T # {}
  BY <1>4, <1>6, <1>7
<1>9. PICK n \in T : \A m \in T : ~(m < n)
  <2> HIDE DEF T
  <2> QED BY <1>8, LeastNumber
<1>10. PICK x \in A : n = Cardinality(Back(x))
  BY <1>9
<1>11. PICK g \in A : Cardinality(Back(g)) < Cardinality(Back(x))
  BY <1>5, <1>10
<1> QED BY <1>9, <1>10, <1>11

\* OnlyRingsLeak: what no variable leads to any more has been deleted, unless
\* it hangs from a ring of handles inside objects.
THEOREM AlwaysOnlyRingsLeak == Spec => []OnlyRingsLeak
<1>1. HandleInv => OnlyRingsLeak
  BY LeaksHangFromRings DEF OnlyRingsLeak
<1> QED BY <1>1, HandleInvariant, PTL

=============================================================================
