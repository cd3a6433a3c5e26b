-------------------------- MODULE CoroutineProofs --------------------------
(***************************************************************************)
(* Proofs about Coroutine, for any finite or infinite set of coroutines.   *)
(* The inductive invariant CoInv is the conjunction of the properties of   *)
(* that module: the pointers agree, chains end, the dead are in no chain,  *)
(* and the running coroutine is last in its chain.  Each needs the others: *)
(* call keeps chains ending only because its caller is a leaf, and the     *)
(* coroutine entered is alive only because attached ones are.              *)
(*                                                                         *)
(* The second half shows that the pointers implement CallChains.  Threads  *)
(* are the chains as sequences; that everybody is in one (Threaded) is the *)
(* invariant to add.                                                       *)
(***************************************************************************)
EXTENDS MCCoroutine, FiniteSetTheorems, SequenceTheorems, WellFoundedInduction,
        TLAPS

\* main_component has no body to return from.
MainRuns == ~terminated[Main]

CoInv ==
  /\ CoTypeOK
  /\ LinksAgree
  /\ ChainsEnd
  /\ DeadIsDetached
  /\ CurrentIsLeaf
  /\ MainRuns

-----------------------------------------------------------------------------
(***************************************************************************)
(* Following pointers                                                      *)
(***************************************************************************)

\* What following _callee from c reaches is closed under _callee.
LEMMA ReachClosed ==
  ASSUME NEW next \in [All -> All \cup {NULL}], NEW c \in All
  PROVE  /\ c \in Reach(next, c)
         /\ Closed(next, Reach(next, c))
BY DEF Reach, Closed

\* ... and is the least such set that holds c.
LEMMA ReachLeast ==
  ASSUME NEW next, NEW c \in All, NEW S \in SUBSET All,
         c \in S, Closed(next, S)
  PROVE  Reach(next, c) \subseteq S
BY DEF Reach

\* Whoever is reached, and is not where we started, is the callee of somebody.
LEMMA ReachedIsCallee ==
  ASSUME NEW next \in [All -> All \cup {NULL}], NEW c \in All,
         NEW d \in Reach(next, c), d # c
  PROVE  \E e \in All : next[e] = d
<1> SUFFICES ASSUME \A e \in All : next[e] # d PROVE FALSE
  OBVIOUS
<1> DEFINE S == Reach(next, c) \ {d}
<1>1. S \in SUBSET All
  BY DEF Reach
<1>2. c \in S /\ Closed(next, S)
  BY ReachClosed DEF Closed, Reach
<1>3. Reach(next, c) \subseteq S
  BY <1>1, <1>2, ReachLeast
<1> QED BY <1>3

\* Where chains end, the loop over _callee ends.
LEMMA LeafExists ==
  ASSUME CoTypeOK, ChainsEnd, NEW c \in All
  PROVE  Leaves(callee, c) # {}
<1>1. Reach(callee, c) \in SUBSET All
  BY DEF Reach
<1>2. \E d \in Reach(callee, c) : callee[d] = NULL
  BY <1>1, ReachClosed DEF ChainsEnd, CoTypeOK
<1> QED BY <1>2 DEF Leaves

\* The end of the chain of a living root is alive.
LEMMA LeafIsAlive ==
  ASSUME CoInv, NEW c \in alive \cup {Main}, ~terminated[c],
         NEW d \in Leaves(callee, c)
  PROVE  d \in alive \cup {Main} /\ ~terminated[d] /\ callee[d] = NULL
<1>0. c \in All /\ d \in All /\ d \in Reach(callee, c) /\ callee[d] = NULL
  BY DEF CoInv, CoTypeOK, All, Leaves, Reach
<1>1. CASE d = c
  BY <1>0, <1>1
<1>2. CASE d # c
  <2>1. PICK e \in All : callee[e] = d
    BY <1>0, <1>2, ReachedIsCallee DEF CoInv, CoTypeOK
  <2>2. caller[d] = e /\ e # NULL
    BY <1>0, <2>1, NullAssumption DEF CoInv, LinksAgree, All
  <2> QED BY <1>0, <2>2 DEF CoInv, DeadIsDetached, All
<1> QED BY <1>1, <1>2

-----------------------------------------------------------------------------
(***************************************************************************)
(* The invariant is kept by every operation.                               *)
(***************************************************************************)

\* A program starts with its main coroutine and no other.
LEMMA CoInitInv == CoInit => CoInv
<1> SUFFICES ASSUME CoInit PROVE CoInv
  OBVIOUS
<1> USE MainAssumption, NullAssumption DEF CoInit, All
<1>1. CoTypeOK /\ LinksAgree /\ DeadIsDetached /\ CurrentIsLeaf /\ MainRuns
  BY DEF CoTypeOK, LinksAgree, DeadIsDetached, CurrentIsLeaf, MainRuns
<1>2. ChainsEnd
  BY DEF ChainsEnd
<1> QED BY <1>1, <1>2 DEF CoInv

\* A state in which only outcome changed.
LEMMA CoStutterInv ==
  ASSUME CoInv, UNCHANGED <<alive, terminated, links, current>>
  PROVE  CoInv'
BY DEF CoInv, CoTypeOK, LinksAgree, ChainsEnd, Closed, DeadIsDetached,
       CurrentIsLeaf, MainRuns, links

\* The constructor.
LEMMA NewInv ==
  ASSUME CoInv, NEW c \in Coroutine, New(c)
  PROVE  CoInv'
<1> USE MainAssumption, NullAssumption DEF New, links, All, CoInv
<1>1. CoTypeOK'
  BY DEF CoTypeOK
<1>2. LinksAgree' /\ ChainsEnd'
  BY DEF LinksAgree, ChainsEnd, Closed
<1>3. DeadIsDetached' /\ CurrentIsLeaf' /\ MainRuns'
  BY DEF CoTypeOK, DeadIsDetached, CurrentIsLeaf, MainRuns
<1> QED BY <1>1, <1>2, <1>3

\* The destructor.
LEMMA DestroyInv ==
  ASSUME CoInv, NEW c \in Coroutine, Destroy(c)
  PROVE  CoInv'
<1> USE MainAssumption, NullAssumption DEF Destroy, links, All
<1>1. CASE Halt("delete linked")
  BY <1>1, CoStutterInv DEF Halt
<1>2. CASE caller[c] = NULL /\ callee[c] = NULL /\ alive' = alive \ {c}
           /\ UNCHANGED <<links, current, outcome>>
  <2> USE <1>2 DEF CoInv
  <2>1. CoTypeOK'
    BY DEF CoTypeOK
  <2>2. LinksAgree' /\ ChainsEnd'
    BY DEF LinksAgree, ChainsEnd, Closed
  <2>3. DeadIsDetached' /\ CurrentIsLeaf' /\ MainRuns'
    BY DEF CoTypeOK, DeadIsDetached, CurrentIsLeaf, MainRuns
  <2> QED BY <2>1, <2>2, <2>3
<1> QED BY <1>1, <1>2

\* Entering the end of the chain of a living root: resume, and detach of a
\* coroutine that nobody called.
LEMMA EnterLeafInv ==
  ASSUME CoInv, NEW c \in alive \cup {Main}, ~terminated[c], EnterLeaf(c),
         UNCHANGED terminated
  PROVE  CoInv'
<1>1. CASE \E why : Halt(why)
  BY <1>1, CoStutterInv DEF Halt
<1>2. CASE \E d \in Leaves(callee, c) : current' = d /\ UNCHANGED <<alive, outcome, links>>
  <2>1. PICK d \in Leaves(callee, c) : current' = d /\ UNCHANGED <<alive, outcome, links>>
    BY <1>2
  <2>2. d \in alive \cup {Main} /\ ~terminated[d] /\ callee[d] = NULL
    BY LeafIsAlive
  <2>3. CurrentIsLeaf'
    BY <2>1, <2>2 DEF CurrentIsLeaf, links
  <2>4. (CoTypeOK /\ LinksAgree /\ ChainsEnd /\ DeadIsDetached /\ MainRuns)'
    BY <2>1, <2>2 DEF CoInv, CoTypeOK, LinksAgree, ChainsEnd, Closed, DeadIsDetached,
                      MainRuns, links, All
  <2> QED BY <2>3, <2>4 DEF CoInv
<1> QED BY <1>1, <1>2 DEF EnterLeaf, Enter

\* resume.
LEMMA ResumeInv ==
  ASSUME CoInv, NEW c \in alive, Resume(c)
  PROVE  CoInv'
<1>1. CASE EnterLeaf(c) /\ ~terminated[c]
  BY <1>1, EnterLeafInv DEF Resume
<1>2. CASE UNCHANGED <<alive, terminated, links, current>>
  BY <1>2, CoStutterInv
<1> QED BY <1>1, <1>2 DEF Resume, Halt, coVars, links

\* call: the leaf that is entered shows that the chain that now starts at
\* the caller still ends.
LEMMA CallInv ==
  ASSUME CoInv, NEW c \in alive, Call(c)
  PROVE  CoInv'
<1>1. CASE \E why : Halt(why)
  BY <1>1, CoStutterInv DEF Halt, Call
<1> DEFINE linked == [callee EXCEPT ![current] = c]
<1>2. ASSUME ~terminated[c], caller[c] = NULL,
             NEW d \in Leaves(linked, c) \ {current},
             current' = d, alive' = alive, callee' = linked,
             caller' = [caller EXCEPT ![c] = current]
      PROVE  CoInv'
  <2> USE MainAssumption, NullAssumption DEF All
  <2>1. /\ c \in All /\ d \in All /\ current \in All
        /\ d \in Reach(linked, c) /\ linked[d] = NULL
        /\ linked \in [All -> All \cup {NULL}]
        /\ c # NULL /\ terminated' = terminated
    BY <1>2 DEF CoInv, CoTypeOK, Leaves, Reach, Call
  <2>2. callee[current] = NULL /\ linked[current] = c
    BY <2>1 DEF CoInv, CoTypeOK, CurrentIsLeaf
  <2>3. CoTypeOK'
    BY <1>2, <2>1 DEF CoInv, CoTypeOK, Call
  <2>4. LinksAgree'
    BY <1>2, <2>1, <2>2 DEF CoInv, CoTypeOK, LinksAgree
  <2>5. ChainsEnd'
    <3> SUFFICES ASSUME NEW S \in SUBSET All, S # {}, Closed(linked, S)
                 PROVE  \E e \in S : linked[e] = NULL
      BY <1>2 DEF ChainsEnd, Closed
    <3>1. CASE current \in S
      <4>1. c \in S
        BY <2>1, <2>2, <3>1 DEF Closed
      <4>2. d \in S
        BY <2>1, <4>1, ReachLeast
      <4> QED BY <2>1, <4>2
    <3>2. CASE current \notin S
      <4>1. Closed(callee, S)
        BY <3>2 DEF Closed, CoInv, CoTypeOK
      <4>2. PICK e \in S : callee[e] = NULL
        BY <4>1 DEF CoInv, ChainsEnd
      <4> QED BY <3>2, <4>2 DEF CoInv, CoTypeOK
    <3> QED BY <3>1, <3>2
  <2>6. DeadIsDetached' /\ MainRuns'
    <3>1. DeadIsDetached'
      <4> SUFFICES ASSUME NEW e \in All, terminated[e] \/ e \in Coroutine \ alive
                   PROVE  linked[e] = NULL /\ [caller EXCEPT ![c] = current][e] = NULL
        BY <1>2, <2>1 DEF DeadIsDetached
      <4>1. e # current /\ e # c
        BY <1>2 DEF CoInv, CurrentIsLeaf
      <4> QED BY <4>1 DEF CoInv, CoTypeOK, DeadIsDetached
    <3> QED BY <2>1, <3>1 DEF CoInv, MainRuns
  <2>7. d \in alive \cup {Main} /\ ~terminated[d]
    <3>1. CASE d = c
      BY <1>2, <3>1
    <3>2. CASE d # c
      <4>1. PICK e \in All : linked[e] = d
        <5> HIDE DEF linked
        <5> QED BY <2>1, <3>2, ReachedIsCallee
      <4>2. callee[e] = d
        BY <2>1, <2>2, <3>2, <4>1 DEF CoInv, CoTypeOK
      <4> QED BY <2>1, <4>1, <4>2 DEF CoInv, LinksAgree, DeadIsDetached
    <3> QED BY <3>1, <3>2
  <2>8. CurrentIsLeaf'
    BY <1>2, <2>1, <2>7 DEF CurrentIsLeaf, Call
  <2> QED BY <2>3, <2>4, <2>5, <2>6, <2>8 DEF CoInv
<1>3. CASE \E d \in Leaves(linked, c) \ {current} :
             /\ ~terminated[c] /\ caller[c] = NULL
             /\ current' = d /\ alive' = alive /\ callee' = linked
             /\ caller' = [caller EXCEPT ![c] = current]
  BY <1>2, <1>3
<1> QED BY <1>1, <1>3 DEF Call, Enter

\* A coroutine that nobody called finds the end of another chain when it
\* detaches: nobody in the chain of Main is without a caller but Main.
LEMMA FindsAnother == CoInv => DetachFindsAnother
<1> SUFFICES ASSUME CoInv, caller[current] = NULL, current # Main
             PROVE  \E d \in Leaves(callee, Main) : d # current
  BY DEF DetachFindsAnother
<1> USE NullAssumption DEF All
<1>1. PICK d \in Leaves(callee, Main) : TRUE
  BY LeafExists DEF CoInv
<1>2. d \in Reach(callee, Main) /\ d \in All
  BY DEF Leaves, Reach
<1>3. d # current
  <2> SUFFICES ASSUME d = current PROVE FALSE
    OBVIOUS
  <2>1. PICK e \in All : callee[e] = d
    BY <1>2, ReachedIsCallee DEF CoInv, CoTypeOK
  <2> QED BY <1>2, <2>1 DEF CoInv, LinksAgree
<1> QED BY <1>3

\* detach of the running coroutine, whether it goes on later or has just
\* returned from main (then the flag was set first).
LEMMA LeaveInv ==
  ASSUME CoInv, NEW c \in alive, current = c, Leave(c),
         NEW flag \in BOOLEAN, terminated' = [terminated EXCEPT ![c] = flag],
         flag => c # Main
  PROVE  CoInv'
<1> USE MainAssumption, NullAssumption DEF All
<1>0. c \in Coroutine /\ c \in All /\ c # Main
  BY DEF CoInv, CoTypeOK
<1>1. CASE caller[c] # NULL
  <2> DEFINE n == caller[c]
  <2>1. n \in All /\ callee[n] = c /\ callee[c] = NULL /\ n # c /\ c # NULL
    BY <1>0, <1>1 DEF CoInv, CoTypeOK, LinksAgree, CurrentIsLeaf
  <2>2. /\ current' = n /\ alive' = alive
        /\ callee' = [callee EXCEPT ![n] = NULL]
        /\ caller' = [caller EXCEPT ![c] = NULL]
    BY <1>1, <2>1 DEF Leave, Enter
  <2>3. CoTypeOK'
    BY <1>0, <2>1, <2>2 DEF CoInv, CoTypeOK
  <2>4. LinksAgree'
    BY <1>0, <2>1, <2>2 DEF CoInv, CoTypeOK, LinksAgree
  <2>5. ChainsEnd'
    BY <2>1, <2>2 DEF CoInv, CoTypeOK, ChainsEnd, Closed
  <2>6. DeadIsDetached' /\ MainRuns'
    BY <1>0, <2>1, <2>2 DEF CoInv, CoTypeOK, DeadIsDetached, MainRuns
  <2>7. CurrentIsLeaf'
    <3>1. ~terminated[n] /\ n \in alive \cup {Main}
      BY <1>0, <2>1 DEF CoInv, DeadIsDetached
    <3> QED BY <1>0, <2>1, <2>2, <3>1 DEF CoInv, CoTypeOK, CurrentIsLeaf
  <2> QED BY <2>3, <2>4, <2>5, <2>6, <2>7 DEF CoInv
<1>2. CASE caller[c] = NULL
  <2>1. Leaves(callee, Main) # {}
    BY LeafExists DEF CoInv
  <2>2. PICK d \in Leaves(callee, Main) : Enter(d) /\ UNCHANGED links
    BY <1>0, <1>2, <2>1 DEF Leave, EnterLeaf
  <2>3. d # c
    <3> SUFFICES ASSUME d = c PROVE FALSE
      OBVIOUS
    <3>1. c \in Reach(callee, Main)
      BY DEF Leaves
    <3>2. PICK e \in All : callee[e] = c
      BY <1>0, <3>1, ReachedIsCallee DEF CoInv, CoTypeOK
    <3> QED BY <1>0, <1>2, <3>2 DEF CoInv, LinksAgree
  <2>4. /\ current' = d /\ alive' = alive /\ callee' = callee /\ caller' = caller
    BY <2>2, <2>3 DEF Enter, links
  <2>5. d \in alive \cup {Main} /\ ~terminated[d] /\ callee[d] = NULL /\ d \in All
    BY LeafIsAlive DEF CoInv, MainRuns, Leaves, Reach
  <2>6. CoTypeOK' /\ LinksAgree' /\ ChainsEnd' /\ MainRuns'
    BY <1>0, <2>4, <2>5 DEF CoInv, CoTypeOK, LinksAgree, ChainsEnd, Closed, MainRuns
  <2>7. DeadIsDetached' /\ CurrentIsLeaf'
    BY <1>0, <1>2, <2>3, <2>4, <2>5 DEF CoInv, CoTypeOK, DeadIsDetached, CurrentIsLeaf
  <2> QED BY <2>6, <2>7 DEF CoInv
<1> QED BY <1>1, <1>2

\* detach, also when it is called on a coroutine that does not run.
LEMMA DetachInv ==
  ASSUME CoInv, NEW c \in alive, Detach(c)
  PROVE  CoInv'
<1>1. CASE current # c
  BY <1>1, CoStutterInv DEF Detach, Leave, Halt
<1>2. CASE current = c
  <2>1. terminated' = [terminated EXCEPT ![c] = terminated[c]] /\ terminated[c] = FALSE
    BY <1>2 DEF CoInv, CoTypeOK, CurrentIsLeaf, Detach, All
  <2> QED BY <1>2, <2>1, LeaveInv DEF Detach
<1> QED BY <1>1, <1>2

\* Returning from main.
LEMMA FinishInv ==
  ASSUME CoInv, NEW c \in alive, Finish(c)
  PROVE  CoInv'
BY LeaveInv, MainAssumption DEF Finish, CoInv, CoTypeOK

-----------------------------------------------------------------------------
(***************************************************************************)
(* Theorems about every program                                            *)
(***************************************************************************)

\* The inductive invariant.
THEOREM CoroutineInvariant == CoSpec => []CoInv
<1>1. CoInit => CoInv
  BY CoInitInv
<1>2. CoInv /\ [CoNext]_coVars => CoInv'
  <2> SUFFICES ASSUME CoInv, [CoNext]_coVars PROVE CoInv'
    OBVIOUS
  <2>1. ASSUME NEW c \in Coroutine, New(c) PROVE CoInv'
    BY <2>1, NewInv
  <2>2. ASSUME NEW c \in Coroutine, Destroy(c) PROVE CoInv'
    BY <2>2, DestroyInv
  <2>3. ASSUME NEW c \in alive, Resume(c) PROVE CoInv'
    BY <2>3, ResumeInv
  <2>4. ASSUME NEW c \in alive, Call(c) PROVE CoInv'
    BY <2>4, CallInv
  <2>5. ASSUME NEW c \in alive, Detach(c) PROVE CoInv'
    BY <2>5, DetachInv
  <2>6. ASSUME NEW c \in alive, Finish(c) PROVE CoInv'
    BY <2>6, FinishInv
  <2>7. CASE UNCHANGED coVars
    BY <2>7, CoStutterInv DEF coVars, links
  <2> QED BY <2>1, <2>2, <2>3, <2>4, <2>5, <2>6, <2>7 DEF CoNext
<1> QED BY <1>1, <1>2, PTL DEF CoSpec

\* CoroutineTypeOK: the pointers point to coroutines, and a program is halted
\* by nothing but the messages and assertions listed.
THEOREM CoroutineTypeCorrect == CoSpec => []CoroutineTypeOK
<1> DEFINE OutcomeOK == outcome \in Outcomes
<1>1. CoInit => OutcomeOK
  BY DEF CoInit, Outcomes
<1>2. OutcomeOK /\ [CoNext]_coVars => OutcomeOK'
  BY DEF CoNext, New, Destroy, Resume, Call, Detach, Finish, Leave, EnterLeaf,
         Enter, Halt, Outcomes, coVars
<1>3. CoInv /\ OutcomeOK => CoroutineTypeOK
  BY DEF CoInv, CoroutineTypeOK
<1> HIDE DEF OutcomeOK
<1> QED BY <1>1, <1>2, <1>3, CoroutineInvariant, PTL DEF CoSpec

\* The two pointers of a call always agree (coroutine.cc:273-274, 288).
THEOREM LinksAlwaysAgree == CoSpec => []LinksAgree
<1>1. CoInv => LinksAgree
  BY DEF CoInv
<1> QED BY <1>1, CoroutineInvariant, PTL

\* The loops over _callee terminate from every coroutine (coroutine.cc:257,
\* 291); only call can build the chain that does not end, and there it
\* hangs before anybody can see it.
THEOREM ChainsAlwaysEnd == CoSpec => []ChainsEnd
<1>1. CoInv => ChainsEnd
  BY DEF CoInv
<1> QED BY <1>1, CoroutineInvariant, PTL

\* No chain holds a coroutine that has terminated or was deleted.
THEOREM DeadAlwaysDetached == CoSpec => []DeadIsDetached
<1>1. CoInv => DeadIsDetached
  BY DEF CoInv
<1> QED BY <1>1, CoroutineInvariant, PTL

\* Control is always with a living coroutine that waits for nobody.
THEOREM CurrentAlwaysLeaf == CoSpec => []CurrentIsLeaf
<1>1. CoInv => CurrentIsLeaf
  BY DEF CoInv
<1> QED BY <1>1, CoroutineInvariant, PTL

\* detach always has somewhere else to go (coroutine.cc:290-300).
THEOREM DetachAlwaysFindsAnother == CoSpec => []DetachFindsAnother
BY FindsAnother, CoroutineInvariant, PTL

-----------------------------------------------------------------------------
(***************************************************************************)
(* Chains as sequences.  from and to stand for the values of _caller and   *)
(* _callee, before a step or after it.                                     *)
(***************************************************************************)

Agree(from, to) ==
  /\ from \in [All -> All \cup {NULL}]
  /\ to \in [All -> All \cup {NULL}]
  /\ \A c, d \in All : to[c] = d <=> from[d] = c

\* Whole chains: from a coroutine without caller to one without callee.
Threads(from, to) ==
  {s \in Seq(All) : /\ s # <<>>
                    /\ from[s[1]] = NULL
                    /\ to[s[Len(s)]] = NULL
                    /\ \A i \in 1 .. Len(s) - 1 : to[s[i]] = s[i + 1]}

\* Everybody is in one.  ChainsEnd alone does not say that what leads to a
\* coroutine is finite.
Threaded(from, to) ==
  \A c \in All : \E s \in Threads(from, to) : \E i \in 1 .. Len(s) : s[i] = c

\* A set of numbers that is not empty has a least one.
LEMMA FirstNumber ==
  ASSUME NEW T \in SUBSET Nat, T # {}
  PROVE  \E n \in T : \A m \in T : ~(m < n)
<1> DEFINE R == {ss \in Nat \X Nat : ss[1] < ss[2]}
<1>1. IsWellFoundedOn(R, Nat)
  BY NatLessThanWellFounded DEF OpToRel
<1>2. \E n \in T : \A m \in T : ~(<<m, n>> \in R)
  BY <1>1, WFMin, Zenon
<1> QED BY <1>2

\* What a thread looks like, link by link.
LEMMA ThreadLinks ==
  ASSUME NEW from, NEW to, Agree(from, to), NEW s \in Threads(from, to)
  PROVE  /\ s \in Seq(All) /\ Len(s) \in Nat \ {0}
         /\ from[s[1]] = NULL /\ to[s[Len(s)]] = NULL
         /\ \A i \in 1 .. Len(s) : s[i] \in All /\ s[i] # NULL
         /\ \A i \in 1 .. Len(s) - 1 : to[s[i]] = s[i + 1]
         /\ \A i \in 2 .. Len(s) : from[s[i]] = s[i - 1]
<1>1. s \in Seq(All) /\ Len(s) \in Nat \ {0}
  BY EmptySeq DEF Threads
<1>2. \A i \in 1 .. Len(s) : s[i] \in All /\ s[i] # NULL
  BY <1>1, ElementOfSeq, NullAssumption DEF All
<1>3. ASSUME NEW i \in 2 .. Len(s) PROVE from[s[i]] = s[i - 1]
  <2>1. i - 1 \in 1 .. Len(s) - 1 /\ i - 1 \in 1 .. Len(s) /\ (i - 1) + 1 = i
    BY <1>1
  <2>2. to[s[i - 1]] = s[i]
    BY <2>1 DEF Threads
  <2> QED BY <1>2, <2>1, <2>2 DEF Agree
<1> QED BY <1>1, <1>2, <1>3 DEF Threads

\* Who has no caller is first in its thread, who calls nobody is last.
LEMMA ThreadEnds ==
  ASSUME NEW from, NEW to, Agree(from, to), NEW s \in Threads(from, to),
         NEW i \in 1 .. Len(s)
  PROVE  /\ from[s[i]] = NULL <=> i = 1
         /\ to[s[i]] = NULL <=> i = Len(s)
<1>1. i = 1 \/ (i \in 2 .. Len(s) /\ i - 1 \in 1 .. Len(s))
  BY ThreadLinks
<1>2. i = Len(s) \/ (i \in 1 .. Len(s) - 1 /\ i + 1 \in 1 .. Len(s))
  BY ThreadLinks
<1> QED BY <1>1, <1>2, ThreadLinks

\* Two threads that begin alike are one, going forward.
LEMMA ThreadForward ==
  ASSUME NEW from, NEW to, Agree(from, to), NEW s \in Threads(from, to),
         NEW t \in Threads(from, to), s[1] = t[1]
  PROVE  \A k \in 1 .. Len(s) : k \in 1 .. Len(t) /\ s[k] = t[k]
<1> SUFFICES ASSUME NEW k0 \in 1 .. Len(s), ~(k0 \in 1 .. Len(t) /\ s[k0] = t[k0])
             PROVE FALSE
  OBVIOUS
<1> DEFINE T == {k \in 1 .. Len(s) : ~(k \in 1 .. Len(t) /\ s[k] = t[k])}
<1>0. Len(s) \in Nat \ {0} /\ Len(t) \in Nat \ {0}
  BY ThreadLinks
<1>1. T \in SUBSET Nat /\ T # {}
  BY <1>0
<1>2. PICK n \in T : \A m \in T : ~(m < n)
  BY <1>1, FirstNumber
<1>3. n \in 1 .. Len(s) /\ n # 1
  BY <1>0, <1>2
<1>4. n - 1 \in 1 .. Len(s) - 1 /\ n - 1 \in 1 .. Len(s) /\ (n - 1) + 1 = n /\ n - 1 < n
  BY <1>0, <1>3
<1>5. n - 1 \in 1 .. Len(t) /\ s[n - 1] = t[n - 1]
  BY <1>2, <1>4
<1>6. to[s[n - 1]] = s[n] /\ s[n] # NULL
  BY <1>3, <1>4, ThreadLinks
<1>7. n - 1 # Len(t)
  BY <1>5, <1>6, ThreadLinks
<1>8. n - 1 \in 1 .. Len(t) - 1 /\ n \in 1 .. Len(t)
  BY <1>0, <1>5, <1>7
<1>9. to[t[n - 1]] = t[n]
  BY <1>4, <1>8, ThreadLinks
<1> QED BY <1>2, <1>5, <1>6, <1>8, <1>9

LEMMA ThreadFromHead ==
  ASSUME NEW from, NEW to, Agree(from, to), NEW s \in Threads(from, to),
         NEW t \in Threads(from, to), s[1] = t[1]
  PROVE  s = t
<1>1. s \in Seq(All) /\ t \in Seq(All) /\ Len(s) \in Nat \ {0} /\ Len(t) \in Nat \ {0}
  BY ThreadLinks
<1>2. \A k \in 1 .. Len(s) : k \in 1 .. Len(t) /\ s[k] = t[k]
  BY ThreadForward
<1>3. \A k \in 1 .. Len(t) : k \in 1 .. Len(s)
  BY ThreadForward
<1>4. Len(s) = Len(t)
  BY <1>1, <1>2, <1>3
<1> QED BY <1>1, <1>2, <1>4, SeqEqual

\* Nobody has two places: not in two threads, nor twice in one.
LEMMA OnePlace ==
  ASSUME NEW from, NEW to, Agree(from, to), NEW s \in Threads(from, to),
         NEW t \in Threads(from, to), NEW i0 \in 1 .. Len(s), NEW j0 \in 1 .. Len(t),
         s[i0] = t[j0]
  PROVE  s = t /\ i0 = j0
<1> DEFINE T == {i \in 1 .. Len(s) : \E j \in 1 .. Len(t) :
                    s[i] = t[j] /\ (s # t \/ i # j)}
<1> SUFFICES ASSUME s # t \/ i0 # j0 PROVE FALSE
  OBVIOUS
<1>0. Len(s) \in Nat \ {0} /\ Len(t) \in Nat \ {0}
  BY ThreadLinks
<1>1. T \in SUBSET Nat /\ T # {}
  BY <1>0
<1>2. PICK n \in T : \A m \in T : ~(m < n)
  BY <1>1, FirstNumber
<1>3. PICK j \in 1 .. Len(t) : s[n] = t[j] /\ (s # t \/ n # j)
  BY <1>2
<1>4. n \in 1 .. Len(s)
  BY <1>2
<1>5. CASE n = 1
  <2>1. j = 1
    BY <1>3, <1>4, <1>5, ThreadEnds
  <2> QED BY <1>3, <1>5, <2>1, ThreadFromHead
<1>6. CASE n # 1
  <2>1. n \in 2 .. Len(s) /\ n - 1 \in 1 .. Len(s) /\ n - 1 < n
    BY <1>0, <1>4, <1>6
  <2>2. j # 1
    BY <1>3, <1>4, <1>6, ThreadEnds
  <2>3. j \in 2 .. Len(t) /\ j - 1 \in 1 .. Len(t) /\ (n # j => n - 1 # j - 1)
    BY <1>0, <1>4, <2>2
  <2>4. s[n - 1] = t[j - 1]
    <3>1. from[s[n]] = s[n - 1]
      BY <2>1, ThreadLinks
    <3>2. from[t[j]] = t[j - 1]
      BY <2>3, ThreadLinks
    <3> QED BY <1>3, <3>1, <3>2
  <2>5. n - 1 \in T
    BY <1>3, <2>1, <2>3, <2>4
  <2> QED BY <1>2, <2>1, <2>5
<1> QED BY <1>5, <1>6

\* What the loops over _callee reach from the head of a thread is the thread.
LEMMA ThreadReach ==
  ASSUME NEW from, NEW to, Agree(from, to), NEW s \in Threads(from, to)
  PROVE  Reach(to, s[1]) = {s[i] : i \in 1 .. Len(s)}
<1> DEFINE D == {s[i] : i \in 1 .. Len(s)}
           R == Reach(to, s[1])
<1>0. Len(s) \in Nat \ {0} /\ 1 \in 1 .. Len(s) /\ s[1] \in All
  BY ThreadLinks
<1>1. R \subseteq D
  <2>1. D \in SUBSET All /\ s[1] \in D
    BY <1>0, ThreadLinks
  <2>2. ASSUME NEW i \in 1 .. Len(s), to[s[i]] # NULL PROVE to[s[i]] \in D
    <3>1. i # Len(s)
      BY <2>2, ThreadEnds
    <3>2. i \in 1 .. Len(s) - 1 /\ i + 1 \in 1 .. Len(s)
      BY <1>0, <3>1
    <3> QED BY <3>2, ThreadLinks
  <2>3. Closed(to, D)
    BY <2>2 DEF Closed
  <2> QED BY <1>0, <2>1, <2>3, ReachLeast
<1>2. ASSUME NEW k0 \in 1 .. Len(s), s[k0] \notin R PROVE FALSE
  <2> DEFINE T == {k \in 1 .. Len(s) : s[k] \notin R}
  <2>1. T \in SUBSET Nat /\ T # {}
    BY <1>2, <1>0
  <2>2. PICK n \in T : \A m \in T : ~(m < n)
    BY <2>1, FirstNumber
  <2>3. s[1] \in R /\ Closed(to, R)
    BY <1>0, ReachClosed DEF Agree
  <2>4. n \in 1 .. Len(s) /\ n # 1
    BY <2>2, <2>3
  <2>5. n - 1 \in 1 .. Len(s) - 1 /\ n - 1 \in 1 .. Len(s) /\ n - 1 < n /\ (n - 1) + 1 = n
    BY <1>0, <2>4
  <2>6. s[n - 1] \in R
    BY <2>2, <2>5
  <2>7. to[s[n - 1]] = s[n] /\ s[n] # NULL
    BY <2>4, <2>5, ThreadLinks
  <2>8. s[n] \in R
    BY <2>3, <2>6, <2>7 DEF Closed
  <2> QED BY <2>2, <2>8
<1> QED BY <1>1, <1>2

\* Following _callee from any member leads to the last, and to no other leaf.
LEMMA ThreadLeaf ==
  ASSUME NEW from, NEW to, Agree(from, to), NEW s \in Threads(from, to)
  PROVE  Leaves(to, s[1]) = {s[Len(s)]}
<1>1. Reach(to, s[1]) = {s[i] : i \in 1 .. Len(s)}
  BY ThreadReach
<1>2. Len(s) \in 1 .. Len(s)
  BY ThreadLinks
<1>3. \A i \in 1 .. Len(s) : to[s[i]] = NULL <=> i = Len(s)
  BY ThreadEnds
<1> QED BY <1>1, <1>2, <1>3 DEF Leaves

\* ChainFrom finds the thread of its head.
LEMMA ChainFromThread ==
  ASSUME NEW from, NEW to, Agree(from, to), NEW s \in Threads(from, to)
  PROVE  ChainFrom(to, s[1]) = s
<1> DEFINE members == Reach(to, s[1])
           Fits(t) == /\ t[1] = s[1]
                      /\ \A i \in 1 .. Cardinality(members) - 1 : to[t[i]] = t[i + 1]
<1>1. s \in Seq(All) /\ Len(s) \in Nat \ {0} /\ 1 \in 1 .. Len(s)
  BY ThreadLinks
<1>2. members = {s[i] : i \in 1 .. Len(s)}
  BY ThreadReach
<1>3. s \in [1 .. Len(s) -> members]
  BY <1>1, <1>2, LenProperties
<1>4. Cardinality(members) = Len(s)
  <2>1. s \in Bijection(1 .. Len(s), members)
    <3>1. \A i, j \in 1 .. Len(s) : s[i] = s[j] => i = j
      BY OnePlace
    <3>2. s \in Injection(1 .. Len(s), members)
      BY <1>3, <3>1 DEF Injection, IsInjective
    <3>3. s \in Surjection(1 .. Len(s), members)
      BY <1>2, <1>3 DEF Surjection
    <3> QED BY <3>2, <3>3 DEF Bijection
  <2>2. ExistsBijection(1 .. Len(s), members)
    BY <2>1 DEF ExistsBijection
  <2> HIDE DEF members
  <2> QED BY <1>1, <2>2, FS_CountingElements
<1>5. s \in [1 .. Cardinality(members) -> members] /\ Fits(s)
  BY <1>3, <1>4, ThreadLinks
<1>6. ASSUME NEW t \in [1 .. Cardinality(members) -> members], Fits(t) PROVE t = s
  <2> SUFFICES ASSUME NEW k0 \in 1 .. Len(s), t[k0] # s[k0] PROVE FALSE
    <3> HIDE DEF Fits, members
    <3> QED BY <1>3, <1>4
  <2> DEFINE T == {k \in 1 .. Len(s) : t[k] # s[k]}
  <2>1. T \in SUBSET Nat /\ T # {}
    BY <1>1
  <2>2. PICK n \in T : \A m \in T : ~(m < n)
    BY <2>1, FirstNumber
  <2>3. n \in 1 .. Len(s) /\ n # 1
    BY <1>6, <2>2
  <2>4. n - 1 \in 1 .. Len(s) - 1 /\ n - 1 \in 1 .. Len(s) /\ n - 1 < n /\ (n - 1) + 1 = n
    BY <1>1, <2>3
  <2>5. t[n - 1] = s[n - 1]
    BY <2>2, <2>4
  <2>6. to[t[n - 1]] = t[n]
    BY <1>4, <1>6, <2>4
  <2>7. to[s[n - 1]] = s[n]
    BY <2>4, ThreadLinks
  <2> QED BY <2>2, <2>5, <2>6, <2>7
<1>7. ChainFrom(to, s[1]) = CHOOSE t \in [1 .. Cardinality(members) -> members] : Fits(t)
  BY DEF ChainFrom
<1> HIDE DEF Fits, members
<1> QED BY <1>5, <1>6, <1>7

-----------------------------------------------------------------------------
(***************************************************************************)
(* Joining two threads, as call does, and cutting the last off one, as     *)
(* detach does                                                             *)
(***************************************************************************)

\* Threads found until everybody is in one are all there are.
LEMMA NoOtherThreads ==
  ASSUME NEW from, NEW to, Agree(from, to), NEW Found \in SUBSET Threads(from, to),
         \A c \in All : \E s \in Found : \E i \in 1 .. Len(s) : s[i] = c
  PROVE  Threads(from, to) = Found /\ Threaded(from, to)
<1>1. ASSUME NEW t \in Threads(from, to) PROVE t \in Found
  <2>1. 1 \in 1 .. Len(t) /\ t[1] \in All
    <3>1. 1 \in 1 .. Len(t)
      BY ThreadLinks
    <3> QED BY <3>1, ThreadLinks
  <2>2. PICK s \in Found : \E i \in 1 .. Len(s) : s[i] = t[1]
    BY <2>1
  <2>3. PICK i \in 1 .. Len(s) : s[i] = t[1]
    BY <2>2
  <2> QED BY <2>1, <2>3, OnePlace
<1> QED BY <1>1 DEF Threaded

\* The last of r calls the first of s.
Joins(from, to, r, s, from2, to2) ==
  /\ Agree(from, to) /\ Agree(from2, to2)
  /\ Threaded(from, to)
  /\ r \in Threads(from, to) /\ s \in Threads(from, to) /\ r # s
  /\ to2 = [to EXCEPT ![r[Len(r)]] = s[1]]
  /\ from2 = [from EXCEPT ![s[1]] = r[Len(r)]]

LEMMA JoinThreads ==
  ASSUME NEW from, NEW to, NEW r, NEW s, NEW from2, NEW to2,
         Joins(from, to, r, s, from2, to2)
  PROVE  /\ Threads(from2, to2) = (Threads(from, to) \ {r, s}) \cup {r \o s}
         /\ Threaded(from2, to2)
<1> USE DEF Joins
<1> DEFINE w == r \o s
           Found == (Threads(from, to) \ {r, s}) \cup {w}
<1>1. /\ r \in Seq(All) /\ Len(r) \in Nat \ {0} /\ 1 \in 1 .. Len(r) /\ Len(r) \in 1 .. Len(r)
      /\ s \in Seq(All) /\ Len(s) \in Nat \ {0} /\ 1 \in 1 .. Len(s) /\ Len(s) \in 1 .. Len(s)
  BY ThreadLinks
<1>2. /\ w \in Seq(All) /\ Len(w) = Len(r) + Len(s)
      /\ \A i \in 1 .. Len(r) : w[i] = r[i]
      /\ \A i \in 1 .. Len(s) : w[Len(r) + i] = s[i]
  BY <1>1, ConcatProperties
<1>3. /\ \A i \in 1 .. Len(r), j \in 1 .. Len(s) : r[i] # s[j]
      /\ \A i, j \in 1 .. Len(r) : r[i] = r[j] => i = j
      /\ \A i, j \in 1 .. Len(s) : s[i] = s[j] => i = j
  BY OnePlace
<1>4. /\ \A c \in All : c # r[Len(r)] => to2[c] = to[c]
      /\ \A c \in All : c # s[1] => from2[c] = from[c]
      /\ to2[r[Len(r)]] = s[1]
  BY <1>1, ThreadLinks DEF Agree
<1>5. w \in Threads(from2, to2)
  <2>1. from2[w[1]] = NULL
    <3>1. w[1] = r[1] /\ r[1] \in All /\ r[1] # s[1] /\ from[r[1]] = NULL
      BY <1>1, <1>2, <1>3, ThreadLinks
    <3> QED BY <1>4, <3>1
  <2>2. to2[w[Len(w)]] = NULL
    <3>1. w[Len(w)] = s[Len(s)] /\ s[Len(s)] \in All /\ s[Len(s)] # r[Len(r)]
          /\ to[s[Len(s)]] = NULL
      BY <1>1, <1>2, <1>3, ThreadLinks
    <3> QED BY <1>4, <3>1
  <2>3. ASSUME NEW i \in 1 .. Len(w) - 1 PROVE to2[w[i]] = w[i + 1]
    <3>1. CASE i < Len(r)
      <4>1. i \in 1 .. Len(r) - 1 /\ i \in 1 .. Len(r) /\ i + 1 \in 1 .. Len(r)
        BY <1>1, <3>1
      <4>2. r[i] \in All /\ r[i] # r[Len(r)] /\ to[r[i]] = r[i + 1]
        BY <1>1, <1>3, <3>1, <4>1, ThreadLinks
      <4> QED BY <1>2, <1>4, <4>1, <4>2
    <3>2. CASE i = Len(r)
      BY <1>1, <1>2, <1>4, <3>2
    <3>3. CASE i > Len(r)
      <4>1. PICK j \in Int : i = Len(r) + j
        <5>1. i - Len(r) \in Int /\ i = Len(r) + (i - Len(r))
          BY <1>1, <1>2
        <5> QED BY <5>1
      <4>2. j \in 1 .. Len(s) - 1 /\ j \in 1 .. Len(s) /\ j + 1 \in 1 .. Len(s)
            /\ i + 1 = Len(r) + (j + 1)
        BY <1>1, <1>2, <3>3, <4>1
      <4>3. s[j] \in All /\ s[j] # r[Len(r)] /\ to[s[j]] = s[j + 1]
        BY <1>1, <1>3, <4>2, ThreadLinks
      <4>4. w[i] = s[j] /\ w[i + 1] = s[j + 1]
        BY <1>2, <4>1, <4>2
      <4> QED BY <1>4, <4>3, <4>4
    <3> QED BY <1>1, <1>2, <3>1, <3>2, <3>3
  <2>4. w # <<>>
    BY <1>1, <1>2, EmptySeq
  <2> QED BY <1>2, <2>1, <2>2, <2>3, <2>4 DEF Threads
<1>6. ASSUME NEW t \in Threads(from, to), t # r, t # s PROVE t \in Threads(from2, to2)
  <2>1. \A i \in 1 .. Len(t) : t[i] # r[Len(r)] /\ t[i] # s[1]
    BY <1>1, <1>6, OnePlace
  <2>2. /\ t \in Seq(All) /\ Len(t) \in Nat \ {0} /\ 1 \in 1 .. Len(t) /\ Len(t) \in 1 .. Len(t)
        /\ \A i \in 1 .. Len(t) : t[i] \in All
    BY ThreadLinks
  <2>3. \A i \in 1 .. Len(t) : to2[t[i]] = to[t[i]] /\ from2[t[i]] = from[t[i]]
    BY <1>4, <2>1, <2>2
  <2>4. \A i \in 1 .. Len(t) - 1 : i \in 1 .. Len(t)
    BY <2>2
  <2> QED BY <2>2, <2>3, <2>4 DEF Threads
<1>7. Found \in SUBSET Threads(from2, to2)
  BY <1>5, <1>6
<1>8. ASSUME NEW c \in All PROVE \E t \in Found : \E i \in 1 .. Len(t) : t[i] = c
  <2>1. PICK t \in Threads(from, to) : \E i \in 1 .. Len(t) : t[i] = c
    BY DEF Threaded
  <2>2. PICK i \in 1 .. Len(t) : t[i] = c
    BY <2>1
  <2>3. CASE t = r
    <3>1. i \in 1 .. Len(w) /\ w[i] = c
      BY <1>1, <1>2, <2>2, <2>3
    <3> QED BY <3>1
  <2>4. CASE t = s
    <3>1. Len(r) + i \in 1 .. Len(w) /\ w[Len(r) + i] = c
      BY <1>1, <1>2, <2>2, <2>4
    <3> QED BY <3>1
  <2>5. CASE t # r /\ t # s
    BY <2>2, <2>5
  <2> QED BY <2>3, <2>4, <2>5
<1> HIDE DEF Found
<1>9. Threads(from2, to2) = Found /\ Threaded(from2, to2)
  BY <1>7, <1>8, NoOtherThreads
<1> QED BY <1>9 DEF Found

\* The last of r leaves it.
Cuts(from, to, r, from2, to2) ==
  /\ Agree(from, to) /\ Agree(from2, to2)
  /\ Threaded(from, to)
  /\ r \in Threads(from, to) /\ Len(r) > 1
  /\ to2 = [to EXCEPT ![r[Len(r) - 1]] = NULL]
  /\ from2 = [from EXCEPT ![r[Len(r)]] = NULL]

LEMMA CutThread ==
  ASSUME NEW from, NEW to, NEW r, NEW from2, NEW to2, Cuts(from, to, r, from2, to2)
  PROVE  /\ Threads(from2, to2) = (Threads(from, to) \ {r})
                                    \cup {SubSeq(r, 1, Len(r) - 1), <<r[Len(r)]>>}
         /\ Threaded(from2, to2)
<1> USE DEF Cuts
<1> DEFINE f == SubSeq(r, 1, Len(r) - 1)
           e == <<r[Len(r)]>>
           Found == (Threads(from, to) \ {r}) \cup {f, e}
<1>1. /\ r \in Seq(All) /\ Len(r) \in Nat \ {0} /\ 1 \in 1 .. Len(r) /\ Len(r) \in 1 .. Len(r)
      /\ \A i \in 1 .. Len(r) : r[i] \in All
      /\ \A i \in 1 .. Len(r) - 1 : to[r[i]] = r[i + 1]
      /\ from[r[1]] = NULL /\ to[r[Len(r)]] = NULL
  BY ThreadLinks
<1>2. /\ Len(r) - 1 \in 1 .. Len(r) /\ 1 \in 1 .. Len(r) - 1 /\ Len(r) - 1 # Len(r)
      /\ \A i \in 1 .. Len(r) - 1 : i \in 1 .. Len(r) /\ i # Len(r)
  BY <1>1
<1>3. /\ f \in Seq(All) /\ Len(f) = Len(r) - 1
      /\ \A i \in 1 .. Len(r) - 1 : f[i] = r[i]
  BY <1>1, <1>2
<1>4. e \in Seq(All) /\ Len(e) = 1 /\ e[1] = r[Len(r)]
  BY <1>1
<1> HIDE DEF f, e
<1>5. \A i, j \in 1 .. Len(r) : r[i] = r[j] => i = j
  BY OnePlace
<1>6. /\ \A c \in All : c # r[Len(r) - 1] => to2[c] = to[c]
      /\ \A c \in All : c # r[Len(r)] => from2[c] = from[c]
      /\ to2[r[Len(r) - 1]] = NULL /\ from2[r[Len(r)]] = NULL
  BY <1>1, <1>2 DEF Agree
<1>7. f \in Threads(from2, to2)
  <2>1. from2[f[1]] = NULL
    <3>1. f[1] = r[1] /\ r[1] # r[Len(r)] /\ from[r[1]] = NULL
      BY <1>1, <1>2, <1>3, <1>5
    <3> QED BY <1>1, <1>6, <3>1
  <2>2. to2[f[Len(f)]] = NULL
    <3>1. f[Len(f)] = r[Len(r) - 1]
      BY <1>2, <1>3
    <3> QED BY <1>6, <3>1
  <2>3. ASSUME NEW i \in 1 .. Len(f) - 1 PROVE to2[f[i]] = f[i + 1]
    <3>1. /\ i \in 1 .. Len(r) - 1 /\ i + 1 \in 1 .. Len(r) - 1
          /\ i \in 1 .. Len(r) /\ i # Len(r) - 1
      BY <1>1, <1>3
    <3>2. to[r[i]] = r[i + 1] /\ r[i] # r[Len(r) - 1]
      BY <1>1, <1>2, <1>5, <3>1
    <3>3. f[i] = r[i] /\ f[i + 1] = r[i + 1]
      BY <1>3, <3>1
    <3> QED BY <1>1, <1>6, <3>1, <3>2, <3>3
  <2>4. f # <<>>
    BY <1>1, <1>3, <1>2, EmptySeq
  <2> QED BY <1>3, <2>1, <2>2, <2>3, <2>4 DEF Threads
<1>8. e \in Threads(from2, to2)
  <2>1. to2[e[Len(e)]] = NULL
    <3>1. to[r[Len(r)]] = NULL /\ r[Len(r)] # r[Len(r) - 1]
      BY <1>1, <1>2, <1>5
    <3> QED BY <1>1, <1>4, <1>6, <3>1
  <2>2. e # <<>> /\ \A i \in 1 .. Len(e) - 1 : FALSE
    BY <1>4
  <2> QED BY <1>4, <1>6, <2>1, <2>2 DEF Threads
<1>9. ASSUME NEW t \in Threads(from, to), t # r PROVE t \in Threads(from2, to2)
  <2>1. \A i \in 1 .. Len(t) : t[i] # r[Len(r)] /\ t[i] # r[Len(r) - 1]
    BY <1>1, <1>2, <1>9, OnePlace
  <2>2. /\ t \in Seq(All) /\ Len(t) \in Nat \ {0} /\ 1 \in 1 .. Len(t) /\ Len(t) \in 1 .. Len(t)
        /\ \A i \in 1 .. Len(t) : t[i] \in All
    BY ThreadLinks
  <2>3. \A i \in 1 .. Len(t) : to2[t[i]] = to[t[i]] /\ from2[t[i]] = from[t[i]]
    BY <1>6, <2>1, <2>2
  <2>4. \A i \in 1 .. Len(t) - 1 : i \in 1 .. Len(t)
    BY <2>2
  <2> QED BY <2>2, <2>3, <2>4 DEF Threads
<1>10. Found \in SUBSET Threads(from2, to2)
  BY <1>7, <1>8, <1>9
<1>11. ASSUME NEW c \in All PROVE \E t \in Found : \E i \in 1 .. Len(t) : t[i] = c
  <2>1. PICK t \in Threads(from, to) : \E i \in 1 .. Len(t) : t[i] = c
    BY DEF Threaded
  <2>2. PICK i \in 1 .. Len(t) : t[i] = c
    BY <2>1
  <2>3. CASE t = r /\ i = Len(r)
    <3>1. 1 \in 1 .. Len(e) /\ e[1] = c
      BY <1>4, <2>2, <2>3
    <3> QED BY <3>1
  <2>4. CASE t = r /\ i # Len(r)
    <3>1. i \in 1 .. Len(f) /\ f[i] = c
      BY <1>1, <1>3, <2>2, <2>4
    <3> QED BY <3>1
  <2>5. CASE t # r
    BY <2>2, <2>5
  <2> QED BY <2>3, <2>4, <2>5
<1> HIDE DEF Found
<1>12. Threads(from2, to2) = Found /\ Threaded(from2, to2)
  BY <1>10, <1>11, NoOtherThreads
<1> QED BY <1>12 DEF Found, f, e

-----------------------------------------------------------------------------
(***************************************************************************)
(* The pointers implement CallChains                                       *)
(***************************************************************************)

\* The threads that a living coroutine or Main heads: Chains, said without
\* counting.
Living(from, to, live) == {s \in Threads(from, to) : s[1] \in live \cup {Main}}

\* Main is never called.
MainIsHead == caller[Main] = NULL

ThreadInv ==
  /\ CoInv
  /\ MainIsHead
  /\ Threaded(caller, callee)

LEMMA ChainsAreLiving ==
  ASSUME NEW from, NEW to, NEW live \in SUBSET Coroutine,
         Agree(from, to), Threaded(from, to)
  PROVE  {ChainFrom(to, c) : c \in {d \in live \cup {Main} : from[d] = NULL}}
           = Living(from, to, live)
<1> DEFINE C == {ChainFrom(to, c) : c \in {d \in live \cup {Main} : from[d] = NULL}}
<1>1. ASSUME NEW c \in live \cup {Main}, from[c] = NULL
      PROVE  ChainFrom(to, c) \in Living(from, to, live)
  <2>1. PICK s \in Threads(from, to) : \E i \in 1 .. Len(s) : s[i] = c
    BY DEF Threaded, All
  <2>2. s[1] = c
    BY <1>1, <2>1, ThreadEnds
  <2>3. ChainFrom(to, c) = s
    BY <2>2, ChainFromThread
  <2> QED BY <2>2, <2>3 DEF Living
<1>2. ASSUME NEW s \in Living(from, to, live) PROVE s \in C
  <2>1. s \in Threads(from, to) /\ s[1] \in live \cup {Main}
    BY DEF Living
  <2>2. from[s[1]] = NULL
    BY <2>1, ThreadLinks
  <2>3. ChainFrom(to, s[1]) = s
    BY <2>1, ChainFromThread
  <2> QED BY <2>1, <2>2, <2>3
<1> QED BY <1>1, <1>2

\* What holds of the chains before a step...
LEMMA ChainsBefore ==
  ASSUME ThreadInv
  PROVE  /\ Agree(caller, callee)
         /\ Chains = Living(caller, callee, alive)
         /\ RunningChain \in Chains
         /\ RunningChain[Len(RunningChain)] = current
<1>1. Agree(caller, callee)
  BY DEF ThreadInv, CoInv, CoTypeOK, LinksAgree, Agree
<1>2. Chains = Living(caller, callee, alive)
  BY <1>1, ChainsAreLiving DEF ThreadInv, CoInv, CoTypeOK, Chains
<1>3. current \in All /\ callee[current] = NULL /\ current \in alive \cup {Main}
  BY DEF ThreadInv, CoInv, CoTypeOK, CurrentIsLeaf
<1>4. PICK s \in Threads(caller, callee) : \E i \in 1 .. Len(s) : s[i] = current
  BY <1>3 DEF ThreadInv, Threaded
<1>5. s[Len(s)] = current
  BY <1>1, <1>3, <1>4, ThreadEnds
<1>6. s[1] \in alive \cup {Main}
  <2>1. CASE Len(s) = 1
    BY <1>3, <1>5, <2>1
  <2>2. CASE Len(s) # 1
    <3>1. 1 \in 1 .. Len(s) /\ 1 # Len(s)
      BY <1>1, <2>2, ThreadLinks
    <3>2. s[1] \in All
      BY <1>1, <3>1, ThreadLinks
    <3>3. \A i \in 1 .. Len(s) : callee[s[i]] = NULL <=> i = Len(s)
      BY <1>1, ThreadEnds
    <3> QED BY <3>1, <3>2, <3>3 DEF ThreadInv, CoInv, DeadIsDetached, All
  <2> QED BY <2>1, <2>2
<1>7. s \in Chains /\ Last(s) = current
  BY <1>2, <1>4, <1>5, <1>6 DEF Living, Last
<1>8. RunningChain \in Chains /\ Last(RunningChain) = current
  BY <1>7 DEF RunningChain
<1> QED BY <1>1, <1>2, <1>8 DEF Last

\* ... and after it.
LEMMA ChainsAfter ==
  ASSUME CoInv', Threaded(caller', callee')
  PROVE  /\ Chains' = Living(caller', callee', alive')
         /\ \A s \in Chains' : s[Len(s)] = current' => RunningChain' = s
<1>1. Agree(caller', callee') /\ alive' \in SUBSET Coroutine
  BY DEF CoInv, CoTypeOK, LinksAgree, Agree
<1>2. Chains' = {ChainFrom(callee', c) : c \in {d \in alive' \cup {Main} : caller'[d] = NULL}}
  BY DEF Chains
<1>3. Chains' = Living(caller', callee', alive')
  BY <1>1, <1>2, ChainsAreLiving
<1>4. ASSUME NEW s \in Chains', s[Len(s)] = current' PROVE RunningChain' = s
  <2>1. RunningChain' = CHOOSE t \in Chains' : t[Len(t)] = current'
    BY DEF RunningChain, Last
  <2>2. RunningChain' \in Chains' /\ RunningChain'[Len(RunningChain')] = current'
    BY <1>4, <2>1
  <2>3. PICK t : t = RunningChain'
    OBVIOUS
  <2>4. s \in Threads(caller', callee') /\ t \in Threads(caller', callee')
        /\ t[Len(t)] = s[Len(s)]
    BY <1>3, <1>4, <2>2, <2>3 DEF Living
  <2>5. Len(s) \in 1 .. Len(s) /\ Len(t) \in 1 .. Len(t)
    BY <1>1, <2>4, ThreadLinks
  <2>6. t = s
    BY <1>1, <2>4, <2>5, OnePlace
  <2> QED BY <2>3, <2>6
<1> QED BY <1>3, <1>4

Implements == Threaded(caller', callee') /\ [Abstract!Next]_Abstract!vars

\* A halted program and a coroutine that resumes itself change no chain.
LEMMA HaltImplements ==
  ASSUME ThreadInv, UNCHANGED <<alive, terminated, caller, callee, current>>
  PROVE  Implements
<1>1. Chains' = Chains
  BY DEF Chains
<1>2. RunningChain' = RunningChain
  BY <1>1 DEF RunningChain
<1>3. UNCHANGED Abstract!vars
  BY <1>1, <1>2 DEF Abstract!vars
<1> QED BY <1>3 DEF Implements, ThreadInv

\* Who neither calls nor is called makes a thread alone.
LEMMA AloneInThread ==
  ASSUME NEW from, NEW to, Agree(from, to), NEW c \in All, from[c] = NULL, to[c] = NULL
  PROVE  /\ <<c>> \in Threads(from, to)
         /\ \A s \in Threads(from, to) : \A i \in 1 .. Len(s) : s[i] = c => s = <<c>>
<1>1. <<c>> \in Threads(from, to)
  <2>1. /\ <<c>> \in Seq(All) /\ <<c>> # <<>> /\ Len(<<c>>) = 1 /\ <<c>>[1] = c
        /\ \A i \in 1 .. 1 - 1 : FALSE
    OBVIOUS
  <2> QED BY <2>1 DEF Threads
<1>2. 1 \in 1 .. Len(<<c>>) /\ <<c>>[1] = c
  OBVIOUS
<1>3. ASSUME NEW s \in Threads(from, to), NEW i \in 1 .. Len(s), s[i] = c PROVE s = <<c>>
  BY <1>1, <1>2, <1>3, OnePlace
<1> QED BY <1>1, <1>3

LEMMA NewImplements ==
  ASSUME ThreadInv, CoInv', NEW c \in Coroutine, New(c)
  PROVE  Implements
<1>1. /\ Agree(caller, callee) /\ Chains = Living(caller, callee, alive)
      /\ RunningChain \in Chains /\ RunningChain[Len(RunningChain)] = current
  BY ChainsBefore
<1>2. /\ c \in All /\ c \notin alive /\ c # Main /\ alive' = alive \cup {c}
      /\ caller' = caller /\ callee' = callee /\ current' = current
  BY MainAssumption DEF New, links, All
<1>3. caller[c] = NULL /\ callee[c] = NULL
  BY <1>2 DEF ThreadInv, CoInv, DeadIsDetached
<1>4. Threaded(caller', callee')
  BY <1>2 DEF ThreadInv
<1>5. /\ <<c>> \in Threads(caller, callee)
      /\ \A s \in Threads(caller, callee) : \A i \in 1 .. Len(s) : s[i] = c => s = <<c>>
  BY <1>1, <1>2, <1>3, AloneInThread
<1>6. \A s \in Threads(caller, callee) : 1 \in 1 .. Len(s)
  BY <1>1, ThreadLinks
<1>7. Chains' = Chains \cup {<<c>>}
  <2>1. Chains' = Living(caller, callee, alive \cup {c})
    BY <1>2, <1>4, ChainsAfter
  <2>2. Living(caller, callee, alive \cup {c}) = Chains \cup {<<c>>}
    BY <1>1, <1>5, <1>6 DEF Living
  <2> QED BY <2>1, <2>2
<1>8. RunningChain' = RunningChain
  BY <1>1, <1>2, <1>4, <1>7, ChainsAfter
<1>9. ASSUME NEW s \in Chains PROVE c \notin Abstract!ToSet(s)
  <2> SUFFICES ASSUME NEW i \in DOMAIN s, s[i] = c PROVE FALSE
    BY DEF Abstract!ToSet
  <2>1. s \in Threads(caller, callee) /\ s[1] \in alive \cup {Main}
    BY <1>1 DEF Living
  <2>2. i \in 1 .. Len(s)
    BY <1>1, <2>1, ThreadLinks
  <2>3. s = <<c>>
    BY <1>5, <2>1, <2>2
  <2> QED BY <1>2, <2>1, <2>3
<1>10. {d \in All : terminated'[d]} = {d \in All : terminated[d]} \ {c}
  BY <1>2 DEF New, ThreadInv, CoInv, CoTypeOK
<1>11. Abstract!Create(c)
  BY <1>7, <1>8, <1>9, <1>10 DEF Abstract!Create
<1> QED BY <1>4, <1>11 DEF Implements, Abstract!Next

LEMMA DestroyImplements ==
  ASSUME ThreadInv, CoInv', NEW c \in Coroutine, Destroy(c)
  PROVE  Implements
<1>1. /\ Agree(caller, callee) /\ Chains = Living(caller, callee, alive)
      /\ RunningChain \in Chains /\ RunningChain[Len(RunningChain)] = current
  BY ChainsBefore
<1>2. CASE UNCHANGED <<alive, links, current>>
  BY <1>2, HaltImplements DEF Destroy, links
<1>3. CASE /\ caller[c] = NULL /\ callee[c] = NULL
           /\ alive' = alive \ {c}
           /\ UNCHANGED <<links, current>>
  <2>1. /\ c \in All /\ c \in alive /\ c # current /\ c # Main /\ terminated' = terminated
        /\ caller' = caller /\ callee' = callee /\ current' = current
    BY <1>3, MainAssumption DEF Destroy, links, All
  <2>2. Threaded(caller', callee')
    BY <2>1 DEF ThreadInv
  <2>3. /\ <<c>> \in Threads(caller, callee)
        /\ \A s \in Threads(caller, callee) : \A i \in 1 .. Len(s) : s[i] = c => s = <<c>>
    BY <1>1, <1>3, <2>1, AloneInThread
  <2>4. \A s \in Threads(caller, callee) : 1 \in 1 .. Len(s)
    BY <1>1, ThreadLinks
  <2>5. Chains' = Chains \ {<<c>>}
    <3>1. Chains' = Living(caller, callee, alive \ {c})
      BY <1>3, <2>1, <2>2, ChainsAfter
    <3>2. <<c>>[1] = c
      OBVIOUS
    <3>3. Living(caller, callee, alive \ {c}) = Chains \ {<<c>>}
      BY <1>1, <2>1, <2>3, <2>4, <3>2 DEF Living
    <3> QED BY <3>1, <3>3
  <2>6. <<c>> \in Chains /\ <<c>> # RunningChain
    <3>1. <<c>>[1] = c /\ <<c>>[Len(<<c>>)] = c
      OBVIOUS
    <3> QED BY <1>1, <2>1, <2>3, <3>1 DEF Living
  <2>7. RunningChain' = RunningChain
    BY <1>1, <2>1, <2>2, <2>5, <2>6, ChainsAfter
  <2>8. Abstract!Delete(c)
    BY <2>1, <2>5, <2>6, <2>7 DEF Abstract!Delete
  <2> QED BY <2>2, <2>8 DEF Implements, Abstract!Next
<1> QED BY <1>2, <1>3 DEF Destroy, Halt

\* A coroutine nobody called heads one of the chains, and the loop over
\* _callee stops at its end.
LEMMA HeadsChain ==
  ASSUME ThreadInv, NEW c \in alive \cup {Main}, caller[c] = NULL
  PROVE  \E s \in Chains : /\ s \in Threads(caller, callee)
                           /\ s[1] = c
                           /\ Leaves(callee, c) = {s[Len(s)]}
<1>1. Agree(caller, callee) /\ Chains = Living(caller, callee, alive)
  BY ChainsBefore
<1>2. c \in All
  BY DEF ThreadInv, CoInv, CoTypeOK, All
<1>3. PICK s \in Threads(caller, callee) : \E i \in 1 .. Len(s) : s[i] = c
  BY <1>2 DEF ThreadInv, Threaded
<1>4. s[1] = c
  BY <1>1, <1>3, ThreadEnds
<1>5. Leaves(callee, s[1]) = {s[Len(s)]}
  BY <1>1, ThreadLeaf
<1> QED BY <1>1, <1>4, <1>5 DEF Living

\* Control moves to the end of another chain: what resume does, and detach
\* from a coroutine without caller.
LEMMA EnterImplements ==
  ASSUME ThreadInv, CoInv', NEW s \in Chains, UNCHANGED <<alive, caller, callee>>,
         current' = s[Len(s)]
  PROVE  Threaded(caller', callee') /\ Chains' = Chains /\ RunningChain' = s
<1>1. Threaded(caller', callee')
  BY DEF ThreadInv
<1>2. Chains' = Chains
  BY DEF Chains
<1> QED BY <1>1, <1>2, ChainsAfter

LEMMA ResumeImplements ==
  ASSUME ThreadInv, CoInv', NEW c \in alive, Resume(c)
  PROVE  Implements
<1>1. CASE UNCHANGED <<alive, links, current>>
  BY <1>1, HaltImplements DEF Resume, links
<1>2. CASE /\ ~terminated[c] /\ caller[c] = NULL
           /\ \E d \in Leaves(callee, c) : Enter(d) /\ d # current /\ UNCHANGED links
  <2>1. PICK s \in Chains : s[1] = c /\ Leaves(callee, c) = {s[Len(s)]}
    BY <1>2, HeadsChain
  <2>2. current' = s[Len(s)] /\ UNCHANGED <<alive, terminated, caller, callee>>
    BY <1>2, <2>1 DEF Enter, links, Resume
  <2>3. Threaded(caller', callee') /\ Chains' = Chains /\ RunningChain' = s
    BY <2>2, EnterImplements
  <2>4. Head(s) = c
    BY <2>1, ChainsBefore DEF Living, Threads
  <2>5. Head(s) \notin {d \in All : terminated[d]}
    BY <1>2, <2>4
  <2>6. Abstract!Resume(s)
    BY <2>2, <2>3, <2>5 DEF Abstract!Resume
  <2> QED BY <2>3, <2>6 DEF Implements, Abstract!Next
<1> QED BY <1>1, <1>2 DEF Resume, EnterLeaf, Enter, Halt, coVars, links

LEMMA CallImplements ==
  ASSUME ThreadInv, CoInv', NEW c \in alive, Call(c)
  PROVE  Implements
<1> DEFINE linked == [callee EXCEPT ![current] = c]
<1>1. CASE UNCHANGED <<alive, links, current>>
  BY <1>1, HaltImplements DEF Call, links
<1>2. CASE /\ ~terminated[c] /\ caller[c] = NULL
           /\ \E d \in Leaves(linked, c) \ {current} :
                /\ current' = d /\ alive' = alive
                /\ callee' = linked
                /\ caller' = [caller EXCEPT ![c] = current]
  <2>1. /\ Agree(caller, callee) /\ Chains = Living(caller, callee, alive)
        /\ RunningChain \in Chains /\ RunningChain[Len(RunningChain)] = current
    BY ChainsBefore
  <2>2. PICK s \in Chains : /\ s \in Threads(caller, callee) /\ s[1] = c
                            /\ Leaves(callee, c) = {s[Len(s)]}
    BY <1>2, HeadsChain
  <2>3. PICK r \in Chains : r = RunningChain
    BY <2>1
  <2>4. PICK d \in Leaves(linked, c) \ {current} : current' = d
    BY <1>2
  <2>5. c \in All /\ current \in All /\ c # Main /\ Agree(caller', callee')
    BY MainAssumption
    DEF ThreadInv, CoInv, CoTypeOK, LinksAgree, Agree, All
  <2>6. d = s[Len(s)]
    <3> DEFINE D == Reach(callee, c)
    <3>1. D \in SUBSET All /\ c \in D /\ Closed(callee, D)
      BY <2>1, <2>5, ReachClosed DEF Reach, Agree
    <3>2. Closed(linked, D)
      BY <2>1, <2>5, <3>1 DEF Closed, Agree
    <3>3. d \in D
      <4> HIDE DEF D, linked
      <4> QED BY <2>4, <2>5, <3>1, <3>2, ReachLeast DEF Leaves
    <3>4. callee[d] = NULL
      BY <2>1, <2>4, <3>1, <3>3 DEF Leaves, Agree
    <3> QED BY <2>2, <3>3, <3>4 DEF Leaves
  <2>7. r \in Threads(caller, callee) /\ r # s /\ r[Len(r)] = current
    BY <2>1, <2>2, <2>3, <2>4, <2>6 DEF Living
  <2>8. /\ callee' = [callee EXCEPT ![r[Len(r)]] = s[1]]
        /\ caller' = [caller EXCEPT ![s[1]] = r[Len(r)]]
    BY <1>2, <2>2, <2>7
  <2>9. /\ Threads(caller', callee') = (Threads(caller, callee) \ {r, s}) \cup {r \o s}
        /\ Threaded(caller', callee')
    <3>1. Agree(caller, callee) /\ Agree(caller', callee') /\ Threaded(caller, callee)
      BY <2>1, <2>5 DEF ThreadInv
    <3>2. Joins(caller, callee, r, s, caller', callee')
      BY <2>2, <2>7, <2>8, <3>1 DEF Joins
    <3> QED BY <3>2, JoinThreads
  <2>10. /\ r \in Seq(All) /\ s \in Seq(All)
         /\ Len(r) \in Nat \ {0} /\ Len(s) \in Nat \ {0}
    <3>1. \A t \in Threads(caller, callee) : t \in Seq(All) /\ Len(t) \in Nat \ {0}
      BY <2>1, ThreadLinks
    <3> QED BY <2>2, <2>7, <3>1
  <2>11. (r \o s)[1] = r[1] /\ (r \o s)[Len(r \o s)] = s[Len(s)]
    <3>1. /\ Len(r \o s) = Len(r) + Len(s)
          /\ \A i \in 1 .. Len(r) + Len(s) :
               (r \o s)[i] = IF i <= Len(r) THEN r[i] ELSE s[i - Len(r)]
      BY <2>10, ConcatProperties
    <3>2. 1 \in 1 .. Len(r) + Len(s) /\ 1 <= Len(r)
      BY <2>10
    <3>3. /\ Len(r) + Len(s) \in 1 .. Len(r) + Len(s) /\ ~(Len(r) + Len(s) <= Len(r))
          /\ (Len(r) + Len(s)) - Len(r) = Len(s)
      BY <2>10
    <3> QED BY <3>1, <3>2, <3>3
  <2>12. Chains' = (Chains \ {s, r}) \cup {r \o s}
    <3>1. Chains' = Living(caller', callee', alive)
      BY <1>2, <2>9, ChainsAfter
    <3>2. r[1] \in alive \cup {Main}
      BY <2>1, <2>3 DEF Living
    <3>3. Living(caller', callee', alive) = (Living(caller, callee, alive) \ {s, r}) \cup {r \o s}
      BY <2>9, <2>11, <3>2 DEF Living
    <3> QED BY <2>1, <3>1, <3>3
  <2>13. RunningChain' = r \o s
    BY <2>4, <2>6, <2>9, <2>11, <2>12, ChainsAfter
  <2>14. Head(s) = c /\ Head(s) \notin {e \in All : terminated[e]} \cup {Main}
    BY <1>2, <2>2, <2>5, <2>10
  <2>15. {e \in All : terminated'[e]} = {e \in All : terminated[e]}
    BY DEF Call
  <2>16. Abstract!Call(s)
    BY <2>2, <2>3, <2>7, <2>12, <2>13, <2>14, <2>15 DEF Abstract!Call
  <2> QED BY <2>2, <2>9, <2>16 DEF Implements, Abstract!Next
<1> QED BY <1>1, <1>2 DEF Call, Enter, Halt, links

\* detach: with a caller, the last of the chain leaves it; alone and not Main,
\* it moves to the end of the chain of Main.
LEMMA LeaveImplements ==
  ASSUME ThreadInv, CoInv', NEW c \in alive, Leave(c), current = c
  PROVE  Threaded(caller', callee') /\ Abstract!Leave
<1>1. /\ Agree(caller, callee) /\ Chains = Living(caller, callee, alive)
      /\ RunningChain \in Chains /\ RunningChain[Len(RunningChain)] = c
  BY ChainsBefore
<1>2. PICK r \in Chains : r = RunningChain
  BY <1>1
<1>3. r \in Threads(caller, callee) /\ r[Len(r)] = c /\ r[1] \in alive \cup {Main}
  BY <1>1, <1>2 DEF Living
<1>4. /\ r \in Seq(All) /\ Len(r) \in Nat \ {0}
      /\ \A i \in 2 .. Len(r) : caller[r[i]] = r[i - 1]
  <2>1. \A t \in Threads(caller, callee) :
          /\ t \in Seq(All) /\ Len(t) \in Nat \ {0}
          /\ \A i \in 2 .. Len(t) : caller[t[i]] = t[i - 1]
    BY <1>1, ThreadLinks
  <2> QED BY <1>3, <2>1
<1>5. \A i \in 1 .. Len(r) : caller[r[i]] = NULL <=> i = 1
  BY <1>1, <1>3, ThreadEnds
<1>6. Len(r) \in 1 .. Len(r) /\ (caller[c] = NULL <=> Len(r) = 1)
  <2>1. Len(r) \in 1 .. Len(r)
    BY <1>4
  <2> QED BY <1>3, <1>5, <2>1
<1>7. c \in All /\ c # Main /\ callee[c] = NULL /\ Agree(caller', callee')
  BY MainAssumption
  DEF ThreadInv, CoInv, CoTypeOK, CurrentIsLeaf, LinksAgree, Agree, All
<1>8. CASE caller[c] # NULL
  <2>1. Len(r) > 1 /\ caller[c] = r[Len(r) - 1]
    <3>1. Len(r) # 1
      BY <1>6, <1>8
    <3>2. PICK n \in Nat \ {0} : n = Len(r)
      BY <1>4
    <3>3. n > 1 /\ n \in 2 .. n
      BY <3>1, <3>2
    <3> QED BY <1>3, <1>4, <3>2, <3>3
  <2>2. caller[c] \in All /\ caller[c] # c
    BY <1>1, <1>7, <1>8, NullAssumption DEF Agree, All
  <2>3. /\ current' = caller[c] /\ alive' = alive
        /\ callee' = [callee EXCEPT ![r[Len(r) - 1]] = NULL]
        /\ caller' = [caller EXCEPT ![r[Len(r)]] = NULL]
    BY <1>3, <1>8, <2>1, <2>2 DEF Leave, Enter
  <2>4. /\ Threads(caller', callee') = (Threads(caller, callee) \ {r})
                                         \cup {SubSeq(r, 1, Len(r) - 1), <<r[Len(r)]>>}
        /\ Threaded(caller', callee')
    <3>1. Agree(caller, callee) /\ Agree(caller', callee') /\ Threaded(caller, callee)
      BY <1>1, <1>7 DEF ThreadInv
    <3>2. Cuts(caller, callee, r, caller', callee')
      BY <1>3, <2>1, <2>3, <3>1 DEF Cuts
    <3> QED BY <3>2, CutThread
  <2>5. PICK f : f = SubSeq(r, 1, Len(r) - 1)
    OBVIOUS
  <2>6. f[1] = r[1] /\ f[Len(f)] = r[Len(r) - 1]
    BY <1>4, <2>1, <2>5
  <2>7. Chains' = (Chains \ {r}) \cup {f, <<c>>}
    <3>1. Chains' = Living(caller', callee', alive)
      BY <2>3, <2>4, ChainsAfter
    <3>2. <<c>>[1] = c
      OBVIOUS
    <3>3. Living(caller', callee', alive)
            = (Living(caller, callee, alive) \ {r}) \cup {f, <<c>>}
      BY <1>3, <2>4, <2>5, <2>6, <3>2 DEF Living
    <3> QED BY <1>1, <3>1, <3>3
  <2>8. RunningChain' = f
    BY <2>1, <2>3, <2>4, <2>6, <2>7, ChainsAfter
  <2>9. Abstract!Leave
    BY <1>2, <1>3, <2>1, <2>5, <2>7, <2>8
    DEF Abstract!Leave, Abstract!Front, Abstract!Last
  <2> QED BY <2>4, <2>9
<1>9. CASE caller[c] = NULL
  <2>1. Len(r) = 1 /\ r[1] = c
    BY <1>3, <1>6, <1>9
  <2>2. caller[Main] = NULL
    BY DEF ThreadInv, MainIsHead
  <2>3. PICK s \in Chains : /\ s \in Threads(caller, callee) /\ s[1] = Main
                            /\ Leaves(callee, Main) = {s[Len(s)]}
    BY <2>2, HeadsChain
  <2>4. s[Len(s)] # c
    <3>1. Len(s) \in 1 .. Len(s)
      BY <1>1, <2>3, ThreadLinks
    <3>2. s[Len(s)] = c => s = r
      BY <1>1, <1>3, <1>6, <2>3, <3>1, OnePlace
    <3> QED BY <1>7, <2>1, <2>3, <3>2
  <2>5. current' = s[Len(s)] /\ UNCHANGED <<alive, caller, callee>>
    BY <1>9, <2>3, <2>4 DEF Leave, EnterLeaf, Enter, links
  <2>6. Threaded(caller', callee') /\ Chains' = Chains /\ RunningChain' = s
    BY <2>5, EnterImplements
  <2>7. r # <<Main>> /\ Head(s) = Main
    <3>1. <<Main>>[1] = Main
      OBVIOUS
    <3>2. s \in Seq(All) /\ s # <<>>
      BY <2>3 DEF Threads
    <3> QED BY <1>7, <2>1, <2>3, <3>1, <3>2
  <2>8. Abstract!Leave
    BY <1>2, <2>1, <2>6, <2>7 DEF Abstract!Leave
  <2> QED BY <2>6, <2>8
<1> QED BY <1>8, <1>9

LEMMA DetachImplements ==
  ASSUME ThreadInv, CoInv', NEW c \in alive, current = c, Detach(c)
  PROVE  Implements
<1>1. Threaded(caller', callee') /\ Abstract!Leave
  BY LeaveImplements DEF Detach
<1>2. Abstract!Detach
  BY <1>1 DEF Detach, Abstract!Detach
<1> QED BY <1>1, <1>2 DEF Implements, Abstract!Next

LEMMA FinishImplements ==
  ASSUME ThreadInv, CoInv', NEW c \in alive, Finish(c)
  PROVE  Implements
<1>1. Leave(c) /\ current = c
  BY DEF Finish
<1>2. Threaded(caller', callee') /\ Abstract!Leave
  BY <1>1, LeaveImplements
<1>3. Abstract!Last(RunningChain) = c /\ c \in All
  BY <1>1, ChainsBefore DEF Abstract!Last, ThreadInv, CoInv, CoTypeOK
<1>4. {d \in All : terminated'[d]} = {d \in All : terminated[d]} \cup {c}
  BY <1>3 DEF Finish, ThreadInv, CoInv, CoTypeOK
<1>5. Abstract!Finish
  BY <1>2, <1>3, <1>4 DEF Abstract!Finish
<1> QED BY <1>2, <1>5 DEF Implements, Abstract!Next

LEMMA MainStaysHead ==
  ASSUME ThreadInv, [CoNext]_coVars
  PROVE  MainIsHead'
<1>1. \A c \in alive : c # Main
  BY MainAssumption DEF ThreadInv, CoInv, CoTypeOK
<1> QED BY <1>1 DEF ThreadInv, MainIsHead, CoInv, CoTypeOK, CoNext, New, Destroy,
  Resume, Call, Detach, Finish, Leave, EnterLeaf, Enter, Halt, coVars, links, All

\* Every step of the pointers is a step of the chains, or none.
LEMMA StepImplements ==
  ASSUME ThreadInv, CoInv', [CoNext]_coVars
  PROVE  Implements
<1>1. ASSUME NEW c \in Coroutine, New(c) PROVE Implements
  BY <1>1, NewImplements
<1>2. ASSUME NEW c \in Coroutine, Destroy(c) PROVE Implements
  BY <1>2, DestroyImplements
<1>3. ASSUME NEW c \in alive, Resume(c) PROVE Implements
  BY <1>3, ResumeImplements
<1>4. ASSUME NEW c \in alive, Call(c) PROVE Implements
  BY <1>4, CallImplements
<1>5. ASSUME NEW c \in alive, current = c, Detach(c) PROVE Implements
  BY <1>5, DetachImplements
<1>6. ASSUME NEW c \in alive, Finish(c) PROVE Implements
  BY <1>6, FinishImplements
<1>7. CASE UNCHANGED coVars
  BY <1>7, HaltImplements DEF coVars, links
<1> QED BY <1>1, <1>2, <1>3, <1>4, <1>5, <1>6, <1>7 DEF CoNext

\* Before anything is called every coroutine is a chain alone, and Main runs.
LEMMA InitImplements ==
  ASSUME CoInit
  PROVE  ThreadInv /\ Abstract!Init
<1>1. CoInv
  BY CoInitInv
<1>2. Agree(caller, callee) /\ Main \in All
  BY <1>1 DEF CoInv, CoTypeOK, LinksAgree, Agree, All
<1>3. \A c \in All : caller[c] = NULL /\ callee[c] = NULL
  BY DEF CoInit
<1>4. ASSUME NEW c \in All
      PROVE  /\ <<c>> \in Threads(caller, callee)
             /\ 1 \in 1 .. Len(<<c>>) /\ <<c>>[1] = c
  <2>1. <<c>> \in Threads(caller, callee)
    BY <1>2, <1>3, AloneInThread
  <2> QED BY <2>1
<1>5. Threaded(caller, callee)
  BY <1>4 DEF Threaded
<1>6. ThreadInv
  BY <1>1, <1>2, <1>3, <1>5 DEF ThreadInv, MainIsHead
<1>7. Chains = {<<Main>>}
  <2>1. Chains = {s \in Threads(caller, callee) : s[1] = Main}
    BY <1>6, ChainsBefore DEF Living, CoInit
  <2>2. \A s \in Threads(caller, callee) : 1 \in 1 .. Len(s)
    BY <1>2, ThreadLinks
  <2>3. \A s \in Threads(caller, callee) : \A i \in 1 .. Len(s) : s[i] = Main => s = <<Main>>
    BY <1>2, <1>3, AloneInThread
  <2> QED BY <1>2, <1>4, <2>1, <2>2, <2>3
<1>8. RunningChain = <<Main>>
  BY <1>6, <1>7, ChainsBefore
<1>9. {c \in All : terminated[c]} = {}
  BY DEF CoInit
<1> QED BY <1>6, <1>7, <1>8, <1>9 DEF Abstract!Init

\* For any set of coroutines, finite or not, the pointers implement chains
\* of calls: resume, call, detach and the end of a main do to the chains what
\* CallChains says, and what halts the program changes none (coroutine.cc).
THEOREM PointersImplementCallChains == CoSpec => ImplementsCallChains
<1>1. CoInit => ThreadInv /\ Abstract!Init
  BY InitImplements
<1>2. ThreadInv /\ CoInv' /\ [CoNext]_coVars => ThreadInv' /\ [Abstract!Next]_Abstract!vars
  <2> SUFFICES ASSUME ThreadInv, CoInv', [CoNext]_coVars
               PROVE ThreadInv' /\ [Abstract!Next]_Abstract!vars
    OBVIOUS
  <2>1. Implements
    BY StepImplements
  <2>2. MainIsHead'
    BY MainStaysHead
  <2> QED BY <2>1, <2>2 DEF Implements, ThreadInv
<1> QED BY <1>1, <1>2, CoroutineInvariant, PTL DEF CoSpec, ImplementsCallChains, Abstract!Spec

=============================================================================
