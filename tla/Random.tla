------------------------------- MODULE Random -------------------------------
(***************************************************************************)
(* The generators of random numbers (src/src/rng.cc, rng.hh).  All         *)
(* uniform generators draw from one sequence of numbers, the recurrence of *)
(* rngUniform01::draw.  A generator takes a window of MaxSeqLen places of  *)
(* it when it is constructed, reset or has used up the window it had.  The *)
(* other distributions compute their values from the numbers of one or two *)
(* uniform generators of their own; the model follows the places of these  *)
(* numbers, not their values.                                              *)
(***************************************************************************)
EXTENDS Integers, Sequences

CONSTANTS Dist,      \* generators of the program
          Class,     \* their distributions
          Shape,     \* the k of the Erlang distributions, below 10
          MaxSeqLen, \* rngUniform01::maxSeqLen, which nothing assigns
          MaxWindow, \* bound: no generator takes a window beyond it
          NULL

\* "one": rngUniform, rngDiscUniform, rngDiscEmpirical, rngExp, rngWeib and
\* rngBernoulli; "truncated": a left, right or doubly truncated normal, with
\* the normal inside it; "gamma": rngGam, and rngErl from k = 10 on.
Classes == {"one", "erlang", "normal", "truncated", "gamma"}

ASSUME RandomAssumption ==
  /\ Class \in [Dist -> Classes]
  /\ Shape \in 1 .. 9
  /\ MaxSeqLen \in Nat \ {0}
  /\ MaxWindow \in Nat
  /\ NULL \notin Dist

\* The distributions that combine two uniform generators.
Paired == {d \in Dist : Class[d] \in {"normal", "truncated", "gamma"}}

\* The generators of class rngNormal, and those inside truncated ones.
Normals == {d \in Dist : Class[d] \in {"normal", "truncated"}}

\* The members U1 and U2 of a distribution.
Members(d) == IF d \in Paired THEN {<<d, 1>>, <<d, 2>>} ELSE {<<d, 1>>}
Uniforms == UNION {Members(d) : d \in Dist}

\* A place of the sequence: <<w, i>> is the i-th number of the w-th window.
Windows == 0 .. MaxWindow + 2
Places == Windows \X (0 .. MaxSeqLen - 1)

\* The place after p.
After(p) == IF p[2] + 1 = MaxSeqLen THEN <<p[1] + 1, 0>> ELSE <<p[1], p[2] + 1>>

NotAfter(p, q) == p[1] < q[1] \/ (p[1] = q[1] /\ p[2] <= q[2])

VARIABLES globalSeed, \* rngUniform01::_globalSeed: the first window not taken
          made,       \* distributions constructed
          mySeed,     \* rngUniform01::_mySeed
          seqLen,     \* rngUniform01::_seqLen
          spare,      \* normals that keep the second value of a pair (_numDraws is odd)
          calling,    \* distribution whose value is being computed
          todo,       \* uniform generators it still draws from in this round
          used,       \* places of the numbers of this round
          times,      \* history: how often each place was drawn
          latest      \* history: the place each uniform generator drew from last

seeds == <<globalSeed, mySeed, seqLen>>
call == <<calling, todo, used>>
history == <<times, latest>>
vars == <<seeds, made, spare, call, history>>

TypeOK ==
  /\ globalSeed \in Windows
  /\ made \subseteq Dist
  /\ mySeed \in [Uniforms -> Places]
  /\ seqLen \in [Uniforms -> 0 .. MaxSeqLen]
  /\ spare \subseteq Normals
  /\ calling \in made \cup {NULL}
  /\ todo \in Seq(Uniforms)
  /\ used \in Seq(Places)
  /\ times \in [Places -> Nat]
  /\ latest \in [Uniforms -> Places \cup {NULL}]

Init ==
  /\ globalSeed = 0
  /\ made = {}
  /\ mySeed = [u \in Uniforms |-> <<0, 0>>]
  /\ seqLen = [u \in Uniforms |-> 0]
  /\ spare = {}
  /\ calling = NULL /\ todo = <<>> /\ used = <<>>
  /\ times = [p \in Places |-> 0]
  /\ latest = [u \in Uniforms |-> NULL]

-----------------------------------------------------------------------------
\* U1 takes the window at the global seed, which is advanced to its end, and
\* U2 the next one.
TakeWindows(d) ==
  /\ globalSeed <= MaxWindow
  /\ mySeed' = [u \in Uniforms |->
       IF u \in Members(d) THEN <<IF u = <<d, 1>> THEN globalSeed ELSE globalSeed + 1, 0>>
                           ELSE mySeed[u]]
  /\ seqLen' = [u \in Uniforms |-> IF u \in Members(d) THEN MaxSeqLen ELSE seqLen[u]]
  /\ globalSeed' = IF d \in Paired THEN globalSeed + 2 ELSE globalSeed + 1

\* The constructor
Make(d) ==
  /\ calling = NULL /\ d \notin made
  /\ TakeWindows(d)
  /\ made' = made \cup {d}
  /\ UNCHANGED <<spare, call, history>>

\* Mutant: U2 is not reset.
ResetFirst(d) ==
  /\ calling = NULL /\ d \in made
  /\ globalSeed <= MaxWindow
  /\ mySeed' = [mySeed EXCEPT ![<<d, 1>>] = <<globalSeed, 0>>]
  /\ seqLen' = [seqLen EXCEPT ![<<d, 1>>] = MaxSeqLen]
  /\ globalSeed' = globalSeed + 1
  /\ UNCHANGED <<made, spare, call, history>>

\* reset.  A normal keeps the second value of its pair.
Reset(d) ==
  /\ calling = NULL /\ d \in made
  /\ TakeWindows(d)
  /\ UNCHANGED <<made, spare, call, history>>

\* The numbers one round of value needs, in this order
Round(d) ==
  IF Class[d] = "erlang" THEN [i \in 1 .. Shape |-> <<d, 1>>]
  ELSE IF d \in Paired THEN <<<<d, 1>>, <<d, 2>>>> ELSE <<<<d, 1>>>>

\* A round begins, or the second value of a pair is taken.
Begin(d) ==
  /\ todo' = IF d \in spare THEN <<>> ELSE Round(d)
  /\ spare' = IF d \in Normals \ spare THEN spare \cup {d} ELSE spare \ {d}
  /\ used' = <<>>

\* value is called.
Value(d) ==
  /\ calling = NULL /\ d \in made
  /\ calling' = d
  /\ Begin(d)
  /\ UNCHANGED <<seeds, made, history>>

\* Mutant: a window that is used up is used again.
RefillSame(u) ==
  \/ /\ seqLen[u] = 0 /\ mySeed[u][1] > 0
     /\ mySeed' = [mySeed EXCEPT ![u] = <<mySeed[u][1] - 1, 0>>]
     /\ seqLen' = [seqLen EXCEPT ![u] = MaxSeqLen]
     /\ times[mySeed[u]] < 3
     /\ UNCHANGED globalSeed
  \/ /\ seqLen[u] > 0
     /\ mySeed' = [mySeed EXCEPT ![u] = After(mySeed[u])]
     /\ seqLen' = [seqLen EXCEPT ![u] = @ - 1]
     /\ UNCHANGED globalSeed

\* Mutant: the global seed is not advanced past the window taken.
RefillShared(u) ==
  \/ /\ seqLen[u] = 0 /\ globalSeed <= MaxWindow
     /\ mySeed' = [mySeed EXCEPT ![u] = <<globalSeed, 0>>]
     /\ seqLen' = [seqLen EXCEPT ![u] = MaxSeqLen]
     /\ times[mySeed[u]] < 3
     /\ UNCHANGED globalSeed
  \/ /\ seqLen[u] > 0
     /\ mySeed' = [mySeed EXCEPT ![u] = After(mySeed[u])]
     /\ seqLen' = [seqLen EXCEPT ![u] = @ - 1]
     /\ UNCHANGED globalSeed

\* The seed moves on by one number, or to a new window when the length left
\* was zero before this number.
Refill(u) ==
  \/ /\ seqLen[u] = 0 /\ globalSeed <= MaxWindow
     /\ mySeed' = [mySeed EXCEPT ![u] = <<globalSeed, 0>>]
     /\ seqLen' = [seqLen EXCEPT ![u] = MaxSeqLen]
     /\ globalSeed' = globalSeed + 1
  \/ /\ seqLen[u] > 0
     /\ mySeed' = [mySeed EXCEPT ![u] = After(mySeed[u])]
     /\ seqLen' = [seqLen EXCEPT ![u] = @ - 1]
     /\ UNCHANGED globalSeed

\* rngUniform01::value of a generator u with the seed p
DrawFrom(u, p) ==
  /\ Refill(u)
  /\ used' = Append(used, p)
  /\ times' = [times EXCEPT ![p] = @ + 1]
  /\ latest' = [latest EXCEPT ![u] = p]

Draw ==
  /\ todo # <<>>
  /\ DrawFrom(Head(todo), mySeed[Head(todo)])
  /\ todo' = Tail(todo)
  /\ UNCHANGED <<made, spare, calling>>

\* The value is rejected: rngGam draws again, a truncated normal asks its
\* normal for another value.
Reject ==
  /\ calling # NULL /\ todo = <<>>
  /\ Class[calling] \in {"gamma", "truncated"}
  /\ Begin(calling)
  /\ UNCHANGED <<seeds, made, calling, history>>

\* value returns.
Return ==
  /\ calling # NULL /\ todo = <<>>
  /\ calling' = NULL /\ used' = <<>>
  /\ UNCHANGED <<seeds, made, spare, todo, history>>

Next ==
  \/ \E d \in Dist : Make(d) \/ Reset(d) \/ Value(d)
  \/ Draw \/ Reject \/ Return

Spec == Init /\ [][Next]_vars

-----------------------------------------------------------------------------
\* A place is drawn once, and the first place of a window at most twice: by
\* the generator that has the window, and by the one that has the window
\* before it, as a window yields MaxSeqLen + 1 numbers (rng.cc:91).
WindowsShareFirst ==
  \A p \in Places : times[p] <= IF p[2] = 0 THEN 2 ELSE 1

\* A uniform generator never draws from a place before one it has drawn from,
\* whatever other generators did to the global seed meanwhile.
NeverDrawsBack ==
  [][\A u \in Uniforms :
       latest[u] # NULL => NotAfter(latest[u], latest'[u])]_vars

\* The two numbers that a normal or gamma value is computed from are never
\* the same, nor from the same window: U1 and U2 change windows together,
\* through constructor, resets, and whatever others take in between.
PairsDiffer ==
  calling \in Paired /\ Len(used) = 2 => used[1][1] # used[2][1]

=============================================================================
