---------------------------- MODULE RandomProofs ----------------------------
(***************************************************************************)
(* Proofs about Random, for any generators, window length and bound.  The  *)
(* seeds are in different windows (SeedInv); a place that a generator has  *)
(* still to come to was drawn less often than it may be (TimesInv); the    *)
(* two uniform generators of a distribution have the same length left,     *)
(* but for the moment between their draws (PairInv).                       *)
(***************************************************************************)
EXTENDS Random, SequenceTheorems, TLAPS

\* The uniform generators that exist.
Active == UNION {Members(d) : d \in made}

\* The window u draws from: its seed is past it before the last number.
WindowOf(u) == IF seqLen[u] = 0 THEN mySeed[u][1] - 1 ELSE mySeed[u][1]

SeedInv ==
  /\ \A u \in Active :
       /\ mySeed[u][2] = IF seqLen[u] = 0 THEN 0 ELSE MaxSeqLen - seqLen[u]
       /\ WindowOf(u) \in Nat
       /\ WindowOf(u) < globalSeed
  /\ \A u, v \in Active : u # v => WindowOf(u) # WindowOf(v)

\* The first place of w is still to be drawn by who has, or will have, w.
FirstToCome(w) ==
  w >= globalSeed \/ \E u \in Active : WindowOf(u) = w /\ seqLen[u] = MaxSeqLen

\* The first place of w is still to be drawn by who has, or will have, w - 1.
LastToCome(w) == w > globalSeed \/ \E u \in Active : WindowOf(u) + 1 = w

\* The place <<w, i>>, not the first, is still to be drawn.
ToCome(w, i) ==
  w >= globalSeed \/ \E u \in Active : WindowOf(u) = w /\ MaxSeqLen - seqLen[u] <= i

TimesInv ==
  \A w \in Windows :
    /\ times[<<w, 0>>] <= 2
    /\ FirstToCome(w) => times[<<w, 0>>] <= 1
    /\ LastToCome(w) => times[<<w, 0>>] <= 1
    /\ FirstToCome(w) /\ LastToCome(w) => times[<<w, 0>>] = 0
    /\ \A i \in 1 .. MaxSeqLen - 1 :
         times[<<w, i>>] <= 1 /\ (ToCome(w, i) => times[<<w, i>>] = 0)

LatestInv ==
  \A u \in Uniforms :
    latest[u] # NULL => u \in Active /\ NotAfter(latest[u], mySeed[u])

Between(d) == calling = d /\ Len(todo) = 1

PairInv ==
  /\ \A d \in made \cap Paired :
       seqLen[<<d, 1>>] = IF ~Between(d) THEN seqLen[<<d, 2>>]
                          ELSE IF seqLen[<<d, 2>>] = 0 THEN MaxSeqLen
                          ELSE seqLen[<<d, 2>>] - 1
  /\ calling \in Paired =>
       \/ todo = <<>>
       \/ todo = <<<<calling, 1>>, <<calling, 2>>>> /\ used = <<>>
       \/ /\ todo = <<<<calling, 2>>>>
          /\ Len(used) = 1
          /\ used[1][1] # mySeed[<<calling, 2>>][1]
  /\ PairsDiffer

CallInv ==
  /\ calling = NULL => todo = <<>>
  /\ calling # NULL => todo \in Seq(Members(calling))

RandomInv ==
  /\ TypeOK
  /\ SeedInv
  /\ TimesInv
  /\ LatestInv
  /\ CallInv
  /\ PairInv

-----------------------------------------------------------------------------
(***************************************************************************)
(* Uniform generators and places                                           *)
(***************************************************************************)

LEMMA MembersOf ==
  ASSUME NEW d \in Dist
  PROVE  /\ <<d, 1>> \in Members(d)
         /\ Members(d) \subseteq Uniforms
         /\ \A u \in Members(d) : u = <<d, 1>> \/ (d \in Paired /\ u = <<d, 2>>)
         /\ d \in Paired => <<d, 2>> \in Members(d)
BY DEF Members, Uniforms

LEMMA ActiveUniforms ==
  ASSUME made \subseteq Dist
  PROVE  Active \subseteq Uniforms
BY MembersOf DEF Active, Uniforms

\* A place consists of a window and an offset.
LEMMA PlaceParts ==
  ASSUME NEW p \in Places
  PROVE  p[1] \in Nat /\ p[1] \in Windows /\ p[2] \in 0 .. MaxSeqLen - 1 /\ p = <<p[1], p[2]>>
BY RandomAssumption DEF Places, Windows

-----------------------------------------------------------------------------
(***************************************************************************)
(* A distribution takes new windows                                        *)
(***************************************************************************)

TakesWindows(d) ==
  /\ TakeWindows(d)
  /\ made' = made \cup {d}
  /\ UNCHANGED history

LEMMA TakeSeeds ==
  ASSUME RandomInv, NEW d \in Dist, TakesWindows(d)
  PROVE  /\ globalSeed' \in Windows /\ globalSeed' > globalSeed
         /\ mySeed' \in [Uniforms -> Places]
         /\ seqLen' \in [Uniforms -> 0 .. MaxSeqLen]
         /\ Active' = Active \cup Members(d)
         /\ \A u \in Members(d) :
              /\ seqLen'[u] = MaxSeqLen /\ mySeed'[u] = <<WindowOf(u)', 0>>
              /\ WindowOf(u)' = IF u = <<d, 1>> THEN globalSeed ELSE globalSeed + 1
              /\ WindowOf(u)' < globalSeed'
         /\ \A u \in Uniforms \ Members(d) :
              /\ seqLen'[u] = seqLen[u] /\ mySeed'[u] = mySeed[u]
              /\ WindowOf(u)' = WindowOf(u)
<1>1. globalSeed \in Nat /\ globalSeed \in Windows /\ globalSeed <= MaxWindow /\ MaxWindow \in Nat
  BY RandomAssumption DEF RandomInv, TypeOK, Windows, TakesWindows, TakeWindows
<1>2. globalSeed' \in Windows /\ globalSeed' > globalSeed
  BY <1>1 DEF TakesWindows, TakeWindows, Windows
<1>3. <<globalSeed, 0>> \in Places /\ <<globalSeed + 1, 0>> \in Places
  BY <1>1, RandomAssumption DEF Places, Windows
<1>4. mySeed' \in [Uniforms -> Places] /\ seqLen' \in [Uniforms -> 0 .. MaxSeqLen]
  <2>1. ASSUME NEW u \in Uniforms
        PROVE  <<IF u = <<d, 1>> THEN globalSeed ELSE globalSeed + 1, 0>> \in Places
    BY <1>3
  <2>2. mySeed \in [Uniforms -> Places] /\ seqLen \in [Uniforms -> 0 .. MaxSeqLen]
    BY DEF RandomInv, TypeOK
  <2> QED BY <2>1, <2>2, RandomAssumption DEF TakesWindows, TakeWindows
<1>5. Active' = Active \cup Members(d)
  BY DEF TakesWindows, Active, Members
<1>6. ASSUME NEW u \in Members(d)
      PROVE  /\ seqLen'[u] = MaxSeqLen /\ mySeed'[u] = <<WindowOf(u)', 0>>
             /\ WindowOf(u)' = IF u = <<d, 1>> THEN globalSeed ELSE globalSeed + 1
             /\ WindowOf(u)' < globalSeed'
  <2>1. u \in Uniforms /\ (u = <<d, 1>> \/ (d \in Paired /\ u = <<d, 2>>))
    BY MembersOf
  <2>2. /\ seqLen'[u] = MaxSeqLen
        /\ mySeed'[u] = <<IF u = <<d, 1>> THEN globalSeed ELSE globalSeed + 1, 0>>
    BY <2>1 DEF TakesWindows, TakeWindows
  <2>3. WindowOf(u)' = IF u = <<d, 1>> THEN globalSeed ELSE globalSeed + 1
    BY <2>2, RandomAssumption DEF WindowOf
  <2>4. WindowOf(u)' < globalSeed'
    <3>1. CASE d \in Paired
      BY <3>1, <2>3, <1>1 DEF TakesWindows, TakeWindows
    <3>2. CASE d \notin Paired
      BY <3>2, <2>1, <2>3, <1>1 DEF TakesWindows, TakeWindows
    <3> QED BY <3>1, <3>2
  <2> QED BY <2>2, <2>3, <2>4
<1>7. ASSUME NEW u \in Uniforms \ Members(d)
      PROVE  /\ seqLen'[u] = seqLen[u] /\ mySeed'[u] = mySeed[u]
             /\ WindowOf(u)' = WindowOf(u)
  BY DEF TakesWindows, TakeWindows, WindowOf
<1> QED BY <1>2, <1>4, <1>5, <1>6, <1>7

LEMMA TakeSeedInv ==
  ASSUME RandomInv, NEW d \in Dist, TakesWindows(d)
  PROVE  SeedInv'
<1>1. globalSeed \in Nat /\ globalSeed' \in Nat
  BY TakeSeeds DEF RandomInv, TypeOK, Windows
<1>2. Active \subseteq Uniforms
  BY ActiveUniforms DEF RandomInv, TypeOK
<1>3. ASSUME NEW u \in Active'
      PROVE  /\ mySeed'[u][2] = IF seqLen'[u] = 0 THEN 0 ELSE MaxSeqLen - seqLen'[u]
             /\ WindowOf(u)' \in Nat
             /\ WindowOf(u)' < globalSeed'
  <2>1. CASE u \in Members(d)
    BY <1>1, <2>1, TakeSeeds, RandomAssumption
  <2>2. CASE u \notin Members(d)
    <3>1. u \in Active /\ u \in Uniforms \ Members(d)
      BY <1>2, <1>3, <2>2, TakeSeeds
    <3>2. seqLen'[u] = seqLen[u] /\ mySeed'[u] = mySeed[u] /\ WindowOf(u)' = WindowOf(u)
      BY <3>1, TakeSeeds
    <3> QED BY <1>1, <3>1, <3>2, TakeSeeds DEF RandomInv, SeedInv
  <2> QED BY <2>1, <2>2
<1>4. ASSUME NEW u \in Active', NEW v \in Active', u # v
      PROVE  WindowOf(u)' # WindowOf(v)'
  <2>1. \A x \in Active' \ Members(d) : WindowOf(x)' = WindowOf(x) /\ WindowOf(x) \in Nat
                                        /\ WindowOf(x) < globalSeed /\ x \in Active
    BY <1>2, TakeSeeds DEF RandomInv, SeedInv
  <2>2. CASE u \in Members(d) /\ v \in Members(d)
    <3>1. (u = <<d, 1>>) # (v = <<d, 1>>)
      BY <1>4, <2>2, MembersOf
    <3>2. /\ WindowOf(u)' = IF u = <<d, 1>> THEN globalSeed ELSE globalSeed + 1
          /\ WindowOf(v)' = IF v = <<d, 1>> THEN globalSeed ELSE globalSeed + 1
      BY <2>2, TakeSeeds
    <3> QED BY <1>1, <3>1, <3>2
  <2>3. CASE u \notin Members(d) /\ v \notin Members(d)
    BY <1>4, <2>1, <2>3 DEF RandomInv, SeedInv
  <2>4. \A x \in Members(d) : WindowOf(x)' >= globalSeed
    BY <1>1, TakeSeeds
  <2>5. CASE (u \in Members(d)) # (v \in Members(d))
    BY <1>1, <2>1, <2>4, <2>5, TakeSeeds
  <2> QED BY <2>2, <2>3, <2>5
<1> QED BY <1>3, <1>4 DEF SeedInv

LEMMA TakeTimesInv ==
  ASSUME RandomInv, NEW d \in Dist, TakesWindows(d)
  PROVE  TimesInv'
<1> USE RandomAssumption
<1>1. globalSeed \in Nat /\ globalSeed' \in Nat /\ globalSeed' > globalSeed
  BY TakeSeeds DEF RandomInv, TypeOK, Windows
<1>2. times' = times
  BY DEF TakesWindows, history
<1>3. ASSUME NEW u \in Active'
      PROVE  \/ u \in Active /\ WindowOf(u)' = WindowOf(u) /\ seqLen'[u] = seqLen[u]
             \/ WindowOf(u)' >= globalSeed /\ WindowOf(u)' \in Nat
  <2>1. CASE u \in Members(d)
    BY <1>1, <2>1, TakeSeeds
  <2>2. CASE u \notin Members(d)
    <3>1. u \in Active /\ Active \subseteq Uniforms
      BY <2>2, TakeSeeds, ActiveUniforms DEF RandomInv, TypeOK
    <3>2. u \in Uniforms \ Members(d)
      BY <2>2, <3>1
    <3> QED BY <3>1, <3>2, TakeSeeds
  <2> QED BY <2>1, <2>2
<1>4. ASSUME NEW w \in Windows, FirstToCome(w)'
      PROVE  FirstToCome(w)
  BY <1>1, <1>3, <1>4 DEF FirstToCome, Windows
<1>5. ASSUME NEW w \in Windows, LastToCome(w)'
      PROVE  LastToCome(w)
  BY <1>1, <1>3, <1>5 DEF LastToCome, Windows
<1>6. ASSUME NEW w \in Windows, NEW i \in 1 .. MaxSeqLen - 1, ToCome(w, i)'
      PROVE  ToCome(w, i)
  BY <1>1, <1>3, <1>6 DEF ToCome, Windows
<1> QED BY <1>2, <1>4, <1>5, <1>6 DEF RandomInv, TimesInv

LEMMA TakeLatestInv ==
  ASSUME RandomInv, NEW d \in Dist, TakesWindows(d)
  PROVE  LatestInv'
<1> SUFFICES ASSUME NEW u \in Uniforms, latest[u] # NULL
             PROVE  u \in Active' /\ NotAfter(latest[u], mySeed'[u])
  BY DEF LatestInv, TakesWindows, history
<1>1. u \in Active /\ NotAfter(latest[u], mySeed[u]) /\ latest[u] \in Places /\ mySeed[u] \in Places
  BY DEF RandomInv, LatestInv, TypeOK
<1>2. globalSeed \in Nat
  BY DEF RandomInv, TypeOK, Windows
<1>3. CASE u \notin Members(d)
  BY <1>1, <1>3, TakeSeeds
<1>4. CASE u \in Members(d)
  <2>1. mySeed'[u] = <<WindowOf(u)', 0>> /\ WindowOf(u)' \in Nat /\ WindowOf(u)' >= globalSeed
    BY <1>2, <1>4, TakeSeeds
  <2>2. mySeed[u][1] < globalSeed \/ (mySeed[u][1] = globalSeed /\ mySeed[u][2] = 0)
    BY <1>1, <1>2, PlaceParts DEF RandomInv, SeedInv, WindowOf
  <2>3. /\ latest[u][1] \in Nat /\ latest[u][2] \in Nat
        /\ mySeed[u][1] \in Nat /\ mySeed[u][2] \in Nat
    BY <1>1, PlaceParts, RandomAssumption
  <2>4. latest[u][1] < globalSeed \/ (latest[u][1] = globalSeed /\ latest[u][2] = 0)
    BY <1>1, <1>2, <2>2, <2>3 DEF NotAfter
  <2>5. NotAfter(latest[u], mySeed'[u])
    BY <1>2, <2>1, <2>3, <2>4 DEF NotAfter
  <2> QED BY <1>1, <2>5, TakeSeeds
<1> QED BY <1>3, <1>4

-----------------------------------------------------------------------------
(***************************************************************************)
(* A uniform generator draws a number                                      *)
(***************************************************************************)

Draws(u) ==
  /\ Refill(u)
  /\ times' = [times EXCEPT ![mySeed[u]] = @ + 1]
  /\ latest' = [latest EXCEPT ![u] = mySeed[u]]
  /\ UNCHANGED made

\* The place of the number: within the window, or the first of the next.
LEMMA DrawPlace ==
  ASSUME RandomInv, NEW u \in Active
  PROVE  /\ u \in Uniforms /\ mySeed[u] \in Places /\ WindowOf(u) \in Nat
         /\ WindowOf(u) < globalSeed /\ globalSeed \in Nat /\ seqLen[u] \in 0 .. MaxSeqLen
         /\ mySeed[u] = IF seqLen[u] = 0 THEN <<WindowOf(u) + 1, 0>>
                                         ELSE <<WindowOf(u), MaxSeqLen - seqLen[u]>>
<1>1. u \in Uniforms
  BY ActiveUniforms DEF RandomInv, TypeOK
<1>2. mySeed[u] \in Places /\ seqLen[u] \in 0 .. MaxSeqLen /\ globalSeed \in Nat
  BY <1>1 DEF RandomInv, TypeOK, Windows
<1>3. /\ mySeed[u][2] = IF seqLen[u] = 0 THEN 0 ELSE MaxSeqLen - seqLen[u]
      /\ WindowOf(u) \in Nat /\ WindowOf(u) < globalSeed
  BY DEF RandomInv, SeedInv
<1>4. mySeed[u][1] = IF seqLen[u] = 0 THEN WindowOf(u) + 1 ELSE WindowOf(u)
  BY <1>2, PlaceParts DEF WindowOf
<1> QED BY <1>1, <1>2, <1>3, <1>4, PlaceParts

LEMMA DrawSeeds ==
  ASSUME RandomInv, NEW u \in Active, Draws(u)
  PROVE  /\ globalSeed' \in Windows /\ globalSeed' >= globalSeed
         /\ mySeed' \in [Uniforms -> Places]
         /\ seqLen' \in [Uniforms -> 0 .. MaxSeqLen]
         /\ Active' = Active
         /\ \/ /\ seqLen[u] = 0 /\ seqLen'[u] = MaxSeqLen
               /\ WindowOf(u)' = globalSeed /\ globalSeed' = globalSeed + 1
               /\ mySeed'[u] = <<globalSeed, 0>>
            \/ /\ seqLen[u] > 0 /\ seqLen'[u] = seqLen[u] - 1
               /\ WindowOf(u)' = WindowOf(u) /\ globalSeed' = globalSeed
               /\ mySeed'[u] = After(mySeed[u])
               /\ mySeed'[u] = IF seqLen'[u] = 0 THEN <<WindowOf(u) + 1, 0>>
                                                 ELSE <<WindowOf(u), MaxSeqLen - seqLen'[u]>>
         /\ \A v \in Uniforms \ {u} :
              seqLen'[v] = seqLen[v] /\ mySeed'[v] = mySeed[v] /\ WindowOf(v)' = WindowOf(v)
<1> USE RandomAssumption
<1>1. globalSeed \in Nat /\ globalSeed \in Windows
      /\ mySeed \in [Uniforms -> Places] /\ seqLen \in [Uniforms -> 0 .. MaxSeqLen]
  BY DEF RandomInv, TypeOK, Windows
<1>2. Active' = Active
  BY DEF Draws, Active, Members
<1>3. /\ u \in Uniforms /\ WindowOf(u) \in Nat /\ WindowOf(u) < globalSeed
      /\ seqLen[u] \in 0 .. MaxSeqLen
      /\ mySeed[u] = IF seqLen[u] = 0 THEN <<WindowOf(u) + 1, 0>>
                                      ELSE <<WindowOf(u), MaxSeqLen - seqLen[u]>>
  BY DrawPlace
<1>4. CASE /\ seqLen[u] = 0 /\ globalSeed <= MaxWindow
           /\ mySeed' = [mySeed EXCEPT ![u] = <<globalSeed, 0>>]
           /\ seqLen' = [seqLen EXCEPT ![u] = MaxSeqLen]
           /\ globalSeed' = globalSeed + 1
  <2>1. <<globalSeed, 0>> \in Places /\ globalSeed' \in Windows
    BY <1>1, <1>4 DEF Places, Windows
  <2>2. mySeed' \in [Uniforms -> Places] /\ seqLen' \in [Uniforms -> 0 .. MaxSeqLen]
    <3>1. MaxSeqLen \in 0 .. MaxSeqLen
      OBVIOUS
    <3> QED BY <1>1, <1>4, <2>1, <3>1
  <2>3. mySeed'[u] = <<globalSeed, 0>> /\ seqLen'[u] = MaxSeqLen
    BY <1>1, <1>3, <1>4
  <2>4. WindowOf(u)' = globalSeed
    BY <2>3 DEF WindowOf
  <2>5. \A v \in Uniforms \ {u} :
          seqLen'[v] = seqLen[v] /\ mySeed'[v] = mySeed[v] /\ WindowOf(v)' = WindowOf(v)
    BY <1>1, <1>4 DEF WindowOf
  <2> QED BY <1>1, <1>2, <1>4, <2>1, <2>2, <2>3, <2>4, <2>5
<1>5. CASE /\ seqLen[u] > 0
           /\ mySeed' = [mySeed EXCEPT ![u] = After(mySeed[u])]
           /\ seqLen' = [seqLen EXCEPT ![u] = @ - 1]
           /\ globalSeed' = globalSeed
  <2>1. seqLen'[u] = seqLen[u] - 1 /\ mySeed'[u] = After(mySeed[u])
    BY <1>1, <1>3, <1>5
  <2>2. After(mySeed[u]) = IF seqLen[u] = 1 THEN <<WindowOf(u) + 1, 0>>
                                            ELSE <<WindowOf(u), MaxSeqLen - seqLen[u] + 1>>
    BY <1>3, <1>5 DEF After
  <2>3. After(mySeed[u]) \in Places
    BY <1>1, <1>3, <1>5, <2>2 DEF Places, Windows
  <2>4. mySeed' \in [Uniforms -> Places] /\ seqLen' \in [Uniforms -> 0 .. MaxSeqLen]
    BY <1>1, <1>3, <1>5, <2>3
  <2>5. mySeed'[u] = IF seqLen'[u] = 0 THEN <<WindowOf(u) + 1, 0>>
                                       ELSE <<WindowOf(u), MaxSeqLen - seqLen'[u]>>
    BY <1>3, <2>1, <2>2
  <2>6. WindowOf(u)' = WindowOf(u)
    BY <1>3, <2>5 DEF WindowOf
  <2>7. \A v \in Uniforms \ {u} :
          seqLen'[v] = seqLen[v] /\ mySeed'[v] = mySeed[v] /\ WindowOf(v)' = WindowOf(v)
    BY <1>1, <1>5 DEF WindowOf
  <2> QED BY <1>1, <1>2, <1>5, <2>1, <2>4, <2>5, <2>6, <2>7
<1> QED BY <1>4, <1>5 DEF Draws, Refill

LEMMA DrawSeedInv ==
  ASSUME RandomInv, NEW u \in Active, Draws(u)
  PROVE  SeedInv'
<1> USE RandomAssumption
<1>1. Active' = Active /\ Active \subseteq Uniforms
  BY DrawSeeds, ActiveUniforms DEF RandomInv, TypeOK
<1>2. globalSeed \in Nat /\ globalSeed' \in Nat /\ globalSeed' >= globalSeed
  <2>1. globalSeed' \in Windows /\ globalSeed' >= globalSeed
    BY DrawSeeds
  <2> QED BY <2>1 DEF RandomInv, TypeOK, Windows
<1>3. \A v \in Active \ {u} : /\ seqLen'[v] = seqLen[v] /\ mySeed'[v] = mySeed[v]
                              /\ WindowOf(v)' = WindowOf(v)
  <2>1. \A v \in Uniforms \ {u} :
          seqLen'[v] = seqLen[v] /\ mySeed'[v] = mySeed[v] /\ WindowOf(v)' = WindowOf(v)
    BY DrawSeeds
  <2> QED BY <1>1, <2>1
<1>4. \/ /\ seqLen'[u] = MaxSeqLen /\ mySeed'[u] = <<globalSeed, 0>>
         /\ WindowOf(u)' = globalSeed /\ globalSeed' = globalSeed + 1
      \/ /\ WindowOf(u)' = WindowOf(u)
         /\ mySeed'[u][2] = IF seqLen'[u] = 0 THEN 0 ELSE MaxSeqLen - seqLen'[u]
  <2>1. \/ /\ seqLen'[u] = MaxSeqLen /\ mySeed'[u] = <<globalSeed, 0>>
           /\ WindowOf(u)' = globalSeed /\ globalSeed' = globalSeed + 1
        \/ /\ WindowOf(u)' = WindowOf(u)
           /\ mySeed'[u] = IF seqLen'[u] = 0 THEN <<WindowOf(u) + 1, 0>>
                                             ELSE <<WindowOf(u), MaxSeqLen - seqLen'[u]>>
    BY DrawSeeds
  <2> QED BY <2>1
<1>5. ASSUME NEW v \in Active
      PROVE  /\ mySeed'[v][2] = IF seqLen'[v] = 0 THEN 0 ELSE MaxSeqLen - seqLen'[v]
             /\ WindowOf(v)' \in Nat
             /\ WindowOf(v)' < globalSeed'
  <2>1. /\ mySeed[v][2] = IF seqLen[v] = 0 THEN 0 ELSE MaxSeqLen - seqLen[v]
        /\ WindowOf(v) \in Nat /\ WindowOf(v) < globalSeed
    BY DEF RandomInv, SeedInv
  <2>2. CASE v = u
    BY <1>2, <1>4, <2>1, <2>2
  <2>3. CASE v # u
    BY <1>2, <1>3, <2>1, <2>3
  <2> QED BY <2>2, <2>3
<1>6. ASSUME NEW v \in Active, NEW x \in Active, v # x
      PROVE  WindowOf(v)' # WindowOf(x)'
  <2>1. /\ WindowOf(v) # WindowOf(x)
        /\ WindowOf(v) \in Nat /\ WindowOf(v) < globalSeed
        /\ WindowOf(x) \in Nat /\ WindowOf(x) < globalSeed
    BY <1>6 DEF RandomInv, SeedInv
  <2> QED BY <1>2, <1>3, <1>4, <1>6, <2>1
<1> QED BY <1>1, <1>5, <1>6 DEF SeedInv

LEMMA DrawTimesInv ==
  ASSUME RandomInv, NEW u \in Active, Draws(u)
  PROVE  TimesInv'
<1> USE RandomAssumption
<1> DEFINE p == mySeed[u]
\* Constants, as the step changes what u has.
<1>a. PICK w0 \in Nat : w0 = WindowOf(u)
  BY DrawPlace
<1>b. PICK i0 \in 0 .. MaxSeqLen : i0 = MaxSeqLen - seqLen[u]
  <2>1. seqLen[u] \in 0 .. MaxSeqLen
    BY DrawPlace
  <2> QED BY <2>1
<1>1. /\ p \in Places /\ w0 \in Nat /\ w0 < globalSeed /\ globalSeed \in Nat
      /\ seqLen[u] \in 0 .. MaxSeqLen
      /\ p = IF seqLen[u] = 0 THEN <<w0 + 1, 0>> ELSE <<w0, i0>>
      /\ WindowOf(u) = w0 /\ i0 = MaxSeqLen - seqLen[u]
  <2>1. /\ p \in Places /\ WindowOf(u) < globalSeed /\ globalSeed \in Nat
        /\ seqLen[u] \in 0 .. MaxSeqLen
        /\ p = IF seqLen[u] = 0 THEN <<WindowOf(u) + 1, 0>>
                                ELSE <<WindowOf(u), MaxSeqLen - seqLen[u]>>
    BY DrawPlace
  <2> QED BY <1>a, <1>b, <2>1
<1>2. Active' = Active /\ globalSeed' \in Nat /\ globalSeed' >= globalSeed
  <2>1. Active' = Active /\ globalSeed' \in Windows /\ globalSeed' >= globalSeed
    BY DrawSeeds
  <2> QED BY <2>1 DEF Windows
<1>3. \/ /\ seqLen[u] = 0 /\ seqLen'[u] = MaxSeqLen
         /\ WindowOf(u)' = globalSeed /\ globalSeed' = globalSeed + 1
      \/ /\ seqLen[u] > 0 /\ seqLen'[u] = seqLen[u] - 1
         /\ WindowOf(u)' = w0 /\ globalSeed' = globalSeed
  BY <1>a, DrawSeeds
<1>4. \A v \in Active \ {u} : /\ seqLen'[v] = seqLen[v] /\ WindowOf(v)' = WindowOf(v)
                              /\ WindowOf(v) \in Nat /\ WindowOf(v) # w0
                              /\ WindowOf(v) < globalSeed
  <2>1. \A v \in Uniforms \ {u} : seqLen'[v] = seqLen[v] /\ WindowOf(v)' = WindowOf(v)
    BY DrawSeeds
  <2>2. Active \subseteq Uniforms
    BY ActiveUniforms DEF RandomInv, TypeOK
  <2> QED BY <1>a, <2>1, <2>2 DEF RandomInv, SeedInv
<1>5. ASSUME NEW w \in Windows, NEW i \in 0 .. MaxSeqLen - 1
      PROVE  /\ times[<<w, i>>] \in Nat
             /\ times'[<<w, i>>] = IF p = <<w, i>> THEN times[<<w, i>>] + 1 ELSE times[<<w, i>>]
  <2>1. <<w, i>> \in Places
    BY DEF Places
  <2> QED BY <1>1, <2>1 DEF Draws, RandomInv, TypeOK
\* Who has still to come after the step had still to come before.
<1>6. ASSUME NEW w \in Windows
      PROVE  /\ FirstToCome(w)' => FirstToCome(w)
             /\ LastToCome(w)' => LastToCome(w)
             /\ \A i \in 1 .. MaxSeqLen - 1 : ToCome(w, i)' => ToCome(w, i)
  <2>1. w \in Nat
    BY DEF Windows
  <2>2. FirstToCome(w)' => FirstToCome(w)
    BY <1>1, <1>2, <1>3, <1>4, <2>1 DEF FirstToCome
  <2>3. LastToCome(w)' => LastToCome(w)
    BY <1>1, <1>2, <1>3, <1>4, <2>1 DEF LastToCome
  <2>4. ASSUME NEW i \in 1 .. MaxSeqLen - 1, ToCome(w, i)'
        PROVE  ToCome(w, i)
    BY <1>1, <1>2, <1>3, <1>4, <2>1, <2>4 DEF ToCome
  <2> QED BY <2>2, <2>3, <2>4
\* The place drawn was to come, and is not any more.
<1>7. ASSUME seqLen[u] = 0
      PROVE  p = <<w0 + 1, 0>> /\ LastToCome(w0 + 1) /\ ~LastToCome(w0 + 1)'
  <2>1. p = <<w0 + 1, 0>> /\ LastToCome(w0 + 1)
    BY <1>1, <1>7 DEF LastToCome
  <2>2. ASSUME NEW v \in Active', WindowOf(v)' + 1 = w0 + 1
        PROVE  FALSE
    BY <1>1, <1>2, <1>3, <1>4, <1>7, <2>2
  <2> QED BY <1>1, <1>2, <2>1, <2>2 DEF LastToCome
<1>8. ASSUME seqLen[u] = MaxSeqLen
      PROVE  p = <<w0, 0>> /\ FirstToCome(w0) /\ ~FirstToCome(w0)'
  <2>1. p = <<w0, 0>> /\ FirstToCome(w0)
    BY <1>1, <1>8 DEF FirstToCome
  <2>2. ASSUME NEW v \in Active', WindowOf(v)' = w0, seqLen'[v] = MaxSeqLen
        PROVE  FALSE
    BY <1>1, <1>2, <1>3, <1>4, <1>8, <2>2
  <2> QED BY <1>1, <1>2, <2>1, <2>2 DEF FirstToCome
<1>9. ASSUME seqLen[u] \in 1 .. MaxSeqLen - 1
      PROVE  p = <<w0, i0>> /\ i0 \in 1 .. MaxSeqLen - 1 /\ ToCome(w0, i0) /\ ~ToCome(w0, i0)'
  <2>1. p = <<w0, i0>> /\ i0 \in 1 .. MaxSeqLen - 1 /\ ToCome(w0, i0)
    BY <1>1, <1>9 DEF ToCome
  <2>2. ASSUME NEW v \in Active', WindowOf(v)' = w0, MaxSeqLen - seqLen'[v] <= i0
        PROVE  FALSE
    BY <1>1, <1>2, <1>3, <1>4, <1>9, <2>2
  <2>3. ~ToCome(w0, i0)'
    BY <1>1, <1>2, <2>2 DEF ToCome
  <2> QED BY <2>1, <2>3
<1> SUFFICES ASSUME NEW w \in Windows
             PROVE  /\ times'[<<w, 0>>] <= 2
                    /\ FirstToCome(w)' => times'[<<w, 0>>] <= 1
                    /\ LastToCome(w)' => times'[<<w, 0>>] <= 1
                    /\ FirstToCome(w)' /\ LastToCome(w)' => times'[<<w, 0>>] = 0
                    /\ \A i \in 1 .. MaxSeqLen - 1 :
                         times'[<<w, i>>] <= 1 /\ (ToCome(w, i)' => times'[<<w, i>>] = 0)
  BY DEF TimesInv, Windows
<1>10. /\ times[<<w, 0>>] <= 2
       /\ FirstToCome(w) => times[<<w, 0>>] <= 1
       /\ LastToCome(w) => times[<<w, 0>>] <= 1
       /\ FirstToCome(w) /\ LastToCome(w) => times[<<w, 0>>] = 0
       /\ \A i \in 1 .. MaxSeqLen - 1 :
            times[<<w, i>>] <= 1 /\ (ToCome(w, i) => times[<<w, i>>] = 0)
  BY DEF RandomInv, TimesInv
<1>11. /\ times'[<<w, 0>>] <= 2
       /\ FirstToCome(w)' => times'[<<w, 0>>] <= 1
       /\ LastToCome(w)' => times'[<<w, 0>>] <= 1
       /\ FirstToCome(w)' /\ LastToCome(w)' => times'[<<w, 0>>] = 0
  <2>1. times[<<w, 0>>] \in Nat
        /\ times'[<<w, 0>>] = IF p = <<w, 0>> THEN times[<<w, 0>>] + 1 ELSE times[<<w, 0>>]
    BY <1>5
  <2>2. CASE p = <<w, 0>>
    <3>1. \/ LastToCome(w) /\ ~LastToCome(w)'
          \/ FirstToCome(w) /\ ~FirstToCome(w)'
      BY <1>1, <1>7, <1>8, <1>9, <2>2
    <3> QED BY <1>6, <1>10, <2>1, <2>2, <3>1
  <2>3. CASE p # <<w, 0>>
    BY <1>6, <1>10, <2>1, <2>3
  <2> QED BY <2>2, <2>3
<1>12. ASSUME NEW i \in 1 .. MaxSeqLen - 1
       PROVE  times'[<<w, i>>] <= 1 /\ (ToCome(w, i)' => times'[<<w, i>>] = 0)
  <2>1. times[<<w, i>>] \in Nat
        /\ times'[<<w, i>>] = IF p = <<w, i>> THEN times[<<w, i>>] + 1 ELSE times[<<w, i>>]
    BY <1>5
  <2>2. CASE p = <<w, i>>
    <3>1. ToCome(w, i) /\ ~ToCome(w, i)'
      BY <1>1, <1>7, <1>8, <1>9, <2>2
    <3> QED BY <1>10, <2>1, <2>2, <3>1
  <2>3. CASE p # <<w, i>>
    BY <1>6, <1>10, <2>1, <2>3
  <2> QED BY <2>2, <2>3
<1> QED BY <1>11, <1>12

LEMMA DrawLatestInv ==
  ASSUME RandomInv, NEW u \in Active, Draws(u)
  PROVE  /\ LatestInv'
         /\ latest[u] # NULL => NotAfter(latest[u], latest'[u])
<1>1. /\ u \in Uniforms /\ mySeed[u] \in Places
      /\ WindowOf(u) \in Nat /\ WindowOf(u) < globalSeed /\ globalSeed \in Nat
      /\ seqLen[u] \in 0 .. MaxSeqLen
      /\ mySeed[u] = IF seqLen[u] = 0 THEN <<WindowOf(u) + 1, 0>>
                                      ELSE <<WindowOf(u), MaxSeqLen - seqLen[u]>>
  BY DrawPlace
<1>2. /\ latest'[u] = mySeed[u]
      /\ \A v \in Uniforms \ {u} : latest'[v] = latest[v] /\ mySeed'[v] = mySeed[v]
  <2>1. \A v \in Uniforms \ {u} : mySeed'[v] = mySeed[v]
    BY DrawSeeds
  <2> QED BY <1>1, <2>1 DEF Draws, RandomInv, TypeOK
<1>3. NotAfter(mySeed[u], mySeed'[u])
  <2>1. CASE mySeed'[u] = <<globalSeed, 0>> /\ seqLen[u] = 0
    BY <1>1, <2>1 DEF NotAfter
  <2>2. CASE mySeed'[u] = After(mySeed[u])
    BY <1>1, <2>2, PlaceParts, RandomAssumption DEF NotAfter, After
  <2> QED BY <2>1, <2>2, DrawSeeds
<1>4. Active' = Active
  BY DrawSeeds
<1> QED BY <1>1, <1>2, <1>3, <1>4 DEF RandomInv, LatestInv

-----------------------------------------------------------------------------
(***************************************************************************)
(* Calls                                                                   *)
(***************************************************************************)

\* Who takes windows is not in the middle of a call.
LEMMA TakeInv ==
  ASSUME RandomInv, NEW d \in Dist, TakesWindows(d), calling = NULL, UNCHANGED <<spare, call>>
  PROVE  RandomInv'
<1>1. TypeOK'
  BY TakeSeeds DEF RandomInv, TypeOK, TakesWindows, call, history
<1>2. CallInv'
  BY DEF RandomInv, CallInv, call
<1>3. PairInv'
  <2>1. calling' = NULL /\ NULL \notin Dist
    BY RandomAssumption DEF call
  <2>2. ASSUME NEW e \in made' \cap Paired
        PROVE  seqLen'[<<e, 1>>] = seqLen'[<<e, 2>>]
    <3>1. <<e, 1>> \in Members(e) /\ <<e, 2>> \in Members(e) /\ Members(e) \subseteq Uniforms
      BY MembersOf DEF Paired
    <3>2. CASE e = d
      BY <3>1, <3>2, TakeSeeds
    <3>3. CASE e # d
      <4>1. e \in made /\ <<e, 1>> \notin Members(d) /\ <<e, 2>> \notin Members(d)
        BY <2>2, <3>3 DEF TakesWindows, Members
      <4>2. seqLen'[<<e, 1>>] = seqLen[<<e, 1>>] /\ seqLen'[<<e, 2>>] = seqLen[<<e, 2>>]
        BY <3>1, <4>1, TakeSeeds
      <4>3. ~Between(e)
        BY <2>1, <2>2 DEF Between, Paired, call
      <4> QED BY <2>2, <4>1, <4>2, <4>3 DEF RandomInv, PairInv
    <3> QED BY <3>2, <3>3
  <2>3. \A e \in Dist : ~Between(e)'
    BY <2>1 DEF Between
  <2> QED BY <2>1, <2>2, <2>3 DEF PairInv, PairsDiffer, Paired
<1> QED BY <1>1, <1>2, <1>3, TakeSeedInv, TakeTimesInv, TakeLatestInv DEF RandomInv

LEMMA RoundOf ==
  ASSUME NEW d \in Dist
  PROVE  /\ Round(d) \in Seq(Members(d)) /\ Round(d) \in Seq(Uniforms)
         /\ d \in Paired => Round(d) = <<<<d, 1>>, <<d, 2>>>>
<1>1. d \in Paired => Round(d) = <<<<d, 1>>, <<d, 2>>>>
  BY DEF Round, Paired
<1>2. ASSUME NEW S, Members(d) \subseteq S
      PROVE  Round(d) \in Seq(S)
  <2>1. CASE Class[d] = "erlang"
    <3>1. Round(d) = [i \in 1 .. Shape |-> <<d, 1>>] /\ Shape \in Nat
      BY <2>1, RandomAssumption DEF Round
    <3>2. Round(d) \in [1 .. Shape -> S]
      BY <1>2, <3>1, MembersOf
    <3> QED BY <3>1, <3>2, SeqDef
  <2>2. CASE d \in Paired
    <3>1. <<d, 1>> \in S /\ <<d, 2>> \in S
      BY <1>2, <2>2, MembersOf
    <3>2. \A a, b \in S : <<a, b>> \in Seq(S)
      OBVIOUS
    <3> QED BY <1>1, <2>2, <3>1, <3>2
  <2>3. CASE Class[d] # "erlang" /\ d \notin Paired
    <3>1. Round(d) = <<<<d, 1>>>>
      BY <2>3 DEF Round
    <3>2. <<d, 1>> \in S
      BY <1>2, MembersOf
    <3> QED BY <3>1, <3>2
  <2> QED BY <2>1, <2>2, <2>3
<1> QED BY <1>1, <1>2, MembersOf

\* A round begins only when no other is in progress.
LEMMA BeginInv ==
  ASSUME RandomInv, NEW d \in made, todo = <<>>, calling' = d, Begin(d),
         UNCHANGED <<seeds, made, history>>
  PROVE  RandomInv'
<1> USE RandomAssumption
<1>1. d \in Dist /\ d # NULL
  BY DEF RandomInv, TypeOK
<1>2. todo' = <<>> \/ todo' = Round(d)
  BY DEF Begin
<1>3. todo' \in Seq(Members(d)) /\ todo' \in Seq(Uniforms) /\ used' = <<>>
  <2>1. Round(d) \in Seq(Members(d)) /\ Round(d) \in Seq(Uniforms)
    BY <1>1, RoundOf
  <2> QED BY <1>2, <2>1 DEF Begin
<1>4. TypeOK'
  BY <1>1, <1>3 DEF RandomInv, TypeOK, Begin, seeds, history, Normals
<1>5. SeedInv' /\ TimesInv' /\ LatestInv'
  BY DEF RandomInv, SeedInv, TimesInv, LatestInv, FirstToCome, LastToCome, ToCome,
         WindowOf, Active, seeds, history
<1>6. CallInv'
  BY <1>1, <1>3 DEF CallInv
<1>7. PairInv'
  <2>1. \A e \in Paired : ~Between(e) /\ ~Between(e)'
    <3>1. d \in Paired => Len(todo') # 1
      <4>1. d \in Paired => todo' = <<>> \/ todo' = <<<<d, 1>>, <<d, 2>>>>
        BY <1>1, <1>2, RoundOf
      <4> QED BY <4>1
    <3>2. Len(todo) # 1
      OBVIOUS
    <3> QED BY <3>1, <3>2 DEF Between
  <2>2. Len(used') = 0
    BY <1>3
  <2> QED BY <1>1, <1>2, <1>3, <2>1, <2>2, RoundOf DEF RandomInv, PairInv, PairsDiffer, seeds
<1> QED BY <1>4, <1>5, <1>6, <1>7 DEF RandomInv

\* A number is drawn by a generator that exists, in the call's round.
LEMMA DrawInv ==
  ASSUME RandomInv, Draw
  PROVE  /\ RandomInv'
         /\ \A u \in Uniforms : latest[u] # NULL => NotAfter(latest[u], latest'[u])
<1> USE RandomAssumption
<1> DEFINE u == Head(todo)
           p == mySeed[u]
<1>1. calling \in made /\ calling \in Dist /\ calling # NULL /\ todo \in Seq(Members(calling))
  BY DEF RandomInv, TypeOK, CallInv, Draw
<1>2. u \in Members(calling) /\ u \in Active /\ todo' \in Seq(Members(calling))
  BY <1>1 DEF Draw, Active
<1>3. Draws(u)
  BY DEF Draw, DrawFrom, Draws
<1>4. u \in Uniforms /\ p \in Places
  BY <1>2, DrawPlace
<1>5. TypeOK'
  <2>1. globalSeed' \in Windows /\ mySeed' \in [Uniforms -> Places]
        /\ seqLen' \in [Uniforms -> 0 .. MaxSeqLen]
    BY <1>2, <1>3, DrawSeeds
  <2>2. used' \in Seq(Places) /\ todo' \in Seq(Uniforms)
    BY <1>4 DEF RandomInv, TypeOK, Draw, DrawFrom
  <2>3. times' \in [Places -> Nat] /\ latest' \in [Uniforms -> Places \cup {NULL}]
    BY <1>4 DEF RandomInv, TypeOK, Draw, DrawFrom
  <2> QED BY <2>1, <2>2, <2>3 DEF RandomInv, TypeOK, Draw
<1>6. SeedInv' /\ TimesInv' /\ LatestInv'
  BY <1>2, <1>3, DrawSeedInv, DrawTimesInv, DrawLatestInv
<1>7. CallInv'
  BY <1>1, <1>2 DEF CallInv, Draw
<1>8. PairInv'
  <2>1. /\ calling' = calling /\ made' = made /\ todo' = Tail(todo) /\ used' = Append(used, p)
        /\ used \in Seq(Places) /\ todo \in Seq(Uniforms)
    BY DEF Draw, DrawFrom, RandomInv, TypeOK
  <2>2. /\ seqLen'[u] = IF seqLen[u] = 0 THEN MaxSeqLen ELSE seqLen[u] - 1
        /\ \A v \in Uniforms \ {u} : seqLen'[v] = seqLen[v] /\ mySeed'[v] = mySeed[v]
    <3>1. \A v \in Uniforms \ {u} :
            seqLen'[v] = seqLen[v] /\ mySeed'[v] = mySeed[v] /\ WindowOf(v)' = WindowOf(v)
      BY <1>2, <1>3, DrawSeeds
    <3>2. \/ seqLen[u] = 0 /\ seqLen'[u] = MaxSeqLen
          \/ seqLen[u] > 0 /\ seqLen'[u] = seqLen[u] - 1
      BY <1>2, <1>3, DrawSeeds
    <3> QED BY <3>1, <3>2
  <2>3. ASSUME NEW e \in made \cap Paired, e # calling
        PROVE  seqLen'[<<e, 1>>] = seqLen'[<<e, 2>>] /\ ~Between(e)'
    <3>1. <<e, 1>> \in Uniforms \ {u} /\ <<e, 2>> \in Uniforms \ {u}
      <4>1. <<e, 1>> \in Uniforms /\ <<e, 2>> \in Uniforms
        BY <2>3, MembersOf DEF Paired
      <4>2. \A x \in Members(calling) : x[1] = calling
        BY DEF Members
      <4> QED BY <1>2, <2>3, <4>1, <4>2
    <3>2. ~Between(e)
      BY <2>3 DEF Between
    <3>3. seqLen[<<e, 1>>] = seqLen[<<e, 2>>]
      BY <2>3, <3>2 DEF RandomInv, PairInv
    <3> QED BY <2>1, <2>2, <2>3, <3>1, <3>3 DEF Between
  <2>4. CASE calling \notin Paired
    BY <2>1, <2>3, <2>4 DEF PairInv, PairsDiffer
  <2>6. ASSUME calling \in Paired,
               LET l1 == seqLen'[<<calling, 1>>]
                   l2 == seqLen'[<<calling, 2>>]
               IN  \/ /\ todo' = <<<<calling, 2>>>> /\ Len(used') = 1
                      /\ used'[1][1] # mySeed'[<<calling, 2>>][1]
                      /\ l1 = IF l2 = 0 THEN MaxSeqLen ELSE l2 - 1
                   \/ /\ todo' = <<>> /\ Len(used') = 2
                      /\ used'[1][1] # used'[2][1]
                      /\ l1 = l2
        PROVE  PairInv'
    <3>1. Between(calling)' <=> Len(used') = 1
      <4>1. CASE todo' = <<<<calling, 2>>>> /\ Len(used') = 1
        BY <2>1, <4>1 DEF Between
      <4>2. CASE todo' = <<>> /\ Len(used') = 2
        BY <2>1, <4>2 DEF Between
      <4> QED BY <2>6, <4>1, <4>2
    <3>2. PairsDiffer'
      BY <2>1, <2>6 DEF PairsDiffer
    <3>3. ASSUME NEW e \in made' \cap Paired
          PROVE  seqLen'[<<e, 1>>] = IF ~Between(e)' THEN seqLen'[<<e, 2>>]
                                     ELSE IF seqLen'[<<e, 2>>] = 0 THEN MaxSeqLen
                                     ELSE seqLen'[<<e, 2>>] - 1
      <4>1. CASE e = calling
        BY <2>1, <2>6, <3>1, <4>1
      <4>2. CASE e # calling
        BY <2>1, <2>3, <3>3, <4>2
      <4> QED BY <4>1, <4>2
    <3> QED BY <2>1, <2>6, <3>2, <3>3 DEF PairInv
  <2>5. CASE calling \in Paired
    <3> DEFINE u1 == <<calling, 1>>
               u2 == <<calling, 2>>
    <3>1. u1 \in Active /\ u2 \in Active /\ u1 \in Uniforms /\ u2 \in Uniforms /\ u1 # u2
      BY <1>1, <2>5, MembersOf, ActiveUniforms DEF Active, RandomInv, TypeOK
    <3>2. CASE todo = <<u1, u2>> /\ used = <<>>
      <4>1. u = u1 /\ todo' = <<u2>> /\ used' = <<p>> /\ Len(todo) = 2
        BY <2>1, <3>2
      <4>2. seqLen[u1] = seqLen[u2]
        BY <1>1, <2>5, <4>1 DEF RandomInv, PairInv, Between
      <4>3. p[1] # mySeed[u2][1]
        <5>1. WindowOf(u1) # WindowOf(u2) /\ WindowOf(u1) \in Nat /\ WindowOf(u2) \in Nat
          BY <3>1 DEF RandomInv, SeedInv
        <5>2. mySeed[u1][1] \in Nat /\ mySeed[u2][1] \in Nat
          BY <3>1, PlaceParts DEF RandomInv, TypeOK
        <5> QED BY <4>1, <4>2, <5>1, <5>2 DEF WindowOf
      <4>4. mySeed'[u2] = mySeed[u2] /\ seqLen'[u2] = seqLen[u2]
        BY <2>2, <3>1, <4>1
      <4>5. Len(used') = 1 /\ used'[1] = p /\ Len(todo') = 1
        BY <4>1
      <4>6. seqLen'[u1] = IF seqLen'[u2] = 0 THEN MaxSeqLen ELSE seqLen'[u2] - 1
        BY <2>2, <4>1, <4>2, <4>4
      <4> QED BY <2>5, <2>6, <4>1, <4>3, <4>4, <4>5, <4>6
    <3>3. CASE todo = <<u2>> /\ Len(used) = 1 /\ used[1][1] # mySeed[u2][1]
      <4>1. u = u2 /\ todo' = <<>> /\ Len(todo) = 1 /\ Len(todo') = 0
        BY <2>1, <3>3
      <4>2. used'[1] = used[1] /\ used'[2] = p /\ Len(used') = 2
        <5>1. used' = Append(used, p) /\ used \in Seq(Places) /\ Len(used) = 1 /\ p \in Places
          BY <1>4, <2>1, <3>3
        <5> HIDE DEF p
        <5> QED BY <5>1
      <4>3. seqLen[u1] = IF seqLen[u2] = 0 THEN MaxSeqLen ELSE seqLen[u2] - 1
        BY <1>1, <2>5, <4>1 DEF RandomInv, PairInv, Between
      <4>4. seqLen'[u1] = seqLen[u1]
        BY <2>2, <3>1, <4>1
      <4>5. seqLen'[u1] = seqLen'[u2]
        BY <2>2, <4>1, <4>3, <4>4
      <4> QED BY <2>5, <2>6, <3>3, <4>1, <4>2, <4>5
    <3>4. todo # <<>>
      BY DEF Draw
    <3> QED BY <2>5, <3>2, <3>3, <3>4 DEF RandomInv, PairInv
  <2> QED BY <2>4, <2>5
<1>9. \A v \in Uniforms : latest[v] # NULL => NotAfter(latest[v], latest'[v])
  <2>1. latest[u] # NULL => NotAfter(latest[u], latest'[u])
    BY <1>2, <1>3, DrawLatestInv
  <2>2. ASSUME NEW v \in Uniforms \ {u}, latest[v] # NULL
        PROVE  NotAfter(latest[v], latest'[v])
    <3>1. latest'[v] = latest[v] /\ latest[v] \in Places
      BY <2>2 DEF Draw, DrawFrom, RandomInv, TypeOK
    <3> QED BY <3>1, PlaceParts DEF NotAfter
  <2> QED BY <2>1, <2>2
<1> QED BY <1>5, <1>6, <1>7, <1>8, <1>9 DEF RandomInv

-----------------------------------------------------------------------------
(***************************************************************************)
(* The theorems                                                            *)
(***************************************************************************)

LEMMA RandomInit == Init => RandomInv
<1> SUFFICES ASSUME Init PROVE RandomInv
  OBVIOUS
<1> USE RandomAssumption
<1>1. 0 \in Windows /\ <<0, 0>> \in Places
  BY DEF Windows, Places
<1>2. TypeOK
  BY <1>1 DEF Init, TypeOK
<1>3. Active = {}
  BY DEF Init, Active
<1>4. SeedInv /\ LatestInv /\ CallInv
  BY <1>3 DEF Init, SeedInv, LatestInv, CallInv
<1>5. TimesInv
  <2>1. \A w \in Windows, i \in 0 .. MaxSeqLen - 1 : times[<<w, i>>] = 0
    BY DEF Init, Places
  <2> QED BY <2>1 DEF TimesInv
<1>6. PairInv
  BY DEF Init, PairInv, PairsDiffer, Paired
<1> QED BY <1>2, <1>4, <1>5, <1>6 DEF RandomInv

LEMMA RandomStep ==
  ASSUME RandomInv, [Next]_vars
  PROVE  /\ RandomInv'
         /\ \A u \in Uniforms : latest[u] # NULL => NotAfter(latest[u], latest'[u])
<1>1. ASSUME UNCHANGED history
      PROVE  \A u \in Uniforms : latest[u] # NULL => NotAfter(latest[u], latest'[u])
  <2>1. \A u \in Uniforms : latest[u] # NULL => latest[u] \in Places
    BY DEF RandomInv, TypeOK
  <2> QED BY <1>1, <2>1, PlaceParts DEF NotAfter, history
<1>2. ASSUME NEW d \in Dist, Make(d) \/ Reset(d)
      PROVE  RandomInv' /\ UNCHANGED history
  <2>1. TakesWindows(d) /\ calling = NULL /\ UNCHANGED <<spare, call>>
    BY <1>2 DEF Make, Reset, TakesWindows
  <2> QED BY <2>1, TakeInv DEF TakesWindows
<1>3. ASSUME NEW d \in Dist, Value(d)
      PROVE  RandomInv' /\ UNCHANGED history
  <2>1. d \in made /\ todo = <<>> /\ calling' = d /\ Begin(d) /\ UNCHANGED <<seeds, made, history>>
    BY <1>3 DEF Value, RandomInv, CallInv
  <2> QED BY <2>1, BeginInv
<1>4. ASSUME Reject
      PROVE  RandomInv' /\ UNCHANGED history
  <2>1. /\ calling \in made /\ todo = <<>> /\ calling' = calling /\ Begin(calling)
        /\ UNCHANGED <<seeds, made, history>>
    BY <1>4 DEF Reject, RandomInv, TypeOK
  <2> QED BY <2>1, BeginInv
<1>5. ASSUME Return \/ UNCHANGED vars
      PROVE  RandomInv' /\ UNCHANGED history
  <2>1. UNCHANGED <<seeds, made, spare, history>> /\ todo' = todo
    BY <1>5 DEF Return, vars, call
  <2>2. \/ calling' = NULL /\ todo = <<>> /\ used' = <<>>
        \/ calling' = calling /\ used' = used
    BY <1>5 DEF Return, vars, call
  <2>3. TypeOK'
    BY <2>1, <2>2 DEF RandomInv, TypeOK, seeds, history
  <2>4. SeedInv' /\ TimesInv' /\ LatestInv'
    BY <2>1 DEF RandomInv, SeedInv, TimesInv, LatestInv, FirstToCome, LastToCome, ToCome,
                WindowOf, Active, seeds, history
  <2>5. CallInv'
    BY <2>1, <2>2 DEF RandomInv, CallInv
  <2>6. PairInv'
    <3>1. CASE calling' = NULL /\ todo = <<>>
      <4>1. Len(todo) # 1 /\ Len(todo') # 1 /\ calling' \notin Paired
        BY <2>1, <3>1, RandomAssumption DEF Paired
      <4> QED BY <2>1, <4>1 DEF RandomInv, PairInv, PairsDiffer, Between, seeds
    <3>2. CASE calling' = calling /\ used' = used
      BY <2>1, <3>2 DEF RandomInv, PairInv, PairsDiffer, Between, seeds
    <3> QED BY <2>2, <3>1, <3>2
  <2> QED BY <2>1, <2>3, <2>4, <2>5, <2>6 DEF RandomInv
<1> QED BY <1>1, <1>2, <1>3, <1>4, <1>5, DrawInv DEF Next

\* The inductive invariant of the generators.
THEOREM RandomInvariant == Spec => []RandomInv
<1>1. RandomInv /\ [Next]_vars => RandomInv'
  BY RandomStep
<1> QED BY <1>1, RandomInit, PTL DEF Spec

\* Seeds, lengths, calls and the history have their types.
THEOREM RandomTypeCorrect == Spec => []TypeOK
<1>1. RandomInv => TypeOK
  BY DEF RandomInv
<1> QED BY <1>1, RandomInvariant, PTL

\* Places are drawn once, and the first of a window at most twice
\* (rngUniform01::value, constructor and reset), for any window length and any
\* order in which the generators take their windows.
THEOREM WindowsAlwaysShareFirst == Spec => []WindowsShareFirst
<1>1. RandomInv => WindowsShareFirst
  <2> SUFFICES ASSUME RandomInv, NEW q \in Places
               PROVE  times[q] <= IF q[2] = 0 THEN 2 ELSE 1
    BY DEF WindowsShareFirst
  <2>1. q[1] \in Windows /\ q[2] \in 0 .. MaxSeqLen - 1 /\ q = <<q[1], q[2]>>
    BY PlaceParts
  <2>2. CASE q[2] = 0
    BY <2>1, <2>2 DEF RandomInv, TimesInv
  <2>3. CASE q[2] \in 1 .. MaxSeqLen - 1
    BY <2>1, <2>3 DEF RandomInv, TimesInv
  <2> QED BY <2>1, <2>2, <2>3, RandomAssumption
<1> QED BY <1>1, RandomInvariant, PTL

\* The two numbers of a normal or gamma value are from different windows.
THEOREM PairsAlwaysDiffer == Spec => []PairsDiffer
<1>1. RandomInv => PairsDiffer
  BY DEF RandomInv, PairInv
<1> QED BY <1>1, RandomInvariant, PTL

\* No generator draws from a place before one it has drawn from.
THEOREM AlwaysNeverDrawsBack == Spec => NeverDrawsBack
<1>1. RandomInv /\ [Next]_vars =>
        [\A u \in Uniforms : latest[u] # NULL => NotAfter(latest[u], latest'[u])]_vars
  BY RandomStep
<1> QED BY <1>1, RandomInvariant, PTL DEF Spec, NeverDrawsBack

=============================================================================
