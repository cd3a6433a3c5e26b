------------------------- MODULE ReplicationsProofs -------------------------
(***************************************************************************)
(* Proofs about Replications, for any warm-up, fraction, window, batch     *)
(* size and bounds.  The vectors of a statistic hold the observations of   *)
(* the replications they are meant for, each at its place: GraphInv for    *)
(* the graphs, KeptInv for what the removal of the transient keeps.  Then  *)
(* the proofs about Summaries, for any observations: the extremes, the     *)
(* counts of a histogram and the integral of an accum.                     *)
(***************************************************************************)
EXTENDS Replications, Summaries, SequenceTheorems, FiniteSetTheorems, TLAPS

GraphInv ==
  stat \in Graphic =>
    /\ Len(ob) = Len(lens) /\ numResets = Len(lens) - 1
    /\ \A r \in 1 .. Len(ob) :
         Len(ob[r]) = lens[r] /\ \A i \in 1 .. Len(ob[r]) : ob[r][i] = <<r, i>>

\* The observations that update has passed over in the current replication.
Skipped ==
  IF removal = "frac" THEN 0
  ELSE IF lens[Current] < WarmUp THEN lens[Current] ELSE WarmUp

KeptInv ==
  stat \notin Graphic /\ outcome = "ok" =>
    /\ numUpdates = lens[Current]
    /\ Len(kept) = lens[Current] - Skipped
    /\ \A i \in 1 .. Len(kept) : kept[i] = <<Current, Skipped + i>>

KindInv ==
  /\ removal = "none" <=> stat \in Graphic
  /\ stat # "repmean" => means = <<>>

ReplicationsInv ==
  /\ TypeOK
  /\ lens # <<>>
  /\ KindInv
  /\ GraphInv
  /\ KeptInv
  /\ MeansOfReplications

-----------------------------------------------------------------------------
(***************************************************************************)
(* Arithmetic and sequences                                                *)
(***************************************************************************)

\* A proper fraction of a number is a smaller number.
LEMMA FractionOf ==
  ASSUME NEW n \in Nat
  PROVE  /\ (n * Part) \div Whole \in Nat
         /\ (n * Part) \div Whole <= n
         /\ n > 0 => (n * Part) \div Whole < n
<1> DEFINE q == (n * Part) \div Whole
<1>1. Whole \in Nat /\ Whole > 0 /\ Part \in Nat /\ Part < Whole
  BY ReplicationsAssumption
<1>2. n * Part \in Nat
  BY <1>1
<1>3. q \in Nat /\ q * Whole <= n * Part
  BY <1>1, <1>2
<1>4. n > 0 => n * Part < n * Whole
  BY <1>1
<1>5. n > 0 => q < n
  <2> HIDE DEF q
  <2> SUFFICES ASSUME n > 0, q >= n PROVE FALSE
    BY <1>3
  <2>1. q * Whole >= n * Whole
    BY <1>1, <1>3
  <2> QED BY <2>1, <1>1, <1>2, <1>3, <1>4
<1>6. n = 0 => q = 0
  BY <1>1
<1> QED BY <1>3, <1>5, <1>6

\* What is left after the removal, by places of kept.
LEMMA WithoutFirst ==
  ASSUME NEW S, NEW s \in Seq(S), NEW n \in 0 .. Len(s)
  PROVE  /\ Without(n, s) \in Seq(S)
         /\ Len(Without(n, s)) = Len(s) - n
         /\ \A i \in 1 .. Len(s) - n : Without(n, s)[i] = s[n + i]
<1>1. \A i \in n + 1 .. Len(s) : s[i] \in S
  BY ElementOfSeq
<1>2. Len(s) \in Nat
  BY LenProperties
<1>3. /\ SubSeq(s, n + 1, Len(s)) \in Seq(S)
      /\ Len(SubSeq(s, n + 1, Len(s))) = IF n + 1 <= Len(s) THEN Len(s) - (n + 1) + 1 ELSE 0
      /\ \A i \in 1 .. Len(s) - (n + 1) + 1 : SubSeq(s, n + 1, Len(s))[i] = s[n + 1 + i - 1]
  BY <1>1, <1>2, SubSeqProperties
<1> QED BY <1>2, <1>3 DEF Without

\* A set of lengths has a smallest member.
LEMMA SmallestLength ==
  ASSUME NEW T \in SUBSET Nat, T # {}
  PROVE  \E x \in T : \A y \in T : x <= y
<1> DEFINE R == {ss \in Nat \X Nat : ss[1] < ss[2]}
<1>1. IsWellFoundedOn(R, Nat)
  BY NatLessThanWellFounded DEF OpToRel
<1>2. PICK x \in T : \A y \in T : <<y, x>> \notin R
  BY <1>1, WFMin, Zenon
<1>3. ASSUME NEW y \in T PROVE x <= y
  <2>1. x \in Nat /\ y \in Nat /\ <<y, x>> \in Nat \X Nat
    OBVIOUS
  <2>2. ~ (y < x)
    BY <1>2, <2>1
  <2> QED BY <2>1, <2>2
<1> QED BY <1>3

\* The replications counted from 1, and the one that is under way.
LEMMA Lengths ==
  ASSUME ReplicationsInv
  PROVE  /\ lens \in Seq(Nat) /\ Current \in Nat /\ Current > 0
         /\ lens[Current] \in Nat
         /\ Latest \in Observations
         /\ Skipped \in Nat /\ Skipped <= lens[Current]
<1>1. lens \in Seq(Nat) /\ Len(lens) \in Nat /\ Len(lens) > 0
  BY EmptySeq, LenProperties DEF ReplicationsInv, TypeOK
<1>2. lens[Len(lens)] \in Nat
  BY <1>1, ElementOfSeq
<1> QED BY <1>1, <1>2, ReplicationsAssumption DEF Current, Latest, Observations, Skipped

-----------------------------------------------------------------------------
(***************************************************************************)
(* What is left of a replication                                           *)
(***************************************************************************)

\* The removal leaves the observations after those dropped, unless none.
LEMMA RemainingLeft ==
  ASSUME ReplicationsInv, stat \notin Graphic, outcome = "ok"
  PROVE  /\ Dropped(lens[Current]) \in Nat
         /\ Remaining \in Seq(Observations)
         /\ Remaining # <<>> =>
              /\ Dropped(lens[Current]) < lens[Current]
              /\ Len(Remaining) = lens[Current] - Dropped(lens[Current])
              /\ \A i \in 1 .. Len(Remaining) :
                   Remaining[i] = <<Current, Dropped(lens[Current]) + i>>
<1> DEFINE n == lens[Current]
           d == (n * Part) \div Whole
<1>1. /\ n \in Nat /\ Skipped \in Nat /\ Skipped <= n /\ WarmUp \in Nat
      /\ kept \in Seq(Observations) /\ Len(kept) \in Nat
  BY Lengths, LenProperties, ReplicationsAssumption DEF ReplicationsInv, TypeOK
<1>2. /\ Len(kept) = n - Skipped
      /\ \A i \in 1 .. Len(kept) : kept[i] = <<Current, Skipped + i>>
  BY DEF ReplicationsInv, KeptInv
<1>3. CASE removal = "frac"
  <2>1. d \in Nat /\ d <= n /\ Len(kept) = n /\ Skipped = 0
    BY <1>1, <1>2, <1>3, FractionOf DEF Skipped
  <2>2. Dropped(n) = d /\ Remaining = Without(d, kept)
    BY <1>3, <2>1 DEF Dropped, Remaining
  <2> HIDE DEF d
  <2>3. d \in 0 .. Len(kept)
    BY <2>1, <1>1
  <2>4. /\ Remaining \in Seq(Observations)
        /\ Len(Remaining) = n - d
        /\ \A i \in 1 .. n - d : Remaining[i] = kept[d + i]
    BY <1>1, <2>1, <2>2, <2>3, WithoutFirst
  <2>5. \A i \in 1 .. n - d : Remaining[i] = <<Current, d + i>>
    <3> SUFFICES ASSUME NEW i \in 1 .. n - d
                 PROVE  Remaining[i] = <<Current, d + i>>
      OBVIOUS
    <3>1. d + i \in 1 .. Len(kept) /\ Skipped + (d + i) = d + i
      BY <1>1, <2>1
    <3>2. kept[d + i] = <<Current, Skipped + (d + i)>>
      BY <1>2, <3>1
    <3> QED BY <2>4, <3>1, <3>2
  <2>6. Remaining # <<>> => n - d # 0
    BY <2>4, EmptySeq
  <2>7. Dropped(n) \in Nat /\ Len(Remaining) = n - Dropped(n)
    BY <2>1, <2>2, <2>4
  <2>8. \A i \in 1 .. Len(Remaining) : Remaining[i] = <<Current, Dropped(n) + i>>
    BY <2>2, <2>4, <2>5
  <2>9. Remaining # <<>> => Dropped(n) < n
    BY <1>1, <2>1, <2>2, <2>6
  <2> QED BY <2>4, <2>7, <2>8, <2>9
<1>4. CASE removal # "frac"
  <2>1. Dropped(n) = WarmUp /\ Remaining = kept
    BY <1>4, Zenon DEF Dropped, Remaining, ReplicationsInv, KindInv, TypeOK
  <2>2. Skipped = IF n < WarmUp THEN n ELSE WarmUp
    BY <1>4 DEF Skipped
  <2>3. kept # <<>> => Len(kept) # 0
    BY <1>1, EmptySeq
  <2>4. kept # <<>> => WarmUp < n /\ Skipped = WarmUp
    BY <1>1, <1>2, <2>2, <2>3
  <2> QED BY <1>1, <1>2, <2>1, <2>4
<1> QED BY <1>3, <1>4

\* The mean that repmean adds is that of what is left of the replication.
LEMMA MeanOfLeft ==
  ASSUME ReplicationsInv, stat \notin Graphic, outcome = "ok", Remaining # <<>>
  PROVE  /\ Range(Remaining) = Left(Current)
         /\ Left(Current) # {} /\ Left(Current) \subseteq Observations
<1> DEFINE n == lens[Current]
           d == Dropped(n)
<1>1. /\ d \in Nat /\ d < n /\ Len(Remaining) = n - d
      /\ \A i \in 1 .. n - d : Remaining[i] = <<Current, d + i>>
      /\ n \in Nat /\ Current \in Nat /\ Current > 0
  BY RemainingLeft, Lengths
<1>2. Range(Remaining) = {Remaining[i] : i \in 1 .. n - d}
  BY <1>1, RemainingLeft, RangeEquality
<1>3. Left(Current) = {Current} \X (d + 1 .. n)
  BY DEF Left
<1> HIDE DEF d, n
<1>4. ASSUME NEW o \in {Current} \X (d + 1 .. n)
      PROVE  o \in {Remaining[i] : i \in 1 .. n - d}
  <2>1. PICK j \in d + 1 .. n : o = <<Current, j>>
    OBVIOUS
  <2>2. j - d \in 1 .. n - d /\ d + (j - d) = j
    BY <1>1
  <2> QED BY <1>1, <2>1, <2>2
<1>5. ASSUME NEW i \in 1 .. n - d
      PROVE  Remaining[i] \in {Current} \X (d + 1 .. n)
  <2>1. Remaining[i] = <<Current, d + i>> /\ d + i \in d + 1 .. n
    BY <1>1
  <2> QED BY <2>1
<1>6. <<Current, n>> \in {Current} \X (d + 1 .. n)
  BY <1>1
<1>7. {Current} \X (d + 1 .. n) \subseteq Observations
  BY <1>1 DEF Observations
<1> QED BY <1>2, <1>3, <1>4, <1>5, <1>6, <1>7

-----------------------------------------------------------------------------
(***************************************************************************)
(* Steps                                                                   *)
(***************************************************************************)

\* An observation is counted in the current replication.
LEMMA CountLengths ==
  ASSUME ReplicationsInv, Count
  PROVE  /\ lens' \in Seq(Nat) /\ lens' # <<>> /\ Current' = Current
         /\ lens'[Current] = lens[Current] + 1
         /\ \A r \in 1 .. Current - 1 : lens'[r] = lens[r]
<1>1. Current \in 1 .. Len(lens)
  BY Lengths DEF Current
<1>2. lens[Current] + 1 \in Nat /\ lens \in Seq(Nat)
  BY Lengths
<1> HIDE DEF Current
<1>3. /\ lens' \in Seq(Nat) /\ Len(lens') = Len(lens)
      /\ \A r \in 1 .. Len(lens) : lens'[r] = IF r = Current THEN lens[Current] + 1 ELSE lens[r]
  <2>1. lens' = [lens EXCEPT ![Current] = lens[Current] + 1]
    BY DEF Count
  <2> QED BY <1>1, <1>2, <2>1, ExceptSeq
<1>4. Len(lens') # 0
  BY <1>1, <1>2, <1>3, LenProperties
<1>5. lens' # <<>>
  BY <1>4, EmptySeq
<1> QED BY <1>1, <1>3, <1>5, Lengths DEF Current

\* A replication ends and the next one begins.
LEMMA EndLengths ==
  ASSUME ReplicationsInv, lens' = Append(lens, 0)
  PROVE  /\ lens' \in Seq(Nat) /\ lens' # <<>> /\ Current' = Current + 1
         /\ lens'[Current'] = 0
         /\ \A r \in 1 .. Current : lens'[r] = lens[r]
BY Lengths, AppendProperties DEF Current

\* Means are about ended replications only.
LEMMA MeansStay ==
  ASSUME ReplicationsInv, Count, UNCHANGED <<kinds, means>>
  PROVE  MeansOfReplications'
<1>1. /\ Current' = Current /\ Current \in Nat
      /\ \A r \in 1 .. Current - 1 : lens'[r] = lens[r]
  BY CountLengths, Lengths
<1>2. stat' = stat /\ removal' = removal /\ means' = means
  BY DEF kinds
<1>3. ASSUME NEW r \in 1 .. Current - 1 PROVE Left(r)' = Left(r)
  BY <1>1, <1>2, <1>3 DEF Left, Dropped
<1> SUFFICES ASSUME stat = "repmean" PROVE MeansOfReplications'
  BY <1>2 DEF MeansOfReplications
<1>4. Len(means) = Current - 1 /\ \A r \in 1 .. Len(means) : means[r] = Left(r) /\ means[r] # {}
  BY DEF ReplicationsInv, MeansOfReplications, Current
<1> QED BY <1>1, <1>2, <1>3, <1>4 DEF MeansOfReplications, Current

LEMMA GraphUpdateStep ==
  ASSUME ReplicationsInv, GraphUpdate
  PROVE  ReplicationsInv'
<1>1. /\ stat \in Graphic /\ Count /\ ob' = [ob EXCEPT ![Len(ob)] = Append(ob[Len(ob)], Latest)]
      /\ UNCHANGED <<kinds, removed, numResets, means, outcome, shown>>
  BY DEF GraphUpdate, MayUpdate, Running
<1>2. /\ Len(ob) = Current /\ numResets = Current - 1
      /\ \A r \in 1 .. Len(ob) :
           Len(ob[r]) = lens[r] /\ \A i \in 1 .. Len(ob[r]) : ob[r][i] = <<r, i>>
  BY <1>1 DEF ReplicationsInv, GraphInv, Current
<1>3. Current \in 1 .. Len(ob) /\ ob \in Seq(Seq(Observations))
  BY <1>2, Lengths DEF ReplicationsInv, TypeOK
<1>4. ob[Current] \in Seq(Observations)
  BY <1>3, ElementOfSeq
<1>5. lens[Current] \in Nat /\ Latest \in Observations /\ Latest = <<Current, lens[Current] + 1>>
  BY Lengths DEF Latest
<1> DEFINE new == Append(ob[Current], Latest)
<1>6. /\ new \in Seq(Observations) /\ Len(new) = lens[Current] + 1
      /\ \A i \in 1 .. lens[Current] + 1 : new[i] = <<Current, i>>
  BY <1>2, <1>3, <1>4, <1>5, AppendProperties
<1> HIDE DEF new
<1>7. /\ ob' \in Seq(Seq(Observations)) /\ Len(ob') = Len(ob)
      /\ \A r \in 1 .. Len(ob) : ob'[r] = IF r = Current THEN new ELSE ob[r]
  <2>1. ob' = [ob EXCEPT ![Current] = new]
    BY <1>1, <1>2 DEF new
  <2> QED BY <1>3, <1>6, <2>1, ExceptSeq
<1>8. /\ lens' \in Seq(Nat) /\ lens' # <<>> /\ Current' = Current
      /\ lens'[Current] = lens[Current] + 1
      /\ \A r \in 1 .. Current - 1 : lens'[r] = lens[r]
  BY <1>1, CountLengths
<1>9. GraphInv'
  <2>1. ASSUME NEW r \in 1 .. Len(ob')
        PROVE  Len(ob'[r]) = lens'[r] /\ \A i \in 1 .. Len(ob'[r]) : ob'[r][i] = <<r, i>>
    <3>1. CASE r = Current
      BY <3>1, <1>3, <1>6, <1>7, <1>8
    <3>2. CASE r # Current
      <4>1. r \in 1 .. Len(ob) /\ r \in 1 .. Current - 1
        BY <3>2, <1>2, <1>3, <1>7
      <4> QED BY <3>2, <4>1, <1>2, <1>7, <1>8
    <3> QED BY <3>1, <3>2
  <2> QED BY <2>1, <1>1, <1>2, <1>7, <1>8 DEF GraphInv, Current, kinds
<1>10. TypeOK'
  BY <1>1, <1>7, <1>8 DEF ReplicationsInv, TypeOK, kinds, removed
<1>11. KindInv' /\ KeptInv'
  BY <1>1 DEF ReplicationsInv, KindInv, KeptInv, kinds
<1>12. MeansOfReplications'
  BY <1>1, MeansStay
<1> QED BY <1>8, <1>9, <1>10, <1>11, <1>12 DEF ReplicationsInv

LEMMA RemovalUpdateStep ==
  ASSUME ReplicationsInv, RemovalUpdate
  PROVE  ReplicationsInv'
<1> DEFINE passed == removal = "const" /\ numUpdates + 1 <= WarmUp
<1>1. /\ stat \notin Graphic /\ outcome = "ok" /\ Count
      /\ numUpdates' = numUpdates + 1
      /\ kept' = IF passed THEN kept ELSE Append(kept, Latest)
      /\ UNCHANGED <<kinds, ob, numResets, means, outcome, shown>>
  BY DEF RemovalUpdate, MayUpdate, Running, Graphic
<1>2. /\ numUpdates = lens[Current]
      /\ Len(kept) = lens[Current] - Skipped
      /\ \A i \in 1 .. Len(kept) : kept[i] = <<Current, Skipped + i>>
  BY <1>1 DEF ReplicationsInv, KeptInv
<1>3. /\ Current \in Nat /\ lens[Current] \in Nat /\ Latest \in Observations
      /\ Skipped \in Nat /\ Skipped <= lens[Current] /\ WarmUp \in Nat
      /\ kept \in Seq(Observations)
  BY Lengths, ReplicationsAssumption DEF ReplicationsInv, TypeOK
<1>4. /\ lens' \in Seq(Nat) /\ lens' # <<>> /\ Current' = Current
      /\ lens'[Current'] = lens[Current] + 1
  BY <1>1, CountLengths
<1>5. removal' = removal /\ stat' = stat /\ removal \in {"const", "frac"}
  BY <1>1, Zenon DEF kinds, ReplicationsInv, KindInv, TypeOK
<1>6. Skipped' = IF passed THEN Skipped + 1 ELSE Skipped
  BY <1>2, <1>3, <1>4, <1>5 DEF Skipped
<1>7. /\ kept' \in Seq(Observations)
      /\ Len(kept') = lens'[Current'] - Skipped'
      /\ \A i \in 1 .. Len(kept') : kept'[i] = <<Current', Skipped' + i>>
  <2>1. CASE passed
    <3>1. Len(kept) = 0
      BY <2>1, <1>2, <1>3 DEF Skipped
    <3> QED BY <2>1, <3>1, <1>1, <1>2, <1>3, <1>4, <1>6
  <2>2. CASE ~passed
    <3>1. kept' = Append(kept, Latest) /\ Skipped' = Skipped
      BY <2>2, <1>1, <1>6
    <3>2. /\ kept' \in Seq(Observations) /\ Len(kept') = Len(kept) + 1
          /\ \A i \in 1 .. Len(kept) : kept'[i] = kept[i]
          /\ kept'[Len(kept) + 1] = Latest
      BY <3>1, <1>3, AppendProperties
    <3>3. Latest = <<Current, Skipped + (Len(kept) + 1)>> /\ Len(kept) \in Nat
      BY <1>2, <1>3 DEF Latest
    <3>4. Len(kept') = lens'[Current'] - Skipped'
      BY <3>1, <3>2, <1>2, <1>3, <1>4
    <3>5. ASSUME NEW i \in 1 .. Len(kept')
          PROVE  kept'[i] = <<Current', Skipped' + i>>
      <4>1. CASE i = Len(kept) + 1
        BY <4>1, <3>1, <3>2, <3>3, <1>4
      <4>2. CASE i # Len(kept) + 1
        <5>1. i \in 1 .. Len(kept)
          BY <4>2, <3>2, <3>3
        <5> QED BY <5>1, <3>1, <3>2, <1>2, <1>4
      <4> QED BY <4>1, <4>2
    <3> QED BY <3>2, <3>4, <3>5
  <2> QED BY <2>1, <2>2
<1>8. KeptInv' /\ KindInv' /\ GraphInv'
  BY <1>1, <1>2, <1>4, <1>5, <1>7 DEF KeptInv, ReplicationsInv, KindInv, GraphInv, kinds
<1>9. TypeOK'
  <2>1. numUpdates' \in Nat
    BY <1>1, <1>2, <1>3
  <2> QED BY <2>1, <1>1, <1>4, <1>5, <1>7 DEF ReplicationsInv, TypeOK
<1>10. MeansOfReplications'
  BY <1>1, MeansStay
<1> QED BY <1>4, <1>8, <1>9, <1>10 DEF ReplicationsInv

\* The replications before the one that begins stay as they are.
LEMMA LeftStays ==
  ASSUME ReplicationsInv, lens' = Append(lens, 0), removal' = removal
  PROVE  \A r \in 1 .. Current : Left(r)' = Left(r)
BY EndLengths DEF Left, Dropped

LEMMA GraphResetStep ==
  ASSUME ReplicationsInv, GraphReset
  PROVE  ReplicationsInv'
<1>1. /\ stat \in Graphic /\ ob' = Append(ob, <<>>) /\ lens' = Append(lens, 0)
      /\ numResets' = numResets + 1
      /\ UNCHANGED <<kinds, removed, means, outcome, shown>>
  BY DEF GraphReset, MayReset, Running
<1>2. /\ Len(ob) = Current /\ numResets = Current - 1
      /\ \A r \in 1 .. Len(ob) :
           Len(ob[r]) = lens[r] /\ \A i \in 1 .. Len(ob[r]) : ob[r][i] = <<r, i>>
  BY <1>1 DEF ReplicationsInv, GraphInv, Current
<1>3. <<>> \in Seq(Observations) /\ Len(<<>>) = 0 /\ ob \in Seq(Seq(Observations))
  BY EmptySeq DEF ReplicationsInv, TypeOK
<1>4. /\ ob' \in Seq(Seq(Observations)) /\ Len(ob') = Len(ob) + 1
      /\ \A r \in 1 .. Len(ob) : ob'[r] = ob[r]
      /\ ob'[Len(ob) + 1] = <<>>
  BY <1>1, <1>3, AppendProperties
<1>5. /\ lens' \in Seq(Nat) /\ lens' # <<>> /\ Current' = Current + 1
      /\ lens'[Current'] = 0
      /\ \A r \in 1 .. Current : lens'[r] = lens[r]
      /\ Current \in Nat /\ Current > 0
  BY <1>1, EndLengths, Lengths
<1>6. GraphInv'
  <2>1. ASSUME NEW r \in 1 .. Len(ob')
        PROVE  Len(ob'[r]) = lens'[r] /\ \A i \in 1 .. Len(ob'[r]) : ob'[r][i] = <<r, i>>
    <3>1. CASE r = Current'
      BY <3>1, <1>2, <1>3, <1>4, <1>5
    <3>2. CASE r # Current'
      <4>1. r \in 1 .. Len(ob) /\ r \in 1 .. Current
        BY <3>2, <1>2, <1>4, <1>5
      <4> QED BY <4>1, <1>2, <1>4, <1>5
    <3> QED BY <3>1, <3>2
  <2> QED BY <2>1, <1>1, <1>2, <1>4, <1>5 DEF GraphInv, Current, kinds
<1>7. TypeOK'
  <2>1. numResets' \in Nat
    BY <1>1, <1>2, <1>5
  <2> QED BY <2>1, <1>1, <1>4, <1>5 DEF ReplicationsInv, TypeOK, kinds, removed
<1>8. KindInv' /\ KeptInv' /\ MeansOfReplications'
  BY <1>1 DEF ReplicationsInv, KindInv, KeptInv, MeansOfReplications, kinds, Graphic
<1> QED BY <1>5, <1>6, <1>7, <1>8 DEF ReplicationsInv

\* After a reset, nothing is kept and nothing skipped.
LEMMA KeptAfterReset ==
  ASSUME RemovalReset, lens'[Current'] = 0
  PROVE  KeptInv' /\ kept' \in Seq(Observations) /\ numUpdates' \in Nat
<1>1. lens'[Current'] = 0 /\ kept' = <<>> /\ numUpdates' = 0
  BY DEF RemovalReset
<1>2. Skipped' = 0
  <2>1. WarmUp \in Nat
    BY ReplicationsAssumption
  <2> QED BY <1>1, <2>1 DEF Skipped
<1>3. kept' \in Seq(Observations) /\ Len(kept') = 0
  BY <1>1, EmptySeq
<1> QED BY <1>1, <1>2, <1>3 DEF KeptInv

LEMMA BmeansResetStep ==
  ASSUME ReplicationsInv, BmeansReset
  PROVE  ReplicationsInv'
<1>1. /\ stat \in {"bmeans", "bmeans2"} /\ RemovalReset /\ lens' = Append(lens, 0)
      /\ numResets' = numResets + 1
      /\ UNCHANGED <<kinds, ob, means, outcome, shown>>
  BY DEF BmeansReset, MayReset, Running
<1>2. KeptInv' /\ kept' \in Seq(Observations) /\ numUpdates' \in Nat
  BY <1>1, EndLengths, KeptAfterReset
<1>3. lens' \in Seq(Nat) /\ lens' # <<>>
  BY <1>1, EndLengths
<1>4. TypeOK'
  <2>1. numResets' \in Nat
    BY <1>1 DEF ReplicationsInv, TypeOK
  <2> QED BY <2>1, <1>1, <1>2, <1>3 DEF ReplicationsInv, TypeOK, kinds
<1>5. KindInv' /\ GraphInv' /\ MeansOfReplications'
  BY <1>1 DEF ReplicationsInv, KindInv, GraphInv, MeansOfReplications, kinds, Graphic
<1> QED BY <1>2, <1>3, <1>4, <1>5 DEF ReplicationsInv

LEMMA RepmeanResetStep ==
  ASSUME ReplicationsInv, RepmeanReset
  PROVE  ReplicationsInv'
<1>1. /\ stat = "repmean" /\ outcome = "ok" /\ stat \notin Graphic
      /\ UNCHANGED <<kinds, ob>>
  BY DEF RepmeanReset, MayReset, Running, Graphic
<1>2. stat' = stat /\ removal' = removal
  BY <1>1 DEF kinds
<1>3. CASE Halt("exception") /\ UNCHANGED <<lens, removed, numResets, means>>
  BY <1>1, <1>2, <1>3
    DEF ReplicationsInv, TypeOK, KindInv, GraphInv, KeptInv, MeansOfReplications, Left,
        Dropped, Halt, removed
<1>4. CASE RemovalReset /\ Halt("assertion") /\ UNCHANGED <<lens, numResets, means>>
  <2>1. kept' \in Seq(Observations) /\ numUpdates' \in Nat
    BY <1>4, EmptySeq DEF RemovalReset
  <2> QED BY <2>1, <1>1, <1>2, <1>4
    DEF ReplicationsInv, TypeOK, KindInv, GraphInv, KeptInv, MeansOfReplications, Left,
        Dropped, Halt
<1>5. CASE /\ Remaining # <<>> /\ RemovalReset
           /\ means' = Append(means, Range(Remaining))
           /\ numResets' = numResets + 1
           /\ lens' = Append(lens, 0)
           /\ UNCHANGED <<outcome, shown>>
  <2>1. KeptInv' /\ kept' \in Seq(Observations) /\ numUpdates' \in Nat
    BY <1>5, EndLengths, KeptAfterReset
  <2>2. /\ lens' \in Seq(Nat) /\ lens' # <<>> /\ Current' = Current + 1
        /\ Current \in Nat /\ Current > 0
    BY <1>5, EndLengths, Lengths
  <2>3. /\ Range(Remaining) = Left(Current)
        /\ Left(Current) # {} /\ Left(Current) \subseteq Observations
    BY <1>1, <1>5, MeanOfLeft
  <2>4. /\ means \in Seq(SUBSET Observations) /\ Len(means) = Current - 1
        /\ \A r \in 1 .. Len(means) : means[r] = Left(r) /\ means[r] # {}
    BY <1>1 DEF ReplicationsInv, TypeOK, MeansOfReplications, Current
  <2>5. /\ means' \in Seq(SUBSET Observations) /\ Len(means') = Len(means) + 1
        /\ \A r \in 1 .. Len(means) : means'[r] = means[r]
        /\ means'[Len(means) + 1] = Left(Current)
    <3>1. Left(Current) \in SUBSET Observations /\ means' = Append(means, Left(Current))
      BY <1>5, <2>3
    <3> QED BY <3>1, <2>4, AppendProperties
  <2>6. \A r \in 1 .. Current : Left(r)' = Left(r)
    BY <1>2, <1>5, LeftStays
  <2>7. MeansOfReplications'
    <3>1. ASSUME NEW r \in 1 .. Len(means')
          PROVE  means'[r] = Left(r)' /\ means'[r] # {}
      <4>1. CASE r = Current
        BY <4>1, <2>2, <2>3, <2>4, <2>5, <2>6
      <4>2. CASE r # Current
        <5>1. r \in 1 .. Len(means) /\ r \in 1 .. Current
          BY <4>2, <2>2, <2>4, <2>5
        <5> QED BY <5>1, <2>4, <2>5, <2>6
      <4> QED BY <4>1, <4>2
    <3> QED BY <3>1, <2>2, <2>4, <2>5 DEF MeansOfReplications, Current
  <2>8. TypeOK'
    <3>1. numResets' \in Nat
      BY <1>5 DEF ReplicationsInv, TypeOK
    <3> QED BY <3>1, <1>1, <1>2, <1>5, <2>1, <2>2, <2>5 DEF ReplicationsInv, TypeOK
  <2>9. KindInv' /\ GraphInv'
    BY <1>1, <1>2 DEF ReplicationsInv, KindInv, GraphInv, Graphic
  <2> QED BY <2>1, <2>2, <2>7, <2>8, <2>9 DEF ReplicationsInv
<1> QED BY <1>3, <1>4, <1>5 DEF RepmeanReset

-----------------------------------------------------------------------------
(***************************************************************************)
(* Results                                                                 *)
(***************************************************************************)

ResultInv == BatchesPartition /\ GraphsReadFinished /\ WindowsCentred

\* A step that does not end with a result, nor in the loop of welch.
LEMMA NoResult ==
  ASSUME outcome' \notin {"result", "window"}
  PROVE  ResultInv'
BY DEF ResultInv, BatchesPartition, GraphsReadFinished, WindowsCentred

\* A program that ends leaves everything as it is but the result.
LEMMA EndStep ==
  ASSUME ReplicationsInv,
         outcome' \in {"result", "assertion", "window", "exception"},
         shown' \in Seq(SUBSET Observations),
         UNCHANGED <<kinds, lens, ob, removed, numResets, means>>
  PROVE  ReplicationsInv'
<1>1. TypeOK'
  BY DEF ReplicationsInv, TypeOK, kinds, removed
<1>2. KindInv' /\ GraphInv' /\ KeptInv'
  BY DEF ReplicationsInv, KindInv, GraphInv, KeptInv, kinds
<1>3. MeansOfReplications'
  BY DEF ReplicationsInv, MeansOfReplications, Left, Dropped, kinds
<1> QED BY <1>1, <1>2, <1>3 DEF ReplicationsInv

LEMMA FailStep ==
  ASSUME ReplicationsInv, NEW how \in {"assertion", "exception"}, Fail(how)
  PROVE  ReplicationsInv' /\ ResultInv'
<1>1. /\ outcome' = how /\ shown' \in Seq(SUBSET Observations)
      /\ UNCHANGED <<kinds, lens, ob, removed, numResets, means>>
  BY DEF Fail, Halt, ReplicationsInv, TypeOK
<1> QED BY <1>1, EndStep, NoResult

\* A function of 1 .. n is a sequence.
LEMMA SequenceOfSets ==
  ASSUME NEW n \in Nat, NEW f \in [1 .. n -> SUBSET Observations]
  PROVE  f \in Seq(SUBSET Observations) /\ Len(f) = n
BY SeqDef

LEMMA RepmeanValueStep ==
  ASSUME ReplicationsInv, RepmeanValue
  PROVE  ReplicationsInv' /\ ResultInv'
<1>1. CASE Fail("exception")
  BY <1>1, FailStep
<1>2. CASE Result(means)
  <2>1. /\ outcome' = "result" /\ shown' = means /\ stat = "repmean" /\ stat' = stat
        /\ UNCHANGED <<kinds, lens, ob, removed, numResets, means>>
    BY <1>2 DEF Result, RepmeanValue, Running, kinds
  <2>2. shown' \in Seq(SUBSET Observations)
    BY <2>1 DEF ReplicationsInv, TypeOK
  <2>3. ReplicationsInv'
    BY <2>1, <2>2, EndStep
  <2>4. ResultInv'
    BY <2>1 DEF ResultInv, BatchesPartition, GraphsReadFinished, WindowsCentred, Graphic
  <2> QED BY <2>3, <2>4
<1> QED BY <1>1, <1>2 DEF RepmeanValue

LEMMA BatchInterval ==
  ASSUME NEW p \in Int
  PROVE  Batch(p) = p * BatchSize .. p * BatchSize + BatchSize - 1
<1>1. BatchSize \in Int
  BY ReplicationsAssumption
<1>2. (p + 1) * BatchSize = p * BatchSize + BatchSize
  BY <1>1
<1> QED BY <1>1, <1>2 DEF Batch

\* The places of k batches are those below k times the size, each in one.
LEMMA BatchPlaces ==
  ASSUME NEW n \in Nat, NEW k, k = n \div BatchSize
  PROVE  /\ k \in Nat /\ k * BatchSize \in Nat
         /\ k * BatchSize <= n /\ n < k * BatchSize + BatchSize
         /\ \A i \in 1 .. k : (i - 1) * BatchSize \in Nat /\ i * BatchSize <= k * BatchSize
         /\ \A m \in 1 .. k * BatchSize : \E i \in 1 .. k :
              (i - 1) * BatchSize < m /\ m <= (i - 1) * BatchSize + BatchSize
<1>1. BatchSize \in Nat /\ BatchSize > 0
  BY ReplicationsAssumption
<1>2. k \in Nat /\ k * BatchSize <= n /\ n < k * BatchSize + BatchSize
  BY <1>1
<1>3. k * BatchSize \in Nat
  BY <1>1, <1>2
<1>4. ASSUME NEW i \in 1 .. k
      PROVE  (i - 1) * BatchSize \in Nat /\ i * BatchSize <= k * BatchSize
  BY <1>1, <1>2
<1>5. ASSUME NEW m \in 1 .. k * BatchSize
      PROVE  \E i \in 1 .. k :
               (i - 1) * BatchSize < m /\ m <= (i - 1) * BatchSize + BatchSize
  <2> DEFINE q == (m - 1) \div BatchSize
  <2>1. q \in Nat /\ q * BatchSize <= m - 1 /\ m - 1 < q * BatchSize + BatchSize
    BY <1>1
  <2> HIDE DEF q
  <2>2. q < k
    <3> SUFFICES ASSUME q >= k PROVE FALSE
      BY <1>2, <2>1
    <3>1. q * BatchSize >= k * BatchSize
      BY <1>1, <1>2, <2>1
    <3> QED BY <3>1, <1>1, <1>3, <2>1
  <2>3. q + 1 \in 1 .. k /\ (q + 1) - 1 = q
    BY <1>2, <2>1, <2>2
  <2>4. q * BatchSize < m /\ m <= q * BatchSize + BatchSize
    <3>1. q * BatchSize \in Nat
      BY <1>1, <2>1
    <3> QED BY <3>1, <1>1, <1>3, <2>1
  <2>5. /\ ((q + 1) - 1) * BatchSize < m
        /\ m <= ((q + 1) - 1) * BatchSize + BatchSize
    BY <2>3, <2>4
  <2> QED BY <2>3, <2>5
<1> QED BY <1>2, <1>3, <1>4, <1>5

LEMMA BmeansValueStep ==
  ASSUME ReplicationsInv, BmeansValue
  PROVE  ReplicationsInv' /\ ResultInv'
<1> DEFINE n == Len(Remaining)
           k == n \div BatchSize
           batches == [i \in 1 .. k |-> {At(Remaining, j) : j \in Batch(i - 1)}]
<1>1. stat = "bmeans" /\ outcome = "ok" /\ stat \notin Graphic
  BY DEF BmeansValue, Running, Graphic
<1>2. CASE Fail("exception")
  BY <1>2, FailStep
<1>3. CASE k > 2 /\ Result(batches)
  <2> DEFINE d == Dropped(lens[Current])
  <2>1. /\ outcome' = "result" /\ shown' = batches
        /\ stat' = stat /\ removal' = removal /\ lens' = lens /\ Current' = Current
        /\ UNCHANGED <<kinds, lens, ob, removed, numResets, means>>
    BY <1>3 DEF Result, kinds, Current
  <2>2. d \in Nat /\ Remaining \in Seq(Observations) /\ n \in Nat
    BY <1>1, RemainingLeft, LenProperties
  <2>3. BatchSize \in Nat /\ BatchSize > 0
    BY ReplicationsAssumption
  <2>4. Remaining # <<>>
    <3>1. n # 0
      BY <1>3, <2>2, <2>3
    <3> QED BY <3>1, EmptySeq
  <2>5. /\ n = lens[Current] - d
        /\ \A i \in 1 .. n : Remaining[i] = <<Current, d + i>>
        /\ lens[Current] \in Nat /\ Current \in Nat /\ Current > 0
    BY <1>1, <2>4, RemainingLeft, Lengths
  <2>6. /\ k \in Nat /\ k * BatchSize \in Nat
        /\ k * BatchSize <= n /\ n < k * BatchSize + BatchSize
        /\ \A i \in 1 .. k : (i - 1) * BatchSize \in Nat /\ i * BatchSize <= k * BatchSize
        /\ \A m \in 1 .. k * BatchSize : \E i \in 1 .. k :
             (i - 1) * BatchSize < m /\ m <= (i - 1) * BatchSize + BatchSize
    BY <2>2, BatchPlaces
  <2> DEFINE first(i) == d + (i - 1) * BatchSize + 1
  <2> HIDE DEF n, k, d
  <2>7. ASSUME NEW i \in 1 .. k
        PROVE  /\ batches[i] = {Current} \X (first(i) .. first(i) + BatchSize - 1)
               /\ first(i) \in Nat /\ first(i) + BatchSize - 1 <= d + k * BatchSize
               /\ first(i) > d
    <3> DEFINE a == (i - 1) * BatchSize
    <3>1. a \in Nat /\ a + BatchSize = i * BatchSize /\ a + BatchSize <= k * BatchSize
      BY <2>3, <2>6
    <3>2. Batch(i - 1) = a .. a + BatchSize - 1
      BY <2>6, BatchInterval
    <3> HIDE DEF a
    <3>3. ASSUME NEW j \in Batch(i - 1)
          PROVE  /\ At(Remaining, j) = <<Current, d + j + 1>>
                 /\ d + j + 1 \in d + a + 1 .. d + a + BatchSize
      <4>1. j \in Nat /\ j + 1 \in 1 .. n /\ j \in 0 .. n - 1
        BY <2>2, <2>3, <2>6, <3>1, <3>2
      <4>2. At(Remaining, j) = Remaining[j + 1]
        BY <4>1 DEF At, n
      <4>3. Remaining[j + 1] = <<Current, d + (j + 1)>>
        BY <4>1, <2>5
      <4>4. d + (j + 1) = d + j + 1
        BY <4>1, <2>2
      <4>5. d + j + 1 \in d + a + 1 .. d + a + BatchSize
        BY <4>1, <2>2, <2>3, <3>1, <3>2
      <4> QED BY <4>2, <4>3, <4>4, <4>5
    <3>4. ASSUME NEW m \in d + a + 1 .. d + a + BatchSize
          PROVE  m - d - 1 \in Batch(i - 1) /\ d + (m - d - 1) + 1 = m
      BY <2>2, <2>3, <3>1, <3>2
    <3>5. {At(Remaining, j) : j \in Batch(i - 1)}
            = {Current} \X (d + a + 1 .. d + a + BatchSize)
      <4>1. ASSUME NEW o \in {Current} \X (d + a + 1 .. d + a + BatchSize)
            PROVE  o \in {At(Remaining, j) : j \in Batch(i - 1)}
        <5>1. PICK m \in d + a + 1 .. d + a + BatchSize : o = <<Current, m>>
          OBVIOUS
        <5> QED BY <5>1, <3>3, <3>4
      <4>2. ASSUME NEW j \in Batch(i - 1)
            PROVE  At(Remaining, j) \in {Current} \X (d + a + 1 .. d + a + BatchSize)
        BY <3>3
      <4> QED BY <4>1, <4>2
    <3>6. /\ first(i) = d + a + 1 /\ first(i) + BatchSize - 1 = d + a + BatchSize
          /\ first(i) \in Nat
      BY <2>2, <2>3, <3>1 DEF a
    <3>7. batches[i] = {At(Remaining, j) : j \in Batch(i - 1)}
      OBVIOUS
    <3> HIDE DEF first, batches
    <3> QED BY <2>2, <2>3, <2>6, <3>1, <3>5, <3>6, <3>7
  <2>8. shown' \in Seq(SUBSET Observations) /\ Len(shown') = k
    <3>1. ASSUME NEW i \in 1 .. k PROVE batches[i] \in SUBSET Observations
      <4>1. first(i) .. first(i) + BatchSize - 1 \subseteq Nat \ {0}
        <5> HIDE DEF first
        <5> QED BY <2>2, <2>3, <2>7
      <4>2. Current \in Nat \ {0}
        BY <2>5
      <4> HIDE DEF batches, first
      <4> QED BY <4>1, <4>2, <2>7 DEF Observations
    <3>2. batches \in [1 .. k -> SUBSET Observations]
      BY <3>1
    <3> HIDE DEF batches
    <3> QED BY <2>1, <2>6, <3>2, SequenceOfSets
  <2>9. ReplicationsInv'
    BY <2>1, <2>8, EndStep
  <2>10. UNION Range(batches) = {Current} \X (d + 1 .. d + k * BatchSize)
    <3>1. Range(batches) = {batches[i] : i \in 1 .. k}
      BY DEF Range
    <3> HIDE DEF batches, first
    <3>2. ASSUME NEW i \in 1 .. k
          PROVE  batches[i] \subseteq {Current} \X (d + 1 .. d + k * BatchSize)
      BY <2>2, <2>3, <2>6, <2>7
    <3>3. ASSUME NEW o \in {Current} \X (d + 1 .. d + k * BatchSize)
          PROVE  \E i \in 1 .. k : o \in batches[i]
      <4>1. PICK m \in d + 1 .. d + k * BatchSize : o = <<Current, m>>
        OBVIOUS
      <4>2. m - d \in 1 .. k * BatchSize
        BY <2>2, <2>6, <4>1
      <4>3. PICK i \in 1 .. k :
              (i - 1) * BatchSize < m - d /\ m - d <= (i - 1) * BatchSize + BatchSize
        BY <2>6, <4>2
      <4>4. m \in first(i) .. first(i) + BatchSize - 1
        BY <2>2, <2>3, <2>6, <4>2, <4>3 DEF first
      <4> QED BY <2>7, <4>1, <4>4
    <3> QED BY <3>1, <3>2, <3>3
  <2>11. ASSUME NEW i \in 1 .. k PROVE Cardinality(batches[i]) = BatchSize
    <3> DEFINE places == first(i) .. first(i) + BatchSize - 1
    <3>1. IsFiniteSet(places) /\ Cardinality(places) = BatchSize
      <4> HIDE DEF first
      <4> QED BY <2>3, <2>7, FS_Interval
    <3>2. IsFiniteSet({Current}) /\ Cardinality({Current}) = 1
      BY FS_Singleton
    <3>3. Cardinality({Current} \X places) = 1 * BatchSize
      <4> HIDE DEF places
      <4> QED BY <3>1, <3>2, FS_Product
    <3>4. batches[i] = {Current} \X places
      BY <2>7
    <3> HIDE DEF batches, places
    <3> QED BY <2>3, <3>3, <3>4
  <2>12. BatchesPartition'
    <3> HIDE DEF batches
    <3> SUFFICES
          /\ UNION Range(shown') = {Current} \X (d + 1 .. d + Len(shown') * BatchSize)
          /\ \A i \in 1 .. Len(shown') : Cardinality(shown'[i]) = BatchSize
          /\ Len(shown') * BatchSize <= lens[Current] - d
          /\ lens[Current] - d < Len(shown') * BatchSize + BatchSize
      BY <1>1, <2>1 DEF BatchesPartition, Dropped, d
    <3> QED BY <2>1, <2>5, <2>6, <2>8, <2>10, <2>11
  <2>13. ResultInv'
    BY <1>1, <2>1, <2>12 DEF ResultInv, GraphsReadFinished, WindowsCentred, Graphic
  <2> QED BY <2>9, <2>13
<1>4. k \in Nat
  BY <1>1, RemainingLeft, LenProperties, BatchPlaces
<1> QED BY <1>2, <1>3, <1>4 DEF BmeansValue

\* A piece of what is left is of consecutive observations.
LEMMA PieceOfLeft ==
  ASSUME ReplicationsInv, stat \notin Graphic, outcome = "ok", Remaining # <<>>,
         NEW p \in Nat, NEW b \in Nat, p + b <= Len(Remaining)
  PROVE  LET d == Dropped(lens[Current])
         IN  /\ Piece(p, b) = {Current} \X (d + p + 1 .. d + p + b)
             /\ Piece(p, b) \in SUBSET Observations
<1> DEFINE d == Dropped(lens[Current])
           n == Len(Remaining)
           places == d + p + 1 .. d + p + b
<1>1. d \in Nat /\ n \in Nat /\ \A i \in 1 .. n : Remaining[i] = <<Current, d + i>>
  BY RemainingLeft, LenProperties
<1>2. Current \in Nat /\ Current > 0
  BY Lengths
<1> HIDE DEF d
<1>3. ASSUME NEW j \in p .. p + b - 1
      PROVE  At(Remaining, j) = <<Current, d + j + 1>> /\ d + j + 1 \in places
  <2>1. j \in 0 .. n - 1 /\ j + 1 \in 1 .. n /\ d + (j + 1) = d + j + 1
    BY <1>1
  <2>2. At(Remaining, j) = <<Current, d + (j + 1)>>
    BY <1>1, <2>1 DEF At
  <2>3. d + j + 1 \in places
    BY <1>1
  <2> QED BY <2>1, <2>2, <2>3
<1>4. ASSUME NEW m \in places
      PROVE  m - d - 1 \in p .. p + b - 1 /\ d + (m - d - 1) + 1 = m
  BY <1>1
<1>5. Piece(p, b) = {Current} \X places
  <2>1. ASSUME NEW o \in {Current} \X places PROVE o \in Piece(p, b)
    <3>1. PICK m \in places : o = <<Current, m>>
      OBVIOUS
    <3> QED BY <3>1, <1>3, <1>4 DEF Piece
  <2>2. Piece(p, b) \subseteq {Current} \X places
    BY <1>3 DEF Piece
  <2> QED BY <2>1, <2>2
<1>6. places \subseteq Nat \ {0}
  BY <1>1
<1>7. {Current} \X places \in SUBSET Observations
  BY <1>2, <1>6 DEF Observations
<1> HIDE DEF places
<1>8. Piece(p, b) \in SUBSET Observations
  BY <1>5, <1>7
<1> QED BY <1>5, <1>8 DEF places, d

LEMMA Bmeans2ValueStep ==
  ASSUME ReplicationsInv, Bmeans2Value
  PROVE  ReplicationsInv' /\ ResultInv'
<1> DEFINE n == Len(Remaining)
           b == n \div Batches
           d == Dropped(lens[Current])
<1>1. stat = "bmeans2" /\ outcome = "ok" /\ stat \notin Graphic
  BY DEF Bmeans2Value, Running, Graphic
<1>2. CASE Fail("exception")
  BY <1>2, FailStep
<1>3. CASE n > 4 * Batches /\ Result(<<Piece(0, Batches * b), Piece(Rebatches * b, b)>>)
  <2>1. /\ outcome' = "result"
        /\ shown' = <<Piece(0, Batches * b), Piece(Rebatches * b, b)>>
        /\ stat' = stat /\ removal' = removal /\ lens' = lens /\ Current' = Current
        /\ UNCHANGED <<kinds, lens, ob, removed, numResets, means>>
    BY <1>3 DEF Result, kinds, Current
  <2>2. /\ Batches \in Nat /\ Rebatches \in Nat /\ Rebatches < Batches
        /\ d \in Nat /\ n \in Nat
    BY <1>1, ReplicationsAssumption, RemainingLeft, LenProperties
  <2>3. Remaining # <<>>
    <3>1. n # 0
      BY <1>3, <2>2
    <3> QED BY <3>1, EmptySeq
  <2>4. n = lens[Current] - d
    BY <1>1, <2>3, RemainingLeft
  <2>5. b \in Nat /\ Batches * b <= n /\ n < Batches * b + Batches
    <3>1. Batches > 0
      BY <2>2
    <3> QED BY <2>2, <3>1
  <2> HIDE DEF n, d, b
  <2>6. b >= 1
    <3> SUFFICES ASSUME b = 0 PROVE FALSE
      BY <2>5
    <3>1. Batches * b = 0
      BY <2>2
    <3> QED BY <1>3, <2>2, <2>5, <3>1
  <2>7. b <= n
    <3>1. b <= Batches * b
      BY <2>2, <2>5
    <3>2. Batches * b \in Nat
      BY <2>2, <2>5
    <3> QED BY <2>2, <2>5, <3>1, <3>2
  <2>8. /\ Batches * b \in Nat /\ 0 + Batches * b <= n
        /\ Rebatches * b \in Nat /\ Rebatches * b + b <= n
    <3>1. Rebatches * b + b = (Rebatches + 1) * b /\ (Rebatches + 1) * b <= Batches * b
      BY <2>2, <2>5
    <3> QED BY <2>2, <2>5, <3>1
  <2>9. /\ Piece(0, Batches * b) = {Current} \X (d + 0 + 1 .. d + 0 + Batches * b)
        /\ Piece(0, Batches * b) \in SUBSET Observations
    BY <1>1, <2>3, <2>8, PieceOfLeft DEF n, d
  <2>10. Piece(Rebatches * b, b) \in SUBSET Observations
    BY <1>1, <2>3, <2>5, <2>8, PieceOfLeft DEF n, d
  <2>11. ReplicationsInv'
    <3>1. shown' \in Seq(SUBSET Observations)
      BY <2>1, <2>9, <2>10
    <3> QED BY <2>1, <3>1, EndStep
  <2>12. BatchesPartition'
    <3>1. shown'[1] = {Current} \X (d + 1 .. d + Batches * b)
      <4>1. d + 0 = d
        BY <2>2
      <4> QED BY <2>1, <2>9, <4>1
    <3>2. Batches * b <= n /\ n < Batches * (b + 1)
      BY <2>2, <2>5
    <3>3. \E c \in 1 .. n :
            /\ shown'[1] = {Current} \X (d + 1 .. d + Batches * c)
            /\ Batches * c <= n /\ n < Batches * (c + 1)
      BY <2>2, <2>5, <2>6, <2>7, <3>1, <3>2
    <3> QED BY <1>1, <2>1, <2>4, <3>3 DEF BatchesPartition, Dropped, d
  <2>13. ResultInv'
    BY <1>1, <2>1, <2>12 DEF ResultInv, GraphsReadFinished, WindowsCentred, Graphic
  <2> QED BY <2>11, <2>13
<1> QED BY <1>2, <1>3 DEF Bmeans2Value

\* The shortest ended replication bounds the others; what a graph reads of
\* these places is the same of each.
LEMMA GraphPlaces ==
  ASSUME ReplicationsInv, stat \in Graphic, numResets >= 5
  PROVE  /\ numResets = Current - 1 /\ Current \in Nat
         /\ MinSize \in Nat
         /\ \A r \in 1 .. Current - 1 : lens[r] \in Nat /\ MinSize <= lens[r]
         /\ \A places \in SUBSET (0 .. MinSize - 1) :
              Across(places) = (1 .. Current - 1) \X {i + 1 : i \in places}
<1>1. /\ numResets = Current - 1 /\ Len(ob) = Current /\ Current \in Nat
      /\ \A r \in 1 .. Current :
           Len(ob[r]) = lens[r] /\ \A i \in 1 .. lens[r] : ob[r][i] = <<r, i>>
  BY Lengths DEF ReplicationsInv, GraphInv, Current
<1>2. \A r \in 1 .. Current : lens[r] \in Nat
  BY Lengths, ElementOfSeq DEF Current
<1> DEFINE T == {Len(ob[r]) : r \in 1 .. numResets}
<1>3. T \in SUBSET Nat /\ T # {}
  <2>1. 1 \in 1 .. numResets
    BY <1>1
  <2> QED BY <2>1, <1>1, <1>2
<1>4. \E n \in T : \A r \in 1 .. numResets : n <= Len(ob[r])
  <2>1. PICK n \in T : \A m \in T : n <= m
    BY <1>3, SmallestLength
  <2> QED BY <2>1
<1>5. MinSize \in T /\ \A r \in 1 .. numResets : MinSize <= Len(ob[r])
  BY <1>4 DEF MinSize
<1>6. MinSize \in Nat /\ \A r \in 1 .. Current - 1 : lens[r] \in Nat /\ MinSize <= lens[r]
  BY <1>1, <1>2, <1>3, <1>5
<1>7. ASSUME NEW places \in SUBSET (0 .. MinSize - 1)
      PROVE  Across(places) = (1 .. Current - 1) \X {i + 1 : i \in places}
  <2>1. ASSUME NEW r \in 1 .. Current - 1, NEW i \in places
        PROVE  At(ob[r], i) = <<r, i + 1>>
    <3>1. i \in 0 .. Len(ob[r]) - 1 /\ i + 1 \in 1 .. lens[r]
      BY <1>1, <1>6
    <3> QED BY <3>1, <1>1 DEF At
  <2>2. Across(places) = {At(ob[r], i) : r \in 1 .. Current - 1, i \in places}
    BY <1>1 DEF Across
  <2>3. ASSUME NEW o \in (1 .. Current - 1) \X {i + 1 : i \in places}
        PROVE  o \in Across(places)
    <3>1. PICK r \in 1 .. Current - 1, i \in places : o = <<r, i + 1>>
      OBVIOUS
    <3> QED BY <3>1, <2>1, <2>2
  <2>4. ASSUME NEW o \in Across(places)
        PROVE  o \in (1 .. Current - 1) \X {i + 1 : i \in places}
    <3>1. PICK r \in 1 .. Current - 1, i \in places : o = At(ob[r], i)
      BY <2>2
    <3> QED BY <3>1, <2>1
  <2> QED BY <2>3, <2>4
<1> QED BY <1>1, <1>6, <1>7

\* A graph whose points are read across the ended replications.
LEMMA GraphStep ==
  ASSUME ReplicationsInv, stat \in Graphic, numResets >= 5,
         NEW n \in Nat, NEW places \in [1 .. n -> SUBSET (0 .. MinSize - 1)],
         Result([p \in 1 .. n |-> Across(places[p])])
  PROVE  /\ ReplicationsInv'
         /\ (\A p \in 1 .. n : IF stat = "jain" /\ p = n THEN places[p] = {}
                                                         ELSE p - 1 \in places[p])
              => GraphsReadFinished'
         /\ Len(shown') = n
         /\ \A p \in 1 .. n : shown'[p] = (1 .. Current - 1) \X {i + 1 : i \in places[p]}
<1> DEFINE points == [p \in 1 .. n |-> Across(places[p])]
<1>1. /\ outcome' = "result" /\ shown' = points
      /\ UNCHANGED <<kinds, lens, ob, removed, numResets, means>>
      /\ lens' = lens /\ Current' = Current
  BY DEF Result, Current
<1>2. /\ numResets = Current - 1 /\ Current \in Nat /\ MinSize \in Nat
      /\ \A r \in 1 .. Current - 1 : lens[r] \in Nat /\ MinSize <= lens[r]
      /\ \A S \in SUBSET (0 .. MinSize - 1) :
           Across(S) = (1 .. Current - 1) \X {i + 1 : i \in S}
  BY GraphPlaces
<1>3. ASSUME NEW p \in 1 .. n
      PROVE  /\ points[p] = (1 .. Current - 1) \X {i + 1 : i \in places[p]}
             /\ {i + 1 : i \in places[p]} \in SUBSET (1 .. MinSize)
  BY <1>2
<1>4. points \in [1 .. n -> SUBSET Observations]
  <2>1. ASSUME NEW p \in 1 .. n PROVE points[p] \in SUBSET Observations
    <3> HIDE DEF points
    <3> QED BY <1>2, <1>3 DEF Observations
  <2> QED BY <2>1
<1> HIDE DEF points
<1>5. shown' \in Seq(SUBSET Observations) /\ Len(shown') = n
  BY <1>1, <1>4, SequenceOfSets
<1>6. ReplicationsInv'
  BY <1>1, <1>5, EndStep
<1>7. ASSUME \A p \in 1 .. n : IF stat = "jain" /\ p = n THEN places[p] = {}
                                                     ELSE p - 1 \in places[p]
      PROVE  GraphsReadFinished'
  <2> SUFFICES ASSUME NEW p \in 1 .. n
               PROVE  IF stat = "jain" /\ p = n THEN shown'[p] = {}
                      ELSE \E S \in SUBSET (1 .. lens[1]) :
                             /\ p \in S
                             /\ shown'[p] = (1 .. Current - 1) \X S
                             /\ \A r \in 1 .. Current - 1 : S \subseteq 1 .. lens[r]
    BY <1>1, <1>5 DEF GraphsReadFinished, NotComputed, kinds
  <2> DEFINE S == {i + 1 : i \in places[p]}
  <2>1. shown'[p] = (1 .. Current - 1) \X S /\ S \in SUBSET (1 .. MinSize)
    BY <1>1, <1>3
  <2>2. ASSUME NEW r \in 1 .. Current - 1 PROVE S \subseteq 1 .. lens[r]
    <3> HIDE DEF S
    <3> QED BY <1>2, <2>1
  <2>3. 1 \in 1 .. Current - 1
    BY <1>2
  <2>4. CASE stat = "jain" /\ p = n
    BY <1>7, <2>1, <2>4
  <2>5. CASE ~ (stat = "jain" /\ p = n)
    <3>1. p - 1 \in places[p] /\ p = (p - 1) + 1
      BY <1>7, <2>5
    <3>2. p \in S
      BY <3>1
    <3> HIDE DEF S
    <3> QED BY <2>1, <2>2, <2>3, <2>5, <3>2
  <2> QED BY <2>4, <2>5
<1> QED BY <1>1, <1>3, <1>5, <1>6, <1>7

LEMMA WelchReportStep ==
  ASSUME ReplicationsInv, WelchReport
  PROVE  ReplicationsInv' /\ ResultInv'
<1>1. stat = "welch" /\ stat \in Graphic
  BY DEF WelchReport, Running, Graphic
<1>2. CASE Fail("assertion")
  BY <1>2, FailStep
<1>3. ASSUME numResets >= 5, ~ (MinSize <= HalfWindow), ~ Fail("assertion")
      PROVE  ReplicationsInv' /\ ResultInv'
  <2> DEFINE n == MinSize - HalfWindow
             places == [p \in 1 .. n |-> Window(p - 1)]
  <2>1. MinSize \in Nat /\ HalfWindow \in Nat /\ Current \in Nat /\ Current >= 6
    BY <1>1, <1>3, GraphPlaces, ReplicationsAssumption
  <2>2. n \in Nat /\ n <= MinSize
    BY <1>3, <2>1
  <2>3. ASSUME NEW j \in 0 .. n - 1
        PROVE  \E w \in 0 .. HalfWindow : w <= j /\ Window(j) = j - w .. j + w
    BY <2>1, <2>2 DEF Window
  <2>4. \A j \in 0 .. n - 1 : Window(j) \subseteq 0 .. MinSize - 1
    <3> SUFFICES ASSUME NEW j \in 0 .. n - 1 PROVE Window(j) \subseteq 0 .. MinSize - 1
      OBVIOUS
    <3>1. PICK w \in 0 .. HalfWindow : w <= j /\ Window(j) = j - w .. j + w
      BY <2>3
    <3> QED BY <2>1, <2>2, <3>1
  <2>5. Result([p \in 1 .. n |-> Across(Window(p - 1))])
    BY <1>3, <2>1, <2>4 DEF WelchReport
  <2>6. \A p \in 1 .. n : p - 1 \in 0 .. n - 1
    BY <2>2
  <2>7. places \in [1 .. n -> SUBSET (0 .. MinSize - 1)]
    BY <2>4, <2>6
  <2>8. [p \in 1 .. n |-> Across(Window(p - 1))] = [p \in 1 .. n |-> Across(places[p])]
    OBVIOUS
  <2>8a. \A p \in 1 .. n : p - 1 \in places[p]
    <3> SUFFICES ASSUME NEW p \in 1 .. n PROVE p - 1 \in Window(p - 1)
      OBVIOUS
    <3>1. PICK w \in 0 .. HalfWindow : w <= p - 1 /\ Window(p - 1) = p - 1 - w .. p - 1 + w
      BY <2>3, <2>6
    <3> QED BY <2>1, <2>2, <3>1
  <2> HIDE DEF n, places
  <2>9. Result([p \in 1 .. n |-> Across(places[p])])
    BY <2>5, <2>8
  <2>10. /\ ReplicationsInv' /\ GraphsReadFinished' /\ Len(shown') = n
         /\ \A p \in 1 .. n : shown'[p] = (1 .. Current - 1) \X {i + 1 : i \in places[p]}
    BY <1>1, <1>3, <2>2, <2>7, <2>9, <2>8a, GraphStep
  <2>11. ASSUME NEW p \in 1 .. n, NEW m \in Int
         PROVE  <<1, m>> \in shown'[p] <=> m - 1 \in Window(p - 1)
    <3>1. shown'[p] = (1 .. Current - 1) \X {i + 1 : i \in Window(p - 1)}
      BY <2>10 DEF places
    <3>2. 1 \in 1 .. Current - 1
      BY <2>1
    <3>3. m \in {i + 1 : i \in Window(p - 1)} <=> m - 1 \in Window(p - 1)
      <4>1. ASSUME NEW i \in Window(p - 1), m = i + 1 PROVE m - 1 = i
        BY <4>1, <2>4, <2>6, <2>1
      <4>2. m = (m - 1) + 1
        OBVIOUS
      <4> QED BY <4>1, <4>2
    <3> QED BY <3>1, <3>2, <3>3
  <2>12. ASSUME NEW p \in 1 .. n
         PROVE  /\ <<1, p>> \in shown'[p]
                /\ \A d \in 1 .. p : <<1, p - d>> \in shown'[p] <=> <<1, p + d>> \in shown'[p]
    <3>1. PICK w \in 0 .. HalfWindow : w <= p - 1 /\ Window(p - 1) = p - 1 - w .. p - 1 + w
      BY <2>3, <2>6
    <3>2. p - 1 \in Window(p - 1)
      BY <2>1, <2>2, <3>1
    <3>3. ASSUME NEW d \in 1 .. p
          PROVE  p - d - 1 \in Window(p - 1) <=> p + d - 1 \in Window(p - 1)
      BY <2>1, <2>2, <3>1
    <3>4. p \in Int /\ \A d \in 1 .. p : p - d \in Int /\ p + d \in Int
      BY <2>2
    <3> QED BY <2>11, <3>2, <3>3, <3>4
  <2>13. WindowsCentred'
    BY <2>9, <2>10, <2>12 DEF WindowsCentred, Result
  <2>14. BatchesPartition'
    BY <1>1, <2>9 DEF BatchesPartition, Result, kinds
  <2> QED BY <2>10, <2>13, <2>14 DEF ResultInv
<1>4. numResets < 5 \/ MinSize <= HalfWindow => Fail("assertion")
  BY DEF WelchReport
<1>5. numResets \in Nat
  BY DEF ReplicationsInv, TypeOK
<1> QED BY <1>2, <1>3, <1>4, <1>5

LEMMA JainReportStep ==
  ASSUME ReplicationsInv, JainReport
  PROVE  ReplicationsInv' /\ ResultInv'
<1>1. stat = "jain" /\ stat \in Graphic /\ numResets \in Nat
  BY DEF JainReport, Running, Graphic, ReplicationsInv, TypeOK
<1>2. CASE numResets < 5
  BY <1>2, FailStep DEF JainReport
<1>3. CASE numResets >= 5
  <2> DEFINE places == [p \in 1 .. MinSize |-> IF p < MinSize THEN p - 1 .. MinSize - 1 ELSE {}]
  <2>1. MinSize \in Nat
    BY <1>1, <1>3, GraphPlaces
  <2>2. places \in [1 .. MinSize -> SUBSET (0 .. MinSize - 1)]
    BY <2>1
  <2>3. Across({}) = {}
    BY DEF Across
  <2>4. Result([p \in 1 .. MinSize |-> Across(places[p])])
    <3>1. Result([p \in 1 .. MinSize |->
                    IF p < MinSize THEN Across(p - 1 .. MinSize - 1) ELSE {}])
      BY <1>1, <1>3 DEF JainReport
    <3>2. \A p \in 1 .. MinSize :
            Across(places[p]) = IF p < MinSize THEN Across(p - 1 .. MinSize - 1) ELSE {}
      BY <2>3
    <3>3. [p \in 1 .. MinSize |-> Across(places[p])]
            = [p \in 1 .. MinSize |-> IF p < MinSize THEN Across(p - 1 .. MinSize - 1) ELSE {}]
      <4> HIDE DEF places
      <4> QED BY <3>2
    <3> QED BY <3>1, <3>3
  <2>4a. \A p \in 1 .. MinSize : IF p = MinSize THEN places[p] = {} ELSE p - 1 \in places[p]
    BY <2>1
  <2> HIDE DEF places
  <2>5. ReplicationsInv' /\ GraphsReadFinished'
    BY <1>1, <1>3, <2>1, <2>2, <2>4, <2>4a, GraphStep
  <2>6. BatchesPartition' /\ WindowsCentred'
    BY <1>1, <2>4 DEF BatchesPartition, WindowsCentred, Result, kinds
  <2> QED BY <2>5, <2>6 DEF ResultInv
<1> QED BY <1>1, <1>2, <1>3

-----------------------------------------------------------------------------
(***************************************************************************)
(* The theorems                                                            *)
(***************************************************************************)

LEMMA InitStep ==
  ASSUME Init
  PROVE  ReplicationsInv /\ ResultInv
<1>1. /\ lens = <<0>> /\ ob = <<<<>>>> /\ kept = <<>> /\ means = <<>> /\ shown = <<>>
      /\ numUpdates = 0 /\ numResets = 0 /\ outcome = "ok"
      /\ stat \in Statistics
  BY DEF Init
<1>2. /\ lens \in Seq(Nat) /\ Len(lens) = 1 /\ lens[1] = 0 /\ lens # <<>>
      /\ Len(ob) = 1 /\ ob[1] = <<>> /\ Current = 1
  BY <1>1 DEF Current
<1>3. /\ kept \in Seq(Observations) /\ Len(kept) = 0
      /\ means \in Seq(SUBSET Observations) /\ Len(means) = 0
      /\ shown \in Seq(SUBSET Observations)
      /\ <<>> \in Seq(Observations) /\ Len(<<>>) = 0
  BY <1>1, EmptySeq
<1>4. ob \in Seq(Seq(Observations))
  <2> DEFINE e == <<>>
  <2>1. e \in Seq(Observations) /\ ob = <<e>>
    BY <1>1, <1>3
  <2> HIDE DEF e
  <2> QED BY <2>1
<1>5. removal \in {"const", "frac", "none"} /\ (removal = "none" <=> stat \in Graphic)
  BY Zenon DEF Init
<1>6. TypeOK
  BY <1>1, <1>2, <1>3, <1>4, <1>5 DEF TypeOK
<1>7. Skipped = 0
  <2>1. WarmUp \in Nat
    BY ReplicationsAssumption
  <2> QED BY <2>1, <1>2 DEF Skipped
<1>8. KindInv /\ GraphInv /\ KeptInv /\ MeansOfReplications
  BY <1>1, <1>2, <1>3, <1>5, <1>7 DEF KindInv, GraphInv, KeptInv, MeansOfReplications
<1>9. ResultInv
  BY <1>1 DEF ResultInv, BatchesPartition, GraphsReadFinished, WindowsCentred
<1> QED BY <1>2, <1>6, <1>8, <1>9 DEF ReplicationsInv

LEMMA NextStep ==
  ASSUME ReplicationsInv, ResultInv, [Next]_vars
  PROVE  ReplicationsInv' /\ ResultInv'
<1>1. CASE Update
  <2>1. outcome' = "ok"
    BY <1>1 DEF Update, GraphUpdate, RemovalUpdate, MayUpdate, Running
  <2>2. ReplicationsInv'
    BY <1>1, GraphUpdateStep, RemovalUpdateStep DEF Update
  <2> QED BY <2>1, <2>2, NoResult
<1>2. CASE Reset
  <2>1. outcome' \in {"ok", "exception", "assertion"}
    BY <1>2 DEF Reset, GraphReset, BmeansReset, RepmeanReset, MayReset, Running, Halt
  <2>2. ReplicationsInv'
    BY <1>2, GraphResetStep, BmeansResetStep, RepmeanResetStep DEF Reset
  <2> QED BY <2>1, <2>2, NoResult
<1>3. CASE Report
  BY <1>3, RepmeanValueStep, BmeansValueStep, Bmeans2ValueStep,
        WelchReportStep, JainReportStep DEF Report
<1>4. CASE UNCHANGED vars
  <2>1. ReplicationsInv'
    BY <1>4 DEF vars, kinds, removed, ReplicationsInv, TypeOK, KindInv, GraphInv, KeptInv,
      Skipped, Current, MeansOfReplications, Left, Dropped
  <2>2. ResultInv'
    BY <1>4 DEF vars, kinds, ResultInv, BatchesPartition, GraphsReadFinished, NotComputed,
      WindowsCentred, Current, Dropped
  <2> QED BY <2>1, <2>2
<1> QED BY <1>1, <1>2, <1>3, <1>4 DEF Next

\* The vectors and counts of a statistic always agree with the replications
\* and observations there were, and every result is as it should be.
THEOREM ReplicationsInvariant == Spec => [](ReplicationsInv /\ ResultInv)
<1>1. Init => ReplicationsInv /\ ResultInv
  BY InitStep
<1>2. ReplicationsInv /\ ResultInv /\ [Next]_vars => (ReplicationsInv /\ ResultInv)'
  BY NextStep
<1> QED BY <1>1, <1>2, PTL DEF Spec

\* The variables keep their types, whatever the program calls.
THEOREM ReplicationsTypes == Spec => []TypeOK
<1>1. ReplicationsInv => TypeOK
  BY DEF ReplicationsInv
<1> QED BY <1>1, ReplicationsInvariant, PTL

\* repmean has one mean for each ended replication, of that replication's own
\* observations without its transient, and never the mean of nothing.
THEOREM MeansAreOfReplications == Spec => []MeansOfReplications
<1>1. ReplicationsInv => MeansOfReplications
  BY DEF ReplicationsInv
<1> QED BY <1>1, ReplicationsInvariant, PTL

\* The batches of bmeans are disjoint pieces of one size, and leave less than
\* a batch of the current replication's stationary observations; the mean of
\* bmeans2 is of the same observations that its first batches are.
THEOREM BatchesArePartition == Spec => []BatchesPartition
<1>1. ResultInv => BatchesPartition
  BY DEF ResultInv
<1> QED BY <1>1, ReplicationsInvariant, PTL

\* The point p of a graph is the mean of the p-th observations, and perhaps of
\* others, the same of every ended replication, and none is read beyond the end
\* of its vector; only the last point of jain is computed from nothing.
THEOREM GraphsAreOfFinished == Spec => []GraphsReadFinished
<1>1. ResultInv => GraphsReadFinished
  BY DEF ResultInv
<1> QED BY <1>1, ReplicationsInvariant, PTL

\* The assertions in the loop of welch::report cannot fail: the window of a
\* point has it in the middle and stays within the shortest replication.
THEOREM WindowsAreCentred == Spec => []WindowsCentred
<1>1. ResultInv => WindowsCentred
  BY DEF ResultInv
<1> QED BY <1>1, ReplicationsInvariant, PTL

-----------------------------------------------------------------------------
(***************************************************************************)
(* The extremes of counter and histogram                                   *)
(***************************************************************************)

\* lo and hi stand for the extremes of S: they are members, or -1, and right
\* when the true extreme is not -1.
ExtremesOf(S, lo, hi) ==
  /\ S \subseteq Int
  /\ lo \in S \cup {NoValue} /\ hi \in S \cup {NoValue}
  /\ \A v \in S : (\A w \in S : v <= w) /\ v # NoValue => lo = v
  /\ \A v \in S : (\A w \in S : v >= w) /\ v # NoValue => hi = v
  /\ S # {} => (\E v \in S : \A w \in S : v <= w) /\ \E v \in S : \A w \in S : v >= w

ExtremesInv ==
  /\ seen \in Seq(Range(seen))
  /\ summary # "accum" => ExtremesOf(Range(seen), min, max)

\* One more observation.
LEMMA ExtendExtremes ==
  ASSUME NEW S, NEW v \in Int, ExtremesOf(S, min, max), Extend(v)
  PROVE  ExtremesOf(S \cup {v}, min', max')
<1> DEFINE T == S \cup {v}
<1>1. /\ S \subseteq Int /\ T \subseteq Int /\ NoValue \in Int
      /\ min \in S \cup {NoValue} /\ max \in S \cup {NoValue}
  BY DEF ExtremesOf, NoValue
<1>2. min' \in T \cup {NoValue} /\ max' \in T \cup {NoValue}
  BY <1>1 DEF Extend
<1>3. ASSUME NEW u \in T, \A w \in T : u <= w, u # NoValue PROVE min' = u
  <2>1. CASE u \in S
    <3>1. min = u
      BY <1>3, <2>1 DEF ExtremesOf
    <3> QED BY <1>1, <1>3, <3>1 DEF Extend
  <2>2. CASE u = v
    BY <1>1, <1>3, <2>2 DEF Extend
  <2> QED BY <2>1, <2>2
<1>4. ASSUME NEW u \in T, \A w \in T : u >= w, u # NoValue PROVE max' = u
  <2>1. CASE u \in S
    <3>1. max = u
      BY <1>4, <2>1 DEF ExtremesOf
    <3> QED BY <1>1, <1>4, <3>1 DEF Extend
  <2>2. CASE u = v
    BY <1>1, <1>4, <2>2 DEF Extend
  <2> QED BY <2>1, <2>2
<1>5. (\E u \in T : \A w \in T : u <= w) /\ \E u \in T : \A w \in T : u >= w
  <2>1. CASE S = {}
    BY <2>1
  <2>2. CASE S # {}
    <3>1. PICK a \in S : \A w \in S : a <= w
      BY <2>2 DEF ExtremesOf
    <3>2. PICK z \in S : \A w \in S : z >= w
      BY <2>2 DEF ExtremesOf
    <3>3. \E u \in T : \A w \in T : u <= w
      <4>1. CASE a <= v
        BY <3>1, <4>1
      <4>2. CASE ~(a <= v)
        BY <1>1, <3>1, <4>2
      <4> QED BY <4>1, <4>2
    <3>4. \E u \in T : \A w \in T : u >= w
      <4>1. CASE z >= v
        BY <3>2, <4>1
      <4>2. CASE ~(z >= v)
        BY <1>1, <3>2, <4>2
      <4> QED BY <4>1, <4>2
    <3> QED BY <3>3, <3>4
  <2> QED BY <2>1, <2>2
<1> QED BY <1>1, <1>2, <1>3, <1>4, <1>5 DEF ExtremesOf

LEMMA ObserveSeen ==
  ASSUME seen \in Seq(Range(seen)), NEW o, Observe(o)
  PROVE  seen' \in Seq(Range(seen')) /\ Range(seen') = Range(seen) \cup {o}
<1> DEFINE R == Range(seen) \cup {o}
<1>1. seen \in Seq(R) /\ o \in R /\ seen' = Append(seen, o) /\ Len(seen) \in Nat
  BY LenProperties DEF Observe
<1>2. /\ Len(seen') = Len(seen) + 1 /\ seen' \in Seq(R)
      /\ \A i \in 1 .. Len(seen) : seen'[i] = seen[i]
      /\ seen'[Len(seen) + 1] = o
  <2> HIDE DEF R
  <2> QED BY <1>1, AppendProperties
<1>3. DOMAIN seen = 1 .. Len(seen) /\ DOMAIN seen' = 1 .. Len(seen) + 1
  BY <1>1, <1>2, LenProperties
<1>4. Range(seen') = R
  BY <1>1, <1>2, <1>3 DEF Range
<1> QED BY <1>2, <1>4

LEMMA EmptyExtremes == ExtremesOf({}, NoValue, NoValue)
BY DEF ExtremesOf

LEMMA EmptySeen ==
  /\ <<>> \in Seq(Range(<<>>))
  /\ Range(<<>>) = {}
BY EmptySeq DEF Range

LEMMA SummaryStep ==
  ASSUME ExtremesInv, [SummaryNext]_summaryVars
  PROVE  ExtremesInv'
<1>1. ASSUME NEW v \in Values, CounterUpdate(v) \/ HistogramUpdate(v)
      PROVE  ExtremesInv'
  <2>1. v \in Int /\ summary # "accum" /\ Observe(v) /\ Extend(v)
    BY <1>1, SummariesAssumption DEF CounterUpdate, HistogramUpdate
  <2>2. seen' \in Seq(Range(seen')) /\ Range(seen') = Range(seen) \cup {v}
    BY <2>1, ObserveSeen DEF ExtremesInv
  <2>3. ExtremesOf(Range(seen) \cup {v}, min', max')
    BY <2>1, ExtendExtremes DEF ExtremesInv
  <2> QED BY <2>2, <2>3 DEF ExtremesInv
<1>2. ASSUME NEW v \in Values, NEW t \in 0 .. LastTime, AccumUpdate(v, t)
      PROVE  ExtremesInv'
  <2>1. summary' = "accum" /\ Observe(<<v, t>>)
    BY <1>2 DEF AccumUpdate, Observe
  <2>2. seen' \in Seq(Range(seen'))
    BY <2>1, ObserveSeen DEF ExtremesInv
  <2> QED BY <2>1, <2>2 DEF ExtremesInv
<1>3. CASE SummaryReset
  BY <1>3, EmptySeen, EmptyExtremes DEF SummaryReset, ExtremesInv
<1>4. CASE UNCHANGED summaryVars
  BY <1>4 DEF summaryVars, extremes, ExtremesInv
<1> QED BY <1>1, <1>2, <1>3, <1>4 DEF SummaryNext

\* The extremes that counter and histogram report are right whenever the true
\* ones are not -1: in particular for waiting times, which are not negative.
THEOREM ExtremesAreRight == SummarySpec => []ExtremesRight
<1>1. SummaryInit => ExtremesInv
  BY EmptySeen, EmptyExtremes DEF SummaryInit, ExtremesInv
<1>2. ExtremesInv => ExtremesRight
  <2> SUFFICES ASSUME ExtremesInv, summary # "accum", seen # <<>>
               PROVE  /\ Least(Range(seen)) # NoValue => min = Least(Range(seen))
                      /\ Greatest(Range(seen)) # NoValue => max = Greatest(Range(seen))
    BY DEF ExtremesRight
  <2> DEFINE S == Range(seen)
  <2>1. S # {}
    <3>1. seen \in Seq(S)
      BY DEF ExtremesInv
    <3>2. Len(seen) \in Nat /\ Len(seen) # 0 /\ DOMAIN seen = 1 .. Len(seen)
      BY <3>1, LenProperties, EmptySeq
    <3>3. 1 \in DOMAIN seen
      BY <3>2
    <3> QED BY <3>3 DEF Range
  <2>2. ExtremesOf(S, min, max)
    BY DEF ExtremesInv
  <2> HIDE DEF S
  <2>3. Least(S) \in S /\ \A w \in S : Least(S) <= w
    BY <2>1, <2>2 DEF ExtremesOf, Least
  <2>4. Greatest(S) \in S /\ \A w \in S : Greatest(S) >= w
    BY <2>1, <2>2 DEF ExtremesOf, Greatest
  <2> QED BY <2>2, <2>3, <2>4 DEF ExtremesOf, S
<1> QED BY <1>1, <1>2, SummaryStep, PTL DEF SummarySpec

-----------------------------------------------------------------------------
(***************************************************************************)
(* Sums of integers over finite sets.  A sum takes the elements one after  *)
(* the other, in an order of CHOOSE, so that what it is for every set is   *)
(* not seen by expanding it.  Counting gives the same number at once: the  *)
(* units that the elements have, less the units that they owe.  Counting   *)
(* obeys the recurrence of the sum (WeightAdd), and a recurrence has one   *)
(* solution (RecurrenceOnce).                                              *)
(***************************************************************************)

LEMMA LeastNumber ==
  ASSUME NEW T \in SUBSET Nat, T # {}
  PROVE  \E n \in T : \A m \in T : ~(m < n)
<1> DEFINE R == {ss \in Nat \X Nat : ss[1] < ss[2]}
<1>1. IsWellFoundedOn(R, Nat)
  BY NatLessThanWellFounded DEF OpToRel
<1>2. \E n \in T : \A m \in T : ~(<<m, n>> \in R)
  BY <1>1, WFMin, Zenon
<1> QED BY <1>2

Recurrence(f, T, g) ==
  g = [s \in SUBSET T |->
         IF s = {} THEN 0
         ELSE LET x == CHOOSE x \in s : TRUE IN f[x] + g[s \ {x}]]

LEMMA SumOfRecurrence ==
  ASSUME NEW f, NEW T, NEW h, Recurrence(f, T, h)
  PROVE  \E g : Recurrence(f, T, g) /\ SumFunctionOnSet(f, T) = g[T]
<1> DEFINE g == CHOOSE g : Recurrence(f, T, g)
<1>1. Recurrence(f, T, g)
  BY Zenon
<1>2. SumFunctionOnSet(f, T) = g[T]
  BY DEF SumFunctionOnSet, FoldFunctionOnSet, MapThenFoldSet, Recurrence
<1> QED BY <1>1, <1>2

LEMMA RecurrenceOnce ==
  ASSUME NEW f, NEW T, IsFiniteSet(T), NEW g, NEW h,
         Recurrence(f, T, g), Recurrence(f, T, h)
  PROVE  g[T] = h[T]
<1> DEFINE Differ == {s \in SUBSET T : g[s] # h[s]}
           Sizes  == {n \in Nat : \E s \in Differ : n = Cardinality(s)}
<1>1. SUFFICES ASSUME g[T] # h[T] PROVE FALSE
  OBVIOUS
<1>2. \A s \in SUBSET T : IsFiniteSet(s) /\ Cardinality(s) \in Nat
  BY FS_Subset, FS_CardinalityType
<1>3. Sizes # {} /\ Sizes \in SUBSET Nat
  BY <1>1, <1>2
<1>4. PICK n \in Sizes : \A m \in Sizes : ~(m < n)
  <2> HIDE DEF Sizes
  <2> QED BY <1>3, LeastNumber
<1>5. PICK s \in SUBSET T : g[s] # h[s] /\ n = Cardinality(s)
  BY <1>4
<1>6. s # {}
  BY <1>5 DEF Recurrence
<1> DEFINE x == CHOOSE x \in s : TRUE
<1>7. x \in s
  BY <1>6
<1>8. g[s] = f[x] + g[s \ {x}] /\ h[s] = f[x] + h[s \ {x}]
  BY <1>5, <1>6, Zenon DEF Recurrence
<1> HIDE DEF x
<1>9. g[s \ {x}] # h[s \ {x}]
  BY <1>5, <1>8
<1>10. Cardinality(s \ {x}) = Cardinality(s) - 1
  BY <1>2, <1>5, <1>7, FS_RemoveElement
<1>11. s \ {x} \in Differ /\ Cardinality(s \ {x}) \in Nat
  BY <1>2, <1>5, <1>9
<1>12. Cardinality(s \ {x}) \in Sizes /\ n \in Nat
  BY <1>4, <1>11
<1> HIDE DEF Sizes
<1> QED BY <1>4, <1>5, <1>10, <1>12

\* The units that the elements of T have.
Units(f, T) == UNION {{x} \X (1 .. f[x]) : x \in T}
Opposite(f) == [x \in DOMAIN f |-> 0 - f[x]]
Weight(f, T) == Cardinality(Units(f, T)) - Cardinality(Units(Opposite(f), T))

LEMMA UnitsFinite ==
  ASSUME NEW D, NEW f \in [D -> Int], NEW T \in SUBSET D, IsFiniteSet(T)
  PROVE  IsFiniteSet(Units(f, T)) /\ Cardinality(Units(f, T)) \in Nat
<1> DEFINE P == {{x} \X (1 .. f[x]) : x \in T}
           g == [x \in T |-> {x} \X (1 .. f[x])]
<1>1. \A x \in T : IsFiniteSet({x} \X (1 .. f[x]))
  <2> SUFFICES ASSUME NEW x \in T PROVE IsFiniteSet({x} \X (1 .. f[x]))
    OBVIOUS
  <2>1. f[x] \in Int /\ 1 \in Int
    OBVIOUS
  <2>2. IsFiniteSet({x}) /\ IsFiniteSet(1 .. f[x])
    BY <2>1, FS_Singleton, FS_Interval
  <2> QED BY <2>2, FS_Product
<1>2. g \in Surjection(T, P)
  BY DEF Surjection
<1>3. IsFiniteSet(P)
  <2> HIDE DEF P, g
  <2> QED BY <1>2, FS_Surjection
<1>4. \A U \in P : IsFiniteSet(U)
  BY <1>1
<1>5. IsFiniteSet(UNION P)
  <2> HIDE DEF P
  <2> QED BY <1>3, <1>4, FS_UNION
<1> QED BY <1>5, FS_CardinalityType DEF Units

LEMMA UnitsAdd ==
  ASSUME NEW D, NEW f \in [D -> Int], NEW T \in SUBSET D, IsFiniteSet(T), NEW x \in T
  PROVE  Cardinality(Units(f, T)) =
           Cardinality(Units(f, T \ {x})) + (IF f[x] > 0 THEN f[x] ELSE 0)
<1> DEFINE R == Units(f, T \ {x})
           X == {x} \X (1 .. f[x])
<1>1. IsFiniteSet(T \ {x}) /\ T \ {x} \in SUBSET D
  BY FS_RemoveElement
<1>2. IsFiniteSet(R) /\ Cardinality(R) \in Nat
  BY <1>1, UnitsFinite
<1>3. IsFiniteSet(X) /\ Cardinality(X) = (IF f[x] > 0 THEN f[x] ELSE 0)
  <2>1. IsFiniteSet({x}) /\ Cardinality({x}) = 1
    BY FS_Singleton
  <2>2. IsFiniteSet(1 .. f[x]) /\ Cardinality(1 .. f[x]) = (IF f[x] > 0 THEN f[x] ELSE 0)
    BY FS_Interval
  <2>3. IsFiniteSet(X) /\ Cardinality(X) = Cardinality({x}) * Cardinality(1 .. f[x])
    BY <2>1, <2>2, FS_Product
  <2> QED BY <2>1, <2>2, <2>3
<1>4. Units(f, T) = R \cup X
  BY DEF Units
<1>5. R \cap X = {}
  BY DEF Units
<1>6. Cardinality(R \cup X) = Cardinality(R) + Cardinality(X) - Cardinality({})
  <2> HIDE DEF R, X
  <2> QED BY <1>2, <1>3, <1>5, FS_Union
<1> HIDE DEF R
<1> QED BY <1>2, <1>3, <1>4, <1>6, FS_EmptySet DEF R

LEMMA WeightAdd ==
  ASSUME NEW D, NEW f \in [D -> Int], NEW T \in SUBSET D, IsFiniteSet(T)
  PROVE  /\ Weight(f, T) \in Int
         /\ T = {} => Weight(f, T) = 0
         /\ \A x \in T : Weight(f, T) = f[x] + Weight(f, T \ {x})
<1> DEFINE o == Opposite(f)
<1>1. o \in [D -> Int] /\ \A x \in D : o[x] = 0 - f[x]
  BY DEF Opposite
<1>2. Weight(f, T) \in Int
  <2> HIDE DEF o
  <2>1. Cardinality(Units(f, T)) \in Nat /\ Cardinality(Units(o, T)) \in Nat
    BY <1>1, UnitsFinite
  <2> QED BY <2>1 DEF Weight, o
<1>3. ASSUME T = {} PROVE Weight(f, T) = 0
  <2>1. Units(f, T) = {} /\ Units(o, T) = {}
    BY <1>3 DEF Units
  <2> QED BY <2>1, FS_EmptySet DEF Weight
<1>4. ASSUME NEW x \in T PROVE Weight(f, T) = f[x] + Weight(f, T \ {x})
  <2> HIDE DEF o
  <2>1. IsFiniteSet(T \ {x}) /\ T \ {x} \in SUBSET D
    BY FS_RemoveElement
  <2>2. Cardinality(Units(f, T)) =
          Cardinality(Units(f, T \ {x})) + (IF f[x] > 0 THEN f[x] ELSE 0)
    BY UnitsAdd
  <2>3. Cardinality(Units(o, T)) =
          Cardinality(Units(o, T \ {x})) + (IF o[x] > 0 THEN o[x] ELSE 0)
    BY <1>1, UnitsAdd
  <2>4. Cardinality(Units(f, T \ {x})) \in Nat /\ Cardinality(Units(o, T \ {x})) \in Nat
    BY <1>1, <2>1, UnitsFinite
  <2>5. f[x] \in Int /\ o[x] = 0 - f[x]
    BY <1>1
  <2>6. /\ Weight(f, T) = Cardinality(Units(f, T)) - Cardinality(Units(o, T))
        /\ Weight(f, T \ {x}) = Cardinality(Units(f, T \ {x})) - Cardinality(Units(o, T \ {x}))
    BY DEF Weight, o
  <2> QED BY <2>2, <2>3, <2>4, <2>5, <2>6
<1> QED BY <1>2, <1>3, <1>4

LEMMA SumIsWeight ==
  ASSUME NEW D, NEW f \in [D -> Int], NEW T \in SUBSET D, IsFiniteSet(T)
  PROVE  SumFunctionOnSet(f, T) = Weight(f, T)
<1> DEFINE h == [s \in SUBSET T |-> Weight(f, s)]
<1>1. \A s \in SUBSET T :
        Weight(f, s) = IF s = {} THEN 0
                       ELSE LET x == CHOOSE x \in s : TRUE IN f[x] + Weight(f, s \ {x})
  <2> SUFFICES ASSUME NEW s \in SUBSET T
               PROVE  Weight(f, s) =
                        IF s = {} THEN 0
                        ELSE LET x == CHOOSE x \in s : TRUE IN f[x] + Weight(f, s \ {x})
    OBVIOUS
  <2>1. IsFiniteSet(s) /\ s \in SUBSET D
    BY FS_Subset
  <2>2. s = {} => Weight(f, s) = 0
    BY <2>1, WeightAdd
  <2>3. \A x \in s : Weight(f, s) = f[x] + Weight(f, s \ {x})
    BY <2>1, WeightAdd
  <2> QED BY <2>2, <2>3
<1>2. Recurrence(f, T, h)
  BY <1>1 DEF Recurrence
<1> HIDE DEF h
<1>3. PICK g : Recurrence(f, T, g) /\ SumFunctionOnSet(f, T) = g[T]
  BY <1>2, SumOfRecurrence
<1>4. g[T] = h[T]
  BY <1>2, <1>3, RecurrenceOnce
<1> QED BY <1>3, <1>4 DEF h

LEMMA SumFacts ==
  ASSUME NEW D, NEW f \in [D -> Int], NEW T \in SUBSET D, IsFiniteSet(T)
  PROVE  /\ SumFunctionOnSet(f, T) \in Int
         /\ T = {} => SumFunctionOnSet(f, T) = 0
         /\ \A x \in T : SumFunctionOnSet(f, T) = f[x] + SumFunctionOnSet(f, T \ {x})
<1>1. SumFunctionOnSet(f, T) = Weight(f, T)
  BY SumIsWeight
<1>2. ASSUME NEW x \in T
      PROVE  SumFunctionOnSet(f, T \ {x}) = Weight(f, T \ {x})
  <2>1. IsFiniteSet(T \ {x}) /\ T \ {x} \in SUBSET D
    BY FS_RemoveElement
  <2> QED BY <2>1, SumIsWeight
<1> QED BY <1>1, <1>2, WeightAdd

\* A sum over two sets with no common element.
LEMMA SumUnion ==
  ASSUME NEW D, NEW f \in [D -> Int], NEW S \in SUBSET D, NEW T \in SUBSET D,
         IsFiniteSet(S), IsFiniteSet(T), S \cap T = {}
  PROVE  SumFunctionOnSet(f, S \cup T) = SumFunctionOnSet(f, S) + SumFunctionOnSet(f, T)
<1> DEFINE o == Opposite(f)
<1>1. o \in [D -> Int]
  BY DEF Opposite
<1>2. ASSUME NEW g \in [D -> Int]
      PROVE  /\ Cardinality(Units(g, S)) \in Nat /\ Cardinality(Units(g, T)) \in Nat
             /\ Cardinality(Units(g, S \cup T)) = Cardinality(Units(g, S)) + Cardinality(Units(g, T))
  <2>1. /\ IsFiniteSet(Units(g, S)) /\ Cardinality(Units(g, S)) \in Nat
        /\ IsFiniteSet(Units(g, T)) /\ Cardinality(Units(g, T)) \in Nat
    BY UnitsFinite
  <2>2. Units(g, S \cup T) = Units(g, S) \cup Units(g, T) /\ Units(g, S) \cap Units(g, T) = {}
    BY DEF Units
  <2>3. Cardinality(Units(g, S) \cup Units(g, T)) =
          Cardinality(Units(g, S)) + Cardinality(Units(g, T)) - Cardinality({})
    BY <2>1, <2>2, FS_Union
  <2>4. Cardinality({}) = 0
    BY FS_EmptySet
  <2>5. Cardinality(Units(g, S \cup T)) = Cardinality(Units(g, S)) + Cardinality(Units(g, T))
    <3>1. Cardinality(Units(g, S \cup T)) = Cardinality(Units(g, S) \cup Units(g, T))
      BY <2>2
    <3> QED BY <2>1, <2>3, <2>4, <3>1
  <2> QED BY <2>1, <2>5
<1>3. IsFiniteSet(S \cup T) /\ S \cup T \in SUBSET D
  BY FS_Union
<1>4. Weight(f, S \cup T) = Weight(f, S) + Weight(f, T)
  <2>1. /\ Cardinality(Units(f, S)) \in Nat /\ Cardinality(Units(f, T)) \in Nat
        /\ Cardinality(Units(f, S \cup T)) = Cardinality(Units(f, S)) + Cardinality(Units(f, T))
    BY <1>2
  <2>2. /\ Cardinality(Units(o, S)) \in Nat /\ Cardinality(Units(o, T)) \in Nat
        /\ Cardinality(Units(o, S \cup T)) = Cardinality(Units(o, S)) + Cardinality(Units(o, T))
    BY <1>1, <1>2
  <2> QED BY <2>1, <2>2 DEF Weight
<1>5. /\ SumFunctionOnSet(f, S) = Weight(f, S)
      /\ SumFunctionOnSet(f, T) = Weight(f, T)
      /\ SumFunctionOnSet(f, S \cup T) = Weight(f, S \cup T)
  BY <1>3, SumIsWeight
<1> QED BY <1>4, <1>5

\* Functions that agree on a set have the same sum over it.
LEMMA SumSame ==
  ASSUME NEW D, NEW E, NEW f \in [D -> Int], NEW g \in [E -> Int],
         NEW T \in SUBSET D, T \in SUBSET E, IsFiniteSet(T), \A x \in T : f[x] = g[x]
  PROVE  SumFunctionOnSet(f, T) = SumFunctionOnSet(g, T)
<1>1. Units(f, T) = Units(g, T)
  BY DEF Units
<1>2. \A x \in T : Opposite(f)[x] = Opposite(g)[x]
  BY DEF Opposite
<1>3. Units(Opposite(f), T) = Units(Opposite(g), T)
  BY <1>2 DEF Units
<1>4. SumFunctionOnSet(f, T) = Weight(f, T) /\ SumFunctionOnSet(g, T) = Weight(g, T)
  BY SumIsWeight
<1> QED BY <1>1, <1>3, <1>4 DEF Weight

LEMMA SumNatural ==
  ASSUME NEW D, NEW f \in [D -> Int], NEW T \in SUBSET D, IsFiniteSet(T), \A x \in T : f[x] \in Nat
  PROVE  SumFunctionOnSet(f, T) \in Nat
<1>1. \A x \in T : Opposite(f)[x] = 0 - f[x]
  BY DEF Opposite
<1>2. \A x \in T : 1 .. Opposite(f)[x] = {}
  BY <1>1
<1>3. Units(Opposite(f), T) = {}
  BY <1>2 DEF Units
<1>4. Cardinality(Units(f, T)) \in Nat
  BY UnitsFinite
<1>5. SumFunctionOnSet(f, T) = Weight(f, T)
  BY SumIsWeight
<1> QED BY <1>3, <1>4, <1>5, FS_EmptySet DEF Weight

LEMMA SumConstant ==
  ASSUME NEW D, NEW f \in [D -> Int], NEW T \in SUBSET D, IsFiniteSet(T),
         NEW c \in Int, \A x \in T : f[x] = c
  PROVE  SumFunctionOnSet(f, T) = c * Cardinality(T)
<1>1. ASSUME NEW g, NEW e \in Int, \A x \in T : g[x] = e
      PROVE  Cardinality(Units(g, T)) = Cardinality(T) * (IF e > 0 THEN e ELSE 0)
  <2>1. Units(g, T) = T \X (1 .. e)
    BY <1>1 DEF Units
  <2>2. IsFiniteSet(1 .. e) /\ Cardinality(1 .. e) = (IF e > 0 THEN e ELSE 0)
    BY FS_Interval
  <2>3. Cardinality(T \X (1 .. e)) = Cardinality(T) * Cardinality(1 .. e)
    BY <2>2, FS_Product
  <2> QED BY <2>1, <2>2, <2>3
<1>2. \A x \in T : Opposite(f)[x] = 0 - c
  BY DEF Opposite
<1>3. Cardinality(T) \in Nat /\ 0 - c \in Int
  BY FS_CardinalityType
<1>4. /\ Cardinality(Units(f, T)) = Cardinality(T) * (IF c > 0 THEN c ELSE 0)
      /\ Cardinality(Units(Opposite(f), T)) = Cardinality(T) * (IF 0 - c > 0 THEN 0 - c ELSE 0)
  BY <1>1, <1>2, <1>3
<1>5. Weight(f, T) = c * Cardinality(T)
  <2> DEFINE k == Cardinality(T)
  <2>1. k * 0 = 0 /\ k * (0 - c) = 0 - k * c /\ k * c = c * k /\ k * c \in Int
    BY <1>3
  <2>2. CASE c > 0
    <3>1. ~(0 - c > 0)
      BY <2>2
    <3> QED BY <1>4, <2>1, <2>2, <3>1 DEF Weight
  <2>3. CASE ~(c > 0) /\ 0 - c > 0
    BY <1>4, <2>1, <2>3 DEF Weight
  <2>4. CASE c = 0
    BY <1>4, <2>1, <2>4 DEF Weight
  <2>5. c > 0 \/ (~(c > 0) /\ 0 - c > 0) \/ c = 0
    OBVIOUS
  <2> QED BY <2>2, <2>3, <2>4, <2>5
<1> QED BY <1>5, SumIsWeight

\* One element grows by one.
LEMMA SumOneMore ==
  ASSUME NEW D, NEW f \in [D -> Int], NEW T \in SUBSET D, IsFiniteSet(T), NEW j \in D,
         NEW g \in [D -> Int], g[j] = f[j] + 1, \A x \in D \ {j} : g[x] = f[x]
  PROVE  SumFunctionOnSet(g, T) =
           SumFunctionOnSet(f, T) + (IF j \in T THEN 1 ELSE 0)
<1>1. CASE j \notin T
  <2>1. \A x \in T : f[x] = g[x]
    BY <1>1
  <2>2. SumFunctionOnSet(f, T) = SumFunctionOnSet(g, T) /\ SumFunctionOnSet(f, T) \in Int
    BY <2>1, SumSame, SumFacts
  <2> QED BY <1>1, <2>2
<1>2. CASE j \in T
  <2>1. IsFiniteSet(T \ {j}) /\ T \ {j} \in SUBSET D
    BY FS_RemoveElement
  <2>2. \A x \in T \ {j} : f[x] = g[x]
    OBVIOUS
  <2>3. SumFunctionOnSet(f, T \ {j}) = SumFunctionOnSet(g, T \ {j})
    BY <2>1, <2>2, SumSame
  <2>4. /\ SumFunctionOnSet(f, T) = f[j] + SumFunctionOnSet(f, T \ {j})
        /\ SumFunctionOnSet(g, T) = g[j] + SumFunctionOnSet(g, T \ {j})
    BY <1>2, SumFacts
  <2>5. SumFunctionOnSet(f, T \ {j}) \in Int /\ f[j] \in Int
    BY <2>1, SumFacts
  <2>6. SumFunctionOnSet(g, T) = SumFunctionOnSet(f, T) + 1
    BY <2>3, <2>4, <2>5
  <2> QED BY <1>2, <2>6
<1> QED BY <1>1, <1>2
-----------------------------------------------------------------------------
(***************************************************************************)
(* The histogram.  What the theorem says of the rows that are reported     *)
(* holds of every row but the last, whatever has been observed, and the    *)
(* bins count every observation once.                                      *)
(***************************************************************************)

HistogramInv ==
  summary = "histogram" =>
    /\ seen \in Seq(Values) /\ count = Len(seen)
    /\ bins \in [Bins -> Nat]
    /\ SumFunctionOnSet(bins, Bins) = Len(seen)
    /\ \A i \in 0 .. NBins :
         /\ Cardinality({n \in DOMAIN seen : Below(seen[n], i)}) <= Cumulative(i)
         /\ Cumulative(i) <= Cardinality({n \in DOMAIN seen : UpTo(seen[n], i)})

LEMMA TimesOrder ==
  ASSUME NEW a \in Int, NEW b \in Int, NEW w \in Nat \ {0}
  PROVE  /\ a <= b <=> a * w <= b * w
         /\ a < b <=> a * w < b * w
OBVIOUS

LEMMA HistogramConstants ==
  /\ Low \in Int /\ High \in Int /\ High - Low \in Nat \ {0} /\ NBins \in Nat \ {0}
  /\ \A v \in Values : v \in Int
BY SummariesAssumption

\* An observation is counted in a row that is not after one whose upper bound
\* is above it, and not before one whose upper bound is below it.
LEMMA BinPlace ==
  ASSUME NEW v \in Values, NEW j \in BinsOf(v)
  PROVE  /\ j \in Bins
         /\ \A i \in 0 .. NBins : (Below(v, i) => j <= i) /\ (j <= i => UpTo(v, i))
<1> DEFINE w == High - Low
           x == v - Low
           scaled == x * NBins
           q == scaled \div w
<1>0. /\ Low \in Int /\ High \in Int /\ NBins \in Nat \ {0} /\ v \in Int
      /\ w \in Nat \ {0} /\ x \in Int
  BY HistogramConstants
<1>1. scaled \in Int
  BY <1>0
<1>2. ASSUME NEW i \in 0 .. NBins
      PROVE  /\ i \in Nat /\ i <= NBins /\ w * i = i * w /\ i * w \in Nat /\ i * w <= NBins * w
             /\ Below(v, i) <=> scaled < i * w
             /\ UpTo(v, i) <=> scaled <= i * w
  <2>1. i \in Nat /\ i <= NBins
    BY <1>0
  <2>2. w * i = i * w /\ i * w \in Nat
    BY <1>0, <2>1
  <2>3. i * w <= NBins * w
    BY <1>0, <2>1, TimesOrder
  <2>4. (Below(v, i) <=> scaled < w * i) /\ (UpTo(v, i) <=> scaled <= w * i)
    BY DEF Below, UpTo
  <2> QED BY <2>1, <2>2, <2>3, <2>4
<1>3. CASE v < Low
  <2>1. j = 0
    BY <1>3 DEF BinsOf
  <2>2. x <= 0 /\ 0 * NBins = 0
    BY <1>0, <1>3
  <2>3. scaled <= 0
    BY <1>0, <2>2, TimesOrder
  <2>4. \A i \in 0 .. NBins : UpTo(v, i) /\ j <= i
    <3> SUFFICES ASSUME NEW i \in 0 .. NBins PROVE UpTo(v, i) /\ j <= i
      OBVIOUS
    <3> HIDE DEF scaled
    <3> QED BY <1>1, <1>2, <2>1, <2>3
  <2>5. j \in Bins
    BY <1>0, <2>1 DEF Bins
  <2> QED BY <2>4, <2>5
<1>4. CASE v > High
  <2>1. j = NBins + 1
    BY <1>0, <1>4 DEF BinsOf
  <2>2. w < x
    BY <1>0, <1>4
  <2>3. w * NBins < scaled /\ w * NBins = NBins * w /\ NBins * w \in Int
    BY <1>0, <2>2, TimesOrder
  <2>4. \A i \in 0 .. NBins : ~Below(v, i) /\ ~(j <= i)
    <3> SUFFICES ASSUME NEW i \in 0 .. NBins PROVE ~Below(v, i) /\ ~(j <= i)
      OBVIOUS
    <3> HIDE DEF scaled
    <3> QED BY <1>0, <1>1, <1>2, <2>1, <2>3
  <2>5. j \in Bins
    BY <1>0, <2>1 DEF Bins
  <2> QED BY <2>4, <2>5
<1>5. CASE ~(v < Low) /\ ~(v > High)
  <2>1. j = 1 + q \/ (j = q /\ scaled = q * w /\ q > 0)
    BY <1>5 DEF BinsOf
  <2>2. 0 <= x /\ x <= w /\ 0 * NBins = 0
    BY <1>0, <1>5
  <2>3. 0 <= scaled /\ scaled <= w * NBins /\ w * NBins = NBins * w
    BY <1>0, <2>2, TimesOrder
  <2>4. q \in Nat /\ q * w <= scaled /\ scaled < (q + 1) * w
    <3> HIDE DEF scaled
    <3>1. scaled \in Nat
      BY <1>1, <2>3
    <3> HIDE DEF w
    <3> QED BY <1>0, <3>1
  <2> HIDE DEF q, scaled, w
  <2>5. q <= NBins
    <3>1. q * w <= NBins * w
      <4>1. q * w \in Int /\ NBins * w \in Int
        BY <1>0, <2>4
      <4> QED BY <1>1, <2>3, <2>4, <4>1
    <3> QED BY <1>0, <2>4, <3>1, TimesOrder
  <2>6. j \in Bins
    BY <1>0, <2>1, <2>4, <2>5 DEF Bins
  <2>7. ASSUME NEW i \in 0 .. NBins, Below(v, i) PROVE j <= i
    <3>1. q * w < i * w /\ i \in Nat
      <4>1. q * w \in Int /\ i * w \in Int
        BY <1>0, <1>2, <2>4
      <4> QED BY <1>1, <1>2, <2>4, <2>7, <4>1
    <3>2. q < i
      BY <1>0, <2>4, <3>1, TimesOrder
    <3> QED BY <2>1, <2>4, <3>1, <3>2
  <2>8. ASSUME NEW i \in 0 .. NBins, j <= i PROVE UpTo(v, i)
    <3>0. i \in Nat /\ i * w \in Int /\ q * w \in Int /\ (q + 1) * w \in Int /\ q + 1 \in Int
      BY <1>0, <1>2, <2>4
    <3>1. CASE j = 1 + q
      <4>1. q + 1 <= i
        BY <2>4, <2>8, <3>1
      <4>2. (q + 1) * w <= i * w
        BY <1>0, <3>0, <4>1, TimesOrder
      <4>3. scaled <= i * w
        BY <1>1, <2>4, <3>0, <4>2
      <4> QED BY <1>2, <4>3
    <3>2. CASE j = q /\ scaled = q * w
      <4>1. scaled <= i * w
        BY <1>0, <2>4, <2>8, <3>0, <3>2, TimesOrder
      <4> QED BY <1>2, <4>1
    <3> QED BY <2>1, <3>1, <3>2
  <2> QED BY <2>6, <2>7, <2>8
<1> QED BY <1>3, <1>4, <1>5

LEMMA OneMorePlace ==
  ASSUME NEW m \in Nat, NEW A \in SUBSET (1 .. m), NEW B \in SUBSET (1 .. m + 1),
         \A n \in 1 .. m : n \in A <=> n \in B
  PROVE  /\ Cardinality(A) \in Nat
         /\ Cardinality(B) = Cardinality(A) + (IF m + 1 \in B THEN 1 ELSE 0)
<1>1. IsFiniteSet(1 .. m)
  BY FS_Interval
<1>2. IsFiniteSet(A) /\ Cardinality(A) \in Nat
  BY <1>1, FS_Subset, FS_CardinalityType
<1>3. /\ \A n \in 1 .. m + 1 : n \in 1 .. m \/ n = m + 1
      /\ \A n \in 1 .. m : n \in 1 .. m + 1
      /\ m + 1 \notin A
  OBVIOUS
<1>4. CASE m + 1 \in B
  <2>1. \A n : n \in B <=> n \in A \/ n = m + 1
    BY <1>3, <1>4
  <2>2. Cardinality(A \cup {m + 1}) = Cardinality(A) + 1
    BY <1>2, <1>3, FS_AddElement
  <2>3. B = A \cup {m + 1}
    BY <2>1, Zenon
  <2> QED BY <1>2, <1>4, <2>2, <2>3
<1>5. CASE m + 1 \notin B
  <2>1. \A n : n \in B <=> n \in A
    BY <1>3, <1>5
  <2>2. B = A
    BY <2>1, Zenon
  <2> QED BY <1>2, <1>5, <2>2
<1> QED BY <1>4, <1>5

LEMMA RowsFinite ==
  /\ IsFiniteSet(Bins)
  /\ \A i \in Int : IsFiniteSet(0 .. i)
  /\ \A i \in Int : i <= NBins + 1 => 0 .. i \in SUBSET Bins
<1>1. NBins + 1 \in Int /\ 0 \in Int
  BY HistogramConstants
<1>2. IsFiniteSet(Bins)
  BY <1>1, FS_Interval DEF Bins
<1>3. \A i \in Int : IsFiniteSet(0 .. i)
  BY <1>1, FS_Interval
<1> QED BY <1>1, <1>2, <1>3 DEF Bins

LEMMA HistogramUpdateStep ==
  ASSUME HistogramInv, NEW v \in Values, HistogramUpdate(v)
  PROVE  HistogramInv'
<1>1. /\ seen \in Seq(Values) /\ count = Len(seen) /\ bins \in [Bins -> Nat]
      /\ SumFunctionOnSet(bins, Bins) = Len(seen)
  BY DEF HistogramUpdate, HistogramInv
<1>2. PICK j \in BinsOf(v) : bins' = [bins EXCEPT ![j] = @ + 1]
  BY DEF HistogramUpdate
<1>3. /\ j \in Bins
      /\ \A i \in 0 .. NBins : (Below(v, i) => j <= i) /\ (j <= i => UpTo(v, i))
  BY BinPlace
<1>4. seen' = Append(seen, v) /\ count' = count + 1
  BY DEF HistogramUpdate, Observe
<1>5. /\ Len(seen) \in Nat /\ DOMAIN seen = 1 .. Len(seen)
      /\ seen' \in Seq(Values) /\ Len(seen') = Len(seen) + 1
      /\ DOMAIN seen' = 1 .. Len(seen) + 1
      /\ \A n \in 1 .. Len(seen) : seen'[n] = seen[n]
      /\ seen'[Len(seen) + 1] = v
  BY <1>1, <1>4, AppendProperties, LenProperties
<1>6. /\ bins \in [Bins -> Int] /\ bins' \in [Bins -> Nat] /\ bins' \in [Bins -> Int]
      /\ bins'[j] = bins[j] + 1 /\ \A i \in Bins \ {j} : bins'[i] = bins[i]
  BY <1>1, <1>2, <1>3
<1>7. SumFunctionOnSet(bins', Bins) = Len(seen')
  <2>1. SumFunctionOnSet(bins', Bins) = SumFunctionOnSet(bins, Bins) + (IF j \in Bins THEN 1 ELSE 0)
    BY <1>3, <1>6, RowsFinite, SumOneMore
  <2> QED BY <1>1, <1>3, <1>5, <2>1
<1>8. ASSUME NEW i \in 0 .. NBins
      PROVE  /\ Cardinality({n \in DOMAIN seen' : Below(seen'[n], i)}) <= Cumulative(i)'
             /\ Cumulative(i)' <= Cardinality({n \in DOMAIN seen' : UpTo(seen'[n], i)})
  <2> DEFINE m == Len(seen)
             A == {n \in DOMAIN seen : Below(seen[n], i)}
             B == {n \in DOMAIN seen' : Below(seen'[n], i)}
             C == {n \in DOMAIN seen : UpTo(seen[n], i)}
             E == {n \in DOMAIN seen' : UpTo(seen'[n], i)}
             c == SumFunctionOnSet(bins, 0 .. i)
  <2>0. i \in Int /\ 0 .. i \in SUBSET Bins /\ IsFiniteSet(0 .. i)
    BY HistogramConstants, RowsFinite
  <2>1. Cumulative(i)' = c + (IF j \in 0 .. i THEN 1 ELSE 0)
    <3> DEFINE T == 0 .. i
    <3>1. SumFunctionOnSet(bins', T) = SumFunctionOnSet(bins, T) + (IF j \in T THEN 1 ELSE 0)
      <4> HIDE DEF T
      <4>1. T \in SUBSET Bins /\ IsFiniteSet(T)
        BY <2>0 DEF T
      <4> QED BY <1>3, <1>6, <4>1, SumOneMore
    <3> QED BY <3>1 DEF Cumulative
  <2>2. c \in Int
    BY <1>6, <2>0, SumFacts
  <2>3. j \in 0 .. i <=> j <= i
    BY <1>3, <2>0, HistogramConstants DEF Bins
  <2>4. Cardinality(A) <= c /\ c <= Cardinality(C)
    BY DEF HistogramInv, HistogramUpdate, Cumulative
  <2>5. /\ m \in Nat
        /\ A \in SUBSET (1 .. m) /\ B \in SUBSET (1 .. m + 1) /\ \A n \in 1 .. m : n \in A <=> n \in B
        /\ C \in SUBSET (1 .. m) /\ E \in SUBSET (1 .. m + 1) /\ \A n \in 1 .. m : n \in C <=> n \in E
    BY <1>5
  <2>6. (m + 1 \in B <=> Below(v, i)) /\ (m + 1 \in E <=> UpTo(v, i))
    BY <1>5
  <2>7. (m + 1 \in B => j <= i) /\ (j <= i => m + 1 \in E)
    BY <1>3, <2>6
  <2> HIDE DEF m, A, B, C, E, c
  <2>8. /\ Cardinality(A) \in Nat /\ Cardinality(B) = Cardinality(A) + (IF m + 1 \in B THEN 1 ELSE 0)
        /\ Cardinality(C) \in Nat /\ Cardinality(E) = Cardinality(C) + (IF m + 1 \in E THEN 1 ELSE 0)
    BY <2>5, OneMorePlace
  <2>9. Cardinality(B) <= Cumulative(i)' /\ Cumulative(i)' <= Cardinality(E)
    BY <2>1, <2>2, <2>3, <2>4, <2>7, <2>8
  <2> QED BY <2>9 DEF B, E
<1>9. count' = Len(seen')
  BY <1>1, <1>4, <1>5
<1>10. seen' \in Seq(Values) /\ bins' \in [Bins -> Nat]
  BY <1>5, <1>6
<1> QED BY <1>7, <1>8, <1>9, <1>10 DEF HistogramInv

LEMMA HistogramStart ==
  ASSUME seen = <<>>, count = 0, bins = [i \in Bins |-> 0]
  PROVE  HistogramInv
<1>1. bins \in [Bins -> Int] /\ bins \in [Bins -> Nat] /\ \A i \in Bins : bins[i] = 0
  OBVIOUS
<1>2. seen \in Seq(Values) /\ Len(seen) = 0 /\ DOMAIN seen = {}
  BY EmptySeq
<1>3. ASSUME NEW T \in SUBSET Bins, IsFiniteSet(T) PROVE SumFunctionOnSet(bins, T) = 0
  <2>1. \A i \in T : bins[i] = 0
    BY <1>1
  <2>2. SumFunctionOnSet(bins, T) = 0 * Cardinality(T) /\ Cardinality(T) \in Nat
    BY <1>1, <1>3, <2>1, SumConstant, FS_CardinalityType
  <2> QED BY <2>2
<1>4. SumFunctionOnSet(bins, Bins) = 0
  BY <1>3, RowsFinite
<1>5. ASSUME NEW i \in 0 .. NBins
      PROVE  /\ Cardinality({n \in DOMAIN seen : Below(seen[n], i)}) <= Cumulative(i)
             /\ Cumulative(i) <= Cardinality({n \in DOMAIN seen : UpTo(seen[n], i)})
  <2>1. 0 .. i \in SUBSET Bins /\ IsFiniteSet(0 .. i)
    BY HistogramConstants, RowsFinite
  <2>2. Cumulative(i) = 0
    BY <1>3, <2>1 DEF Cumulative
  <2>3. /\ {n \in DOMAIN seen : Below(seen[n], i)} = {}
        /\ {n \in DOMAIN seen : UpTo(seen[n], i)} = {}
    BY <1>2
  <2>4. Cardinality({}) = 0
    BY FS_EmptySet
  <2> QED BY <2>2, <2>3, <2>4
<1> QED BY <1>1, <1>2, <1>4, <1>5 DEF HistogramInv

LEMMA HistogramStep ==
  ASSUME HistogramInv, [SummaryNext]_summaryVars
  PROVE  HistogramInv'
<1>1. ASSUME NEW v \in Values, CounterUpdate(v) PROVE HistogramInv'
  BY <1>1 DEF CounterUpdate, Observe, HistogramInv
<1>2. ASSUME NEW v \in Values, HistogramUpdate(v) PROVE HistogramInv'
  BY <1>2, HistogramUpdateStep
<1>3. ASSUME NEW v \in Values, NEW t \in 0 .. LastTime, AccumUpdate(v, t) PROVE HistogramInv'
  BY <1>3 DEF AccumUpdate, Observe, HistogramInv
<1>4. CASE SummaryReset
  <2>1. seen' = <<>> /\ count' = 0 /\ bins' = [i \in Bins |-> 0]
    BY <1>4 DEF SummaryReset
  <2>2. (seen = <<>> /\ count = 0 /\ bins = [i \in Bins |-> 0] => HistogramInv)'
    BY HistogramStart, PTL
  <2> QED BY <2>1, <2>2
<1>5. CASE UNCHANGED summaryVars
  BY <1>5 DEF summaryVars, HistogramInv, Cumulative, Below, UpTo
<1> QED BY <1>1, <1>2, <1>3, <1>4, <1>5 DEF SummaryNext

\* What the report leaves out is empty.
LEMMA RowsHoldAll ==
  ASSUME HistogramInv, summary = "histogram"
  PROVE  SumFunctionOnSet(bins, Rows) = Len(seen)
<1> DEFINE Out == Bins \ Rows
<1>1. /\ count = Len(seen) /\ bins \in [Bins -> Nat] /\ bins \in [Bins -> Int]
      /\ SumFunctionOnSet(bins, Bins) = Len(seen)
  BY DEF HistogramInv
<1>2. Rows \in SUBSET Bins /\ Out \in SUBSET Bins /\ Rows \cap Out = {} /\ Rows \cup Out = Bins
  BY DEF Rows
<1>3. IsFiniteSet(Rows) /\ IsFiniteSet(Out) /\ IsFiniteSet(Bins)
  BY <1>2, RowsFinite, FS_Subset
<1>4. ASSUME NEW i \in Out PROVE bins[i] = 0
  <2> DEFINE S == 0 .. i - 1
             T == i .. NBins + 1
  <2>1. i \in Nat /\ i <= NBins + 1 /\ i - 1 \in Int
    BY HistogramConstants DEF Bins
  <2>2. S \in SUBSET Bins /\ T \in SUBSET Bins /\ S \cap T = {} /\ S \cup T = Bins /\ i \in T
    BY <2>1, HistogramConstants DEF Bins
  <2>3. IsFiniteSet(S) /\ IsFiniteSet(T) /\ IsFiniteSet(T \ {i}) /\ T \ {i} \in SUBSET Bins
    BY <1>3, <2>2, FS_Subset
  <2>4. ~(SumFunctionOnSet(bins, S) < count)
    BY DEF Rows
  <2> HIDE DEF S, T
  <2>5. SumFunctionOnSet(bins, Bins) = SumFunctionOnSet(bins, S) + SumFunctionOnSet(bins, T)
    BY <1>1, <2>2, <2>3, SumUnion
  <2>6. SumFunctionOnSet(bins, T) = bins[i] + SumFunctionOnSet(bins, T \ {i})
    BY <1>1, <2>2, <2>3, SumFacts
  <2>7. \A n \in T \ {i} : bins[n] \in Nat
    BY <1>1, <2>3
  <2>8. SumFunctionOnSet(bins, T \ {i}) \in Nat
    BY <1>1, <2>3, <2>7, SumNatural
  <2>9. SumFunctionOnSet(bins, S) \in Int /\ bins[i] \in Nat
    BY <1>1, <2>2, <2>3, SumFacts
  <2> QED BY <1>1, <2>4, <2>5, <2>6, <2>8, <2>9
<1>5. SumFunctionOnSet(bins, Out) = 0
  <2>1. SumFunctionOnSet(bins, Out) = 0 * Cardinality(Out) /\ Cardinality(Out) \in Nat
    BY <1>1, <1>2, <1>3, <1>4, SumConstant, FS_CardinalityType
  <2> QED BY <2>1
<1>6. SumFunctionOnSet(bins, Bins) = SumFunctionOnSet(bins, Rows) + SumFunctionOnSet(bins, Out)
  BY <1>1, <1>2, <1>3, SumUnion
<1>7. SumFunctionOnSet(bins, Rows) \in Int
  BY <1>1, <1>2, <1>3, SumFacts
<1> QED BY <1>1, <1>5, <1>6, <1>7

\* The cumulative column of a histogram is right up to the observations that
\* lie on a bound, and the rows that histogram::report prints hold all of the
\* observations, for any range, number of bins and observations.
THEOREM AlwaysCumulativeRight == SummarySpec => []CumulativeRight
<1>1. SummaryInit => HistogramInv
  BY HistogramStart DEF SummaryInit
<1>2. HistogramInv => CumulativeRight
  <2> SUFFICES ASSUME HistogramInv, summary = "histogram"
               PROVE  /\ \A i \in Rows \ {NBins + 1} :
                           /\ Cardinality({n \in DOMAIN seen : Below(seen[n], i)}) <= Cumulative(i)
                           /\ Cumulative(i) <= Cardinality({n \in DOMAIN seen : UpTo(seen[n], i)})
                      /\ SumFunctionOnSet(bins, Rows) = Len(seen)
    BY DEF CumulativeRight
  <2>1. \A i \in Rows \ {NBins + 1} : i \in 0 .. NBins
    BY HistogramConstants DEF Rows, Bins
  <2> QED BY <2>1, RowsHoldAll DEF HistogramInv
<1> QED BY <1>1, <1>2, HistogramStep, PTL DEF SummarySpec
-----------------------------------------------------------------------------
(***************************************************************************)
(* The integral of accum.  Up to the last update, an update changes nothing*)
(* of the values that were in force; from it on, the last value is in      *)
(* force.                                                                  *)
(***************************************************************************)

\* The value in force at t, if s has been observed.
ValueIn(s, t) ==
  LET known == {n \in DOMAIN s : s[n][2] <= t}
  IN  IF known = {} THEN 0 ELSE s[Greatest(known)][1]

IntegralInv ==
  summary = "accum" =>
    /\ lastUpdate \in Nat /\ lastVal \in Int
    /\ seen \in Seq(Int \X (0 .. lastUpdate))
    /\ lastVal = IF seen = <<>> THEN 0 ELSE seen[Len(seen)][1]
    /\ total = SumFunctionOnSet([u \in 1 .. lastUpdate |-> ValueIn(seen, u - 1)], 1 .. lastUpdate)

LEMMA GreatestPlace ==
  ASSUME NEW m \in Nat, NEW S \in SUBSET (1 .. m), S # {}
  PROVE  Greatest(S) \in S /\ \A n \in S : n <= Greatest(S)
<1> DEFINE T == {k \in Nat : \E n \in S : k = m - n}
<1>1. \A n \in S : n \in Nat /\ m - n \in Nat
  OBVIOUS
<1>2. T \in SUBSET Nat /\ T # {}
  BY <1>1
<1>3. PICK k \in T : \A l \in T : ~(l < k)
  <2> HIDE DEF T
  <2> QED BY <1>2, LeastNumber
<1>4. PICK n \in S : k = m - n
  BY <1>3
<1>5. \A l \in S : n >= l
  <2> SUFFICES ASSUME NEW l \in S PROVE n >= l
    OBVIOUS
  <2>1. m - l \in T
    BY <1>1
  <2>2. ~(m - l < m - n)
    BY <1>3, <1>4, <2>1
  <2> QED BY <1>1, <2>2
<1>6. \E n1 \in S : \A l \in S : n1 >= l
  BY <1>5
<1>7. Greatest(S) \in S /\ \A l \in S : Greatest(S) >= l
  BY <1>6 DEF Greatest
<1> QED BY <1>1, <1>7

\* The value in force is one that was observed; after the last observation it
\* is the last value; and before a later observation it is what it was.
LEMMA ValuesInForce ==
  ASSUME NEW d \in Nat, NEW s \in Seq(Int \X (0 .. d)), NEW u \in Nat
  PROVE  /\ ValueIn(s, u) \in Int
         /\ u >= d => ValueIn(s, u) = IF s = <<>> THEN 0 ELSE s[Len(s)][1]
<1> DEFINE known == {n \in DOMAIN s : s[n][2] <= u}
<1>1. /\ Len(s) \in Nat /\ DOMAIN s = 1 .. Len(s) /\ (s = <<>> <=> Len(s) = 0)
      /\ \A n \in 1 .. Len(s) : s[n] \in Int \X (0 .. d)
  BY LenProperties, EmptySeq, ElementOfSeq
<1>2. \A n \in 1 .. Len(s) : s[n][1] \in Int /\ s[n][2] \in Nat /\ s[n][2] <= d
  BY <1>1
<1>3. known \in SUBSET (1 .. Len(s))
  BY <1>1
<1>4. ValueIn(s, u) = IF known = {} THEN 0 ELSE s[Greatest(known)][1]
  BY DEF ValueIn
<1>5. ASSUME u >= d PROVE known = 1 .. Len(s)
  <2>1. \A n \in 1 .. Len(s) : s[n][2] <= u
    BY <1>2, <1>5
  <2> QED BY <1>1, <2>1
<1> HIDE DEF known
<1>6. known # {} => Greatest(known) \in known /\ \A n \in known : n <= Greatest(known)
  BY <1>1, <1>3, GreatestPlace
<1>7. ValueIn(s, u) \in Int
  <2>1. CASE known = {}
    BY <1>4, <2>1
  <2>2. CASE known # {}
    BY <1>2, <1>3, <1>4, <1>6, <2>2
  <2> QED BY <2>1, <2>2
<1>8. ASSUME u >= d PROVE ValueIn(s, u) = IF s = <<>> THEN 0 ELSE s[Len(s)][1]
  <2>1. known = 1 .. Len(s)
    BY <1>5, <1>8
  <2>2. CASE Len(s) = 0
    BY <1>1, <1>4, <2>1, <2>2
  <2>3. CASE Len(s) # 0
    <3>1. Len(s) \in known
      BY <1>1, <2>1, <2>3
    <3>2. Greatest(known) = Len(s)
      <4>1. Greatest(known) \in 1 .. Len(s) /\ Len(s) <= Greatest(known)
        BY <1>6, <2>1, <3>1
      <4> QED BY <1>1, <4>1
    <3> QED BY <1>1, <1>4, <2>3, <3>1, <3>2
  <2> QED BY <2>2, <2>3
<1> QED BY <1>7, <1>8

LEMMA ValuesBefore ==
  ASSUME NEW S, NEW s \in Seq(S), NEW v, NEW t \in Nat, NEW u \in Nat, u < t
  PROVE  ValueIn(Append(s, <<v, t>>), u) = ValueIn(s, u)
<1> DEFINE r == Append(s, <<v, t>>)
           old == {n \in DOMAIN s : s[n][2] <= u}
           new == {n \in DOMAIN r : r[n][2] <= u}
<1>1. /\ Len(s) \in Nat /\ DOMAIN s = 1 .. Len(s) /\ DOMAIN r = 1 .. Len(s) + 1
      /\ \A n \in 1 .. Len(s) : r[n] = s[n]
      /\ r[Len(s) + 1] = <<v, t>>
  <2> DEFINE R == S \cup {<<v, t>>}
  <2>1. s \in Seq(R) /\ <<v, t>> \in R
    BY LenProperties
  <2> HIDE DEF R
  <2>2. /\ r \in Seq(R) /\ Len(r) = Len(s) + 1
        /\ \A n \in 1 .. Len(s) : r[n] = s[n]
        /\ r[Len(s) + 1] = <<v, t>>
    BY <2>1, AppendProperties
  <2> HIDE DEF r
  <2> QED BY <2>1, <2>2, LenProperties
<1> HIDE DEF r
<1>2. ~(r[Len(s) + 1][2] <= u)
  BY <1>1
<1>3. \A n : n \in 1 .. Len(s) + 1 <=> n \in 1 .. Len(s) \/ n = Len(s) + 1
  BY <1>1
<1>4. \A n : n \in new <=> n \in old
  BY <1>1, <1>2, <1>3
<1>5. new = old
  <2> HIDE DEF new, old
  <2> QED BY <1>4, Zenon
<1>6. /\ ValueIn(r, u) = IF new = {} THEN 0 ELSE r[Greatest(new)][1]
      /\ ValueIn(s, u) = IF old = {} THEN 0 ELSE s[Greatest(old)][1]
  BY DEF ValueIn
<1>7. old \in SUBSET (1 .. Len(s))
  BY <1>1
<1> HIDE DEF new, old
<1>8. old # {} => Greatest(old) \in 1 .. Len(s)
  BY <1>1, <1>7, GreatestPlace
<1>9. ValueIn(r, u) = ValueIn(s, u)
  BY <1>1, <1>5, <1>6, <1>8
<1> QED BY <1>9 DEF r

\* g goes on after f with one value.
Continues(g, f, D, E, w) ==
  /\ IsFiniteSet(D) /\ IsFiniteSet(E) /\ D \cap E = {}
  /\ f \in [D -> Int] /\ g \in [D \cup E -> Int]
  /\ \A u \in D : f[u] = g[u]
  /\ \A u \in E : g[u] = w

LEMMA SumContinued ==
  ASSUME NEW D, NEW E, NEW f, NEW g, NEW w \in Int, Continues(g, f, D, E, w)
  PROVE  SumFunctionOnSet(g, D \cup E) = SumFunctionOnSet(f, D) + w * Cardinality(E)
<1> DEFINE T == D \cup E
<1>1. /\ IsFiniteSet(D) /\ IsFiniteSet(E) /\ D \cap E = {}
      /\ f \in [D -> Int] /\ g \in [T -> Int]
      /\ \A u \in D : f[u] = g[u]
      /\ \A u \in E : g[u] = w
  BY DEF Continues
<1>2. D \in SUBSET T /\ E \in SUBSET T /\ D \cup E = T
  OBVIOUS
<1> HIDE DEF T
<1>3. SumFunctionOnSet(g, D \cup E) = SumFunctionOnSet(g, D) + SumFunctionOnSet(g, E)
  BY <1>1, <1>2, SumUnion
<1>4. SumFunctionOnSet(f, D) = SumFunctionOnSet(g, D)
  BY <1>1, <1>2, SumSame
<1>5. SumFunctionOnSet(g, E) = w * Cardinality(E)
  BY <1>1, <1>2, SumConstant
<1> QED BY <1>3, <1>4, <1>5

\* The sum of the values in force over a longer time.
LEMMA SumInForce ==
  ASSUME NEW d \in Nat, NEW t \in Nat, d <= t, NEW w \in Int,
         NEW f \in [1 .. d -> Int], NEW g \in [1 .. t -> Int],
         \A u \in 1 .. d : g[u] = f[u], \A u \in d + 1 .. t : g[u] = w
  PROVE  SumFunctionOnSet(g, 1 .. t) = SumFunctionOnSet(f, 1 .. d) + w * (t - d)
<1> DEFINE E == d + 1 .. t
<1>1. (1 .. d) \cap E = {} /\ (1 .. d) \cup E = 1 .. t /\ d + 1 \in Int
  OBVIOUS
<1>2. IsFiniteSet(1 .. d)
  BY FS_Interval
<1>3. IsFiniteSet(E) /\ Cardinality(E) = t - d
  <2>1. IsFiniteSet(E) /\ Cardinality(E) = IF d + 1 > t THEN 0 ELSE t - (d + 1) + 1
    BY <1>1, FS_Interval
  <2>2. (IF d + 1 > t THEN 0 ELSE t - (d + 1) + 1) = t - d
    OBVIOUS
  <2> QED BY <2>1, <2>2
<1>4. Continues(g, f, 1 .. d, E, w)
  BY <1>1, <1>2, <1>3 DEF Continues
<1>5. SumFunctionOnSet(g, (1 .. d) \cup E) = SumFunctionOnSet(f, 1 .. d) + w * Cardinality(E)
  <2> HIDE DEF E
  <2> QED BY <1>4, SumContinued
<1> QED BY <1>1, <1>3, <1>5

LEMMA AccumUpdateStep ==
  ASSUME IntegralInv, NEW v \in Values, NEW t \in 0 .. LastTime, AccumUpdate(v, t)
  PROVE  IntegralInv'
<1> DEFINE d == lastUpdate
           w == lastVal
           f == [u \in 1 .. d |-> ValueIn(seen, u - 1)]
           g == [u \in 1 .. t |-> ValueIn(Append(seen, <<v, t>>), u - 1)]
<1>1. /\ d \in Nat /\ w \in Int /\ seen \in Seq(Int \X (0 .. d))
      /\ w = IF seen = <<>> THEN 0 ELSE seen[Len(seen)][1]
      /\ total = SumFunctionOnSet(f, 1 .. d)
  BY DEF IntegralInv, AccumUpdate
<1>2. /\ t >= d /\ seen' = Append(seen, <<v, t>>) /\ lastUpdate' = t /\ lastVal' = v
      /\ total' = total + w * (t - d)
  BY DEF AccumUpdate, Observe
<1>3. t \in Nat /\ v \in Int
  BY SummariesAssumption
<1> HIDE DEF d, w
<1>4. /\ seen' \in Seq(Int \X (0 .. t)) /\ seen' # <<>>
      /\ Len(seen') = Len(seen) + 1 /\ seen'[Len(seen) + 1] = <<v, t>>
  <2>1. (0 .. d) \subseteq (0 .. t) /\ t \in 0 .. t
    BY <1>1, <1>2, <1>3
  <2>2. Int \X (0 .. d) \subseteq Int \X (0 .. t) /\ <<v, t>> \in Int \X (0 .. t)
    BY <1>3, <2>1
  <2> DEFINE R == Int \X (0 .. t)
             P == Int \X (0 .. d)
  <2>3. seen \in Seq(P) /\ P \subseteq R /\ <<v, t>> \in R
    BY <1>1, <2>2
  <2> HIDE DEF R, P
  <2>4. seen \in Seq(R)
    BY <2>3
  <2>5. /\ seen' \in Seq(R) /\ Len(seen') = Len(seen) + 1
        /\ seen'[Len(seen) + 1] = <<v, t>> /\ Len(seen) \in Nat
    BY <1>2, <2>3, <2>4, AppendProperties, LenProperties
  <2>6. seen' # <<>>
    BY <2>5, EmptySeq
  <2> QED BY <2>5, <2>6 DEF R
<1>5. seen'[Len(seen')][1] = v
  BY <1>4
<1>6. f \in [1 .. d -> Int] /\ \A u \in 1 .. d : f[u] = ValueIn(seen, u - 1)
  <2>1. \A u \in 1 .. d : u - 1 \in Nat
    BY <1>1
  <2>2. \A u \in 1 .. d : ValueIn(seen, u - 1) \in Int
    BY <1>1, <2>1, ValuesInForce
  <2> QED BY <2>2
<1>7. g \in [1 .. t -> Int] /\ \A u \in 1 .. t : g[u] = ValueIn(seen, u - 1)
  <2>1. \A u \in 1 .. t : u - 1 \in Nat /\ u - 1 < t
    BY <1>3
  <2>2. \A u \in 1 .. t : ValueIn(seen, u - 1) \in Int
    BY <1>1, <2>1, ValuesInForce
  <2>3. \A u \in 1 .. t : ValueIn(Append(seen, <<v, t>>), u - 1) = ValueIn(seen, u - 1)
    BY <1>1, <1>3, <2>1, ValuesBefore
  <2> QED BY <2>2, <2>3
<1> HIDE DEF f, g
<1>8. \A u \in 1 .. d : g[u] = f[u]
  <2>1. \A u \in 1 .. d : u \in 1 .. t
    BY <1>1, <1>2, <1>3
  <2> QED BY <1>6, <1>7, <2>1
<1>9. \A u \in d + 1 .. t : g[u] = w
  <2> SUFFICES ASSUME NEW u \in d + 1 .. t PROVE g[u] = w
    OBVIOUS
  <2>1. u \in 1 .. t /\ u - 1 \in Nat /\ u - 1 >= d
    BY <1>1, <1>3
  <2>2. ValueIn(seen, u - 1) = IF seen = <<>> THEN 0 ELSE seen[Len(seen)][1]
    BY <1>1, <2>1, ValuesInForce
  <2> QED BY <1>1, <1>7, <2>1, <2>2
<1>10. SumFunctionOnSet(g, 1 .. t) = SumFunctionOnSet(f, 1 .. d) + w * (t - d)
  BY <1>1, <1>2, <1>3, <1>6, <1>7, <1>8, <1>9, SumInForce
<1>11. total' = SumFunctionOnSet(g, 1 .. t)
  BY <1>1, <1>2, <1>10
<1>12. total' = SumFunctionOnSet([u \in 1 .. lastUpdate' |-> ValueIn(seen', u - 1)], 1 .. lastUpdate')
  BY <1>2, <1>11 DEF g
<1> QED BY <1>2, <1>3, <1>4, <1>5, <1>12 DEF IntegralInv

LEMMA AccumStart ==
  ASSUME seen = <<>>, total = 0, lastUpdate = 0, lastVal = 0
  PROVE  IntegralInv
<1> DEFINE f == [u \in 1 .. lastUpdate |-> ValueIn(seen, u - 1)]
<1>1. 1 .. lastUpdate = {}
  OBVIOUS
<1>2. f \in [{} -> Int] /\ {} \in SUBSET {}
  BY <1>1
<1>3. IsFiniteSet({})
  BY FS_EmptySet
<1> HIDE DEF f
<1>4. SumFunctionOnSet(f, {}) = 0
  BY <1>2, <1>3, SumFacts
<1>5. seen \in Seq(Int \X (0 .. lastUpdate))
  BY EmptySeq
<1>6. total = SumFunctionOnSet(f, 1 .. lastUpdate)
  BY <1>1, <1>4
<1> QED BY <1>5, <1>6 DEF IntegralInv, f

LEMMA IntegralStep ==
  ASSUME IntegralInv, [SummaryNext]_summaryVars
  PROVE  IntegralInv'
<1>1. ASSUME NEW v \in Values, CounterUpdate(v) \/ HistogramUpdate(v) PROVE IntegralInv'
  BY <1>1 DEF CounterUpdate, HistogramUpdate, Observe, IntegralInv
<1>2. ASSUME NEW v \in Values, NEW t \in 0 .. LastTime, AccumUpdate(v, t) PROVE IntegralInv'
  BY <1>2, AccumUpdateStep
<1>3. CASE SummaryReset
  <2>1. seen' = <<>> /\ total' = 0 /\ lastUpdate' = 0 /\ lastVal' = 0
    BY <1>3 DEF SummaryReset
  <2>2. (seen = <<>> /\ total = 0 /\ lastUpdate = 0 /\ lastVal = 0 => IntegralInv)'
    BY AccumStart, PTL
  <2> QED BY <2>1, <2>2
<1>4. CASE UNCHANGED summaryVars
  BY <1>4 DEF summaryVars, integral, IntegralInv
<1> QED BY <1>1, <1>2, <1>3, <1>4 DEF SummaryNext

\* The sum that an accum divides by the time is the integral of the value in
\* force, after any updates and resets of a program that does not go back in
\* time, whatever the values and the times.
THEOREM AlwaysSumIsIntegral == SummarySpec => []SumIsIntegral
<1>1. SummaryInit => IntegralInv
  BY AccumStart DEF SummaryInit
<1>2. IntegralInv => SumIsIntegral
  <2> SUFFICES ASSUME IntegralInv, summary = "accum"
               PROVE  total = SumFunction([t \in 1 .. lastUpdate |-> InForce(t - 1)])
    BY DEF SumIsIntegral
  <2>1. [t \in 1 .. lastUpdate |-> InForce(t - 1)] = [t \in 1 .. lastUpdate |-> ValueIn(seen, t - 1)]
    BY DEF InForce, ValueIn
  <2>2. SumFunction([t \in 1 .. lastUpdate |-> ValueIn(seen, t - 1)]) =
          SumFunctionOnSet([t \in 1 .. lastUpdate |-> ValueIn(seen, t - 1)], 1 .. lastUpdate)
    BY DEF SumFunction
  <2> QED BY <2>1, <2>2 DEF IntegralInv
<1> QED BY <1>1, <1>2, IntegralStep, PTL DEF SummarySpec

=============================================================================
