---------------------------- MODULE MCCoroutine ----------------------------
(***************************************************************************)
(* Three coroutines and the main program: enough for a chain of two calls, *)
(* another root to resume meanwhile, and a coroutine deleted and rebuilt.  *)
(***************************************************************************)
EXTENDS Coroutine, Sequences, SequencesExt, FiniteSetsExt, TLC

\* The chain that starts at c, as a sequence.
ChainFrom(next, c) ==
  LET members == Reach(next, c)
  IN CHOOSE s \in [1 .. Cardinality(members) -> members] :
       /\ s[1] = c
       /\ \A i \in 1 .. Cardinality(members) - 1 : next[s[i]] = s[i + 1]

\* Who is called by nobody starts a chain.
Chains == {ChainFrom(callee, c) : c \in {d \in alive \cup {Main} : caller[d] = NULL}}

\* The one at whose end control is.
RunningChain == CHOOSE s \in Chains : Last(s) = current

Abstract ==
  INSTANCE CallChains WITH
    chains   <- Chains,
    running  <- RunningChain,
    finished <- {c \in All : terminated[c]}

\* The pointers of coroutine.cc implement the chains of CallChains; a halted
\* program takes no step there.
ImplementsCallChains == Abstract!Spec

=============================================================================
