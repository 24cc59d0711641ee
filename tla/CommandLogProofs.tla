-------------------------- MODULE CommandLogProofs -------------------------
(***************************************************************************)
(* The log of commands never counts an effect twice, for any set of runs.  *)
(***************************************************************************)
EXTENDS CommandLog, FiniteSetTheorems, TLAPS

Fates == {"unused", "open", "applied", "refused", "void"}

LogInv ==
  /\ fate \in [Runs -> Fates]
  /\ effects \in Nat
  /\ AtMostOnce

Applied == {r \in Runs : fate[r] = "applied"}

\* The runs counted as applied are finitely many.
LEMMA AppliedFinite ==
  /\ IsFiniteSet(Applied) /\ Cardinality(Applied) \in Nat
  /\ IsFiniteSet(Applied') /\ Cardinality(Applied') \in Nat
<1>1. Applied \in SUBSET Runs /\ Applied' \in SUBSET Runs
  BY DEF Applied
<1>2. IsFiniteSet(Applied) /\ IsFiniteSet(Applied')
  BY <1>1, RunsAssumption, FS_Subset
<1> QED
  BY <1>2, FS_CardinalityType

\* A step that adds no effect and takes no run out of the applied ones.
LEMMA NoEffect ==
  ASSUME LogInv, UNCHANGED effects, fate' \in [Runs -> Fates],
         \A r \in Runs : fate[r] = "applied" => fate'[r] = "applied"
  PROVE  LogInv'
<1>1. Applied \in SUBSET Applied'
  BY DEF Applied
<1>2. Cardinality(Applied) <= Cardinality(Applied')
  BY <1>1, AppliedFinite, FS_Subset
<1> QED
  BY <1>2, AppliedFinite DEF LogInv, AtMostOnce, Applied

\* A turn from a fate other than "applied" keeps the applied runs.
LEMMA TurnKeeps ==
  ASSUME LogInv, NEW S \in SUBSET Runs, NEW from, NEW to \in Fates,
         from # "applied", Turn(S, from, to)
  PROVE  /\ fate' \in [Runs -> Fates]
         /\ \A r \in Runs : fate[r] = "applied" => fate'[r] = "applied"
  BY DEF LogInv, Turn

LEMMA ApplyStep ==
  ASSUME LogInv, NEW S \in SUBSET Runs, Apply(S)
  PROVE  LogInv'
<1>1. PICK r \in S : fate[r] = "open" /\ fate'[r] = "applied"
  BY DEF Apply, Turn
<1>2. /\ fate' \in [Runs -> Fates]
      /\ \A q \in Runs : fate[q] = "applied" => fate'[q] = "applied"
  BY TurnKeeps DEF Apply, Fates
<1>3. r \notin Applied /\ Applied \union {r} \in SUBSET Applied'
  BY <1>1, <1>2 DEF Applied
<1>4. Cardinality(Applied \union {r}) = Cardinality(Applied) + 1
  BY <1>3, AppliedFinite, FS_AddElement
<1>5. Cardinality(Applied \union {r}) <= Cardinality(Applied')
  BY <1>3, AppliedFinite, FS_Subset
<1> QED
  BY <1>2, <1>4, <1>5, AppliedFinite DEF LogInv, AtMostOnce, Applied, Apply

LEMMA LogStep ==
  ASSUME LogInv, [Next]_vars
  PROVE  LogInv'
<1> USE DEF Fates
<1>1. ASSUME NEW r \in Runs, Begin(r)
      PROVE  LogInv'
  BY <1>1, TurnKeeps, NoEffect DEF Begin
<1>2. ASSUME NEW r \in Runs, NEW s \in Runs, Join(r, s)
      PROVE  LogInv'
  BY <1>2, TurnKeeps, NoEffect DEF Join
<1>3. ASSUME NEW S \in SUBSET Runs, Apply(S)
      PROVE  LogInv'
  BY <1>3, ApplyStep
<1>4. ASSUME NEW S \in SUBSET Runs, Refuse(S)
      PROVE  LogInv'
  BY <1>4, TurnKeeps, NoEffect DEF Refuse
<1>5. ASSUME NEW S \in SUBSET Runs, Void(S)
      PROVE  LogInv'
  BY <1>5, TurnKeeps, NoEffect DEF Void
<1>6. CASE UNCHANGED vars
  BY <1>6, NoEffect DEF vars, LogInv
<1> QED
  BY <1>1, <1>2, <1>3, <1>4, <1>5, <1>6 DEF Next

\* The program takes effect for the runs of the tool at most as often as there
\* are runs settled as applied, in every state of the log.
THEOREM EffectsAtMostOnce == Spec => []AtMostOnce
<1>1. Init => LogInv
  <2> SUFFICES ASSUME Init PROVE LogInv
    OBVIOUS
  <2>1. fate \in [Runs -> Fates] /\ effects = 0
    BY DEF Init, Fates
  <2>2. Cardinality(Applied) >= 0
    BY AppliedFinite
  <2> QED
    BY <2>1, <2>2 DEF LogInv, AtMostOnce, Applied
<1>2. LogInv /\ [Next]_vars => LogInv'
  BY LogStep
<1>3. LogInv => AtMostOnce
  BY DEF LogInv
<1> QED
  BY <1>1, <1>2, <1>3, PTL DEF Spec

=============================================================================
