----------------------------- MODULE CommandLog ----------------------------
(***************************************************************************)
(* What an administrator may count on of the runs of the command line tool *)
(* (interactions/src): a run has one fate, which is settled once and never *)
(* changes, and the program takes a step for the runs it settles as        *)
(* applied and for no other.  Runs that signed the same transaction share  *)
(* one step, even those that sign it when it is taken already.             *)
(***************************************************************************)
EXTENDS Integers, FiniteSets

CONSTANT Runs

ASSUME RunsAssumption == IsFiniteSet(Runs)

VARIABLES
  fate,     \* of each run: "unused", "open", "applied", "refused" or "void"
  effects   \* how often an instruction has taken effect for a run

vars == <<fate, effects>>

Init == fate = [r \in Runs |-> "unused"] /\ effects = 0

Turn(S, from, to) ==
  /\ \A r \in S : fate[r] = from
  /\ fate' = [r \in Runs |-> IF r \in S THEN to ELSE fate[r]]

Begin(r) == Turn({r}, "unused", "open") /\ UNCHANGED effects

Apply_Repeated(S) ==
  /\ S # {}
  /\ \A r \in S : fate[r] \in {"open", "applied"}
  /\ fate' = [r \in Runs |-> IF r \in S THEN "applied" ELSE fate[r]]
  /\ effects' = effects + 1

\* One transaction lands, for the runs that signed it.
Apply(S) == S # {} /\ Turn(S, "open", "applied") /\ effects' = effects + 1

Refuse(S) == Turn(S, "open", "refused") /\ UNCHANGED effects

\* A run signs the transaction another run has signed and the cluster has taken
\* already: no second effect.
Join(r, s) ==
  /\ fate[s] \in {"applied", "refused"}
  /\ Turn({r}, "open", fate[s])
  /\ UNCHANGED effects

\* Nothing was sent, or what was sent can no longer land.
Void(S) == Turn(S, "open", "void") /\ UNCHANGED effects

Next ==
  \/ \E r \in Runs : Begin(r) \/ \E s \in Runs : Join(r, s)
  \/ \E S \in SUBSET Runs : Apply(S) \/ Refuse(S) \/ Void(S)

Spec == Init /\ [][Next]_vars

-----------------------------------------------------------------------------
\* The program takes effect for the runs of the tool at most as often as there
\* are runs whose transaction it applied (admin_endpoints.rs signs one
\* transaction in each run).
AtMostOnce ==
  effects <= Cardinality({r \in Runs : fate[r] = "applied"})

=============================================================================
