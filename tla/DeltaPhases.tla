----------------------------- MODULE DeltaPhases -----------------------------
(***************************************************************************)
(* What the rest of the server relies on about a plan of deltas            *)
(* (wire.plan_deltas): one delta is known by its phase and by whether it   *)
(* takes part in pacing.                                                   *)
(***************************************************************************)
EXTENDS Integers, Sequences

Phases == {"role", "reasoning", "content", "tool"}
Rank   == [role |-> 1, reasoning |-> 2, content |-> 3, tool |-> 4]

Step == [what : Phases, paced : BOOLEAN]

\* A plan is what plan_deltas returns: the role first, then the deltas in the
\* order of their phases; the ones that carry a token are paced.
IsPlan(p) ==
  /\ p \in Seq(Step)
  /\ p # <<>>
  /\ p[1] = [what |-> "role", paced |-> FALSE]
  /\ \A i \in 2..Len(p) : Rank[p[i].what] > 1
  /\ \A i, j \in 1..Len(p) : i < j => Rank[p[i].what] =< Rank[p[j].what]
=============================================================================
