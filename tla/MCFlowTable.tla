----------------------------- MODULE MCFlowTable -----------------------------
(***************************************************************************)
(* Instances of FlowTable for TLC.                                         *)
(***************************************************************************)
EXTENDS FlowTable, TLC

CONSTANTS c1, c2, c3        \* CPUs
CONSTANTS o1, t1, r1        \* a destination contacted by a client, its target and reverse
CONSTANTS o2                \* another destination, contacted from the same client port
CONSTANTS g1, g2            \* guard elements
CONSTANTS e1, e2            \* in-flight elements

MCSymmetry == Permutations(CPUs) \cup Permutations(Guards) \cup Permutations(Cells)

\* The deadline in a free guard element nobody points to is never read, nor is
\* the number in such an in-flight element or the timestamp of a removed record.
MCView ==
    <<[d \in Guards |-> IF InUse(d) THEN age[d] ELSE "before"],
      [k \in Generations |-> IF life[k] = "none" THEN 0 ELSE used[k]],
      [e \in Cells |-> IF \/ \E k \in Generations : inflight[k] = e
                          \/ \E c \in CPUs : held[c] = e
                       THEN tally[e] ELSE 0],
      index, life, orig, inflight, recycled, guard, outcome, slots, generation, clock,
      faults, cpuVars, hostVars>>

\* One destination.
OneEligible == {o1}
OneTuples   == {o1, t1, r1}

\* Two destinations contacted from one client port: both flows would use the
\* same target and reverse tuples.
SharedEligible == {o1, o2}
SharedTuples   == {o1, o2, t1, r1}

MCTargetOf  == [t \in Eligible |-> t1]
MCReverseOf == [t \in Eligible |-> r1]
MCFlowId    == [t \in Eligible |-> t]
=============================================================================
