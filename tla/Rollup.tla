------------------------------- MODULE Rollup -------------------------------
(***************************************************************************)
(* The rollup of libs/zkkv (RollupState and the methods of the ZkProgram   *)
(* RollupTransformations): proofs that the root of a manager's map goes    *)
(* from root0 to root1 by setting keys, one at a time or merged.           *)
(***************************************************************************)
EXTENDS Zkkv

\* A step sets key from value0 to value1; its witness is from the map mgr.
RollupStep(root0, root1, key, value0, value1, mgr) ==
    [root0 |-> root0, root1 |-> root1, key |-> key,
     value0 |-> value0, value1 |-> value1, witnessManager |-> mgr]

RollupState(root0, root1) == [root0 |-> root0, root1 |-> root1]

\* Mutant: the value the key had is not asserted.
MutantOneStepAsserts(s) ==
    s.root1 = [s.witnessManager EXCEPT ![s.key] = s.value1]

\* oneStep (createOneStep): both roots are those of the witness.
OneStepAsserts(s) ==
    /\ s.root0 = [s.witnessManager EXCEPT ![s.key] = s.value0]
    /\ s.root1 = [s.witnessManager EXCEPT ![s.key] = s.value1]

\* merge: the second proof starts where the first ends.
MergeAsserts(state, proof1, proof2) ==
    /\ proof1.root0 = state.root0
    /\ proof1.root1 = proof2.root0
    /\ proof2.root1 = state.root1

CreateMerged(state1, state2) == RollupState(state1.root0, state2.root1)

=============================================================================
