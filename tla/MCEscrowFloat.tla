----------------------------- MODULE MCEscrowFloat -----------------------------
(* Small instances of EscrowFloat: amounts are chosen so that the deposits   *)
(* cover either CASH leg but not both.                                       *)
EXTENDS EscrowFloat, FiniteSetsExt, TLC

CONSTANTS cash, stk, solo, mixed, dep

MCAmount == [e \in Entries |-> IF e = stk THEN 3 ELSE IF e = cash THEN 2
                               ELSE IF e = dep THEN 3 ELSE 1]
MCTotal  == [S \in SUBSET Entries |-> MapThenSumSet(LAMBDA e : MCAmount[e], S)]

HandlerSymmetry == Permutations(Handlers)

(* Bounds of the concurrent run: only the settlement of a collected leg has  *)
(* other writers, one at a time.                                             *)
Writing == {h \in Handlers : pc[h] \in WriterSteps}
FewWriters == Cardinality(Writing) <= 1 /\ \A h \in Writing : task[h] \in Collected
================================================================================
