---------------------------- MODULE MC_Refcount ----------------------------
(* Small threads and references; the limits of each configuration decide    *)
(* which builds there are and whether their references bring the count to   *)
(* -1: for a modulus of 6, five do (plain) and four do not (atomic).        *)
EXTENDS Refcount
CONSTANTS t1, t2, t3, r1, r2, r3, r4, r5
TwoThreads == {t1, t2}
ThreeThreads == {t1, t2, t3}
ThreeRefs == {r1, r2, r3}
FourRefs == {r1, r2, r3, r4}
FiveRefs == {r1, r2, r3, r4, r5}
AllBuilds == [plain |-> 5, atomic |-> 4, llsc |-> 3]
AtomicOnly == [atomic |-> 4]
PPCOnly == [llsc |-> 3]
=============================================================================
