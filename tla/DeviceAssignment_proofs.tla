------------------------ MODULE DeviceAssignment_proofs ------------------------
(***************************************************************************)
(* What the abstract specification of device assignment means: hardware is  *)
(* never shared.  It holds of everything shown to implement it.             *)
(***************************************************************************)
EXTENDS DeviceAssignment, TLAPS

HoldsType == DOMAIN holds = Container /\ holds = [c \in Container |-> holds[c]]

LEMMA OverlapIsSymmetric == ASSUME NEW s, NEW t, Overlap(s, t) PROVE Overlap(t, s)
BY DEF Overlap

LEMMA ApartIsSymmetric == ASSUME NEW S, NEW T, Apart(S, T) PROVE Apart(T, S)
BY OverlapIsSymmetric DEF Apart

AssignmentInv == HoldsType /\ Disjoint

LEMMA AssignmentInvStep == AssignmentInv /\ [Next]_holds => AssignmentInv'
<1> SUFFICES ASSUME AssignmentInv, [Next]_holds PROVE AssignmentInv'
  OBVIOUS
<1> USE DEF AssignmentInv, HoldsType, Disjoint
<1>1. CASE UNCHANGED holds
  BY <1>1
<1>2. ASSUME NEW c \in Container, Grant(c) PROVE AssignmentInv'
  <2>1. holds' = [holds EXCEPT ![c] = holds'[c]]
    BY <1>2 DEF Grant
  <2>2. \A d \in Container \ {c} : holds'[d] = holds[d] /\ Apart(holds'[c], holds'[d])
    BY <1>2, <2>1 DEF Grant
  <2>3. \A d \in Container \ {c} : Apart(holds'[d], holds'[c])
    BY <2>2, ApartIsSymmetric
  <2> QED
    BY <2>1, <2>2, <2>3
<1>3. ASSUME NEW c \in Container, Drop(c) PROVE AssignmentInv'
  <2>1. \A d \in Container \ {c} : holds'[d] = holds[d]
    BY <1>3 DEF Drop
  <2>2. holds'[c] = {}
    BY <1>3 DEF Drop
  <2>3. \A d \in Container : Apart(holds'[c], holds'[d]) /\ Apart(holds'[d], holds'[c])
    BY <2>2 DEF Apart
  <2> QED
    BY <1>3, <2>1, <2>3 DEF Drop
<1> QED
  BY <1>1, <1>2, <1>3 DEF Next

\* Two running containers never see hardware in common: the isolation that every way of
\* handing out MIG devices is there for.
THEOREM HardwareIsNotShared == Spec => []Disjoint
<1>1. Init => AssignmentInv
  BY DEF Init, AssignmentInv, HoldsType, Disjoint, Apart
<1> QED
  BY <1>1, AssignmentInvStep, PTL DEF Spec, AssignmentInv
=============================================================================
