-------------------------- MODULE PoolGroupsProofs --------------------------
(***************************************************************************)
(* Proofs about PoolGroups: what its steps, which the reconciles of        *)
(* SecurityGroups implement, add up to.                                    *)
(***************************************************************************)
EXTENDS PoolGroups, TLAPS

LEMMA NextKept == TypeOK /\ Kept /\ [Next]_vars => TypeOK' /\ Kept'
  <1> SUFFICES ASSUME TypeOK, Kept, [Next]_vars PROVE TypeOK' /\ Kept'
    OBVIOUS
  <1> USE DEF TypeOK, Kept
  <1>1. ASSUME NEW s \in SG, NEW p \in Pool, Add(s, p) PROVE TypeOK' /\ Kept'
    BY <1>1 DEF Add, Configure
  <1>2. ASSUME NEW s \in SG, NEW p \in Pool, Remove(s, p) PROVE TypeOK' /\ Kept'
    BY <1>2 DEF Remove, Configure
  <1>3. ASSUME NEW s \in SG, NEW p \in Pool, Vouch(s, p) PROVE TypeOK' /\ Kept'
    BY <1>3 DEF Vouch
  <1>4. ASSUME NEW s \in SG, LetGo(s) PROVE TypeOK' /\ Kept'
    BY <1>4 DEF LetGo
  <1>5. ASSUME NEW s \in SG, DeleteGroup(s) PROVE TypeOK' /\ Kept'
    BY <1>5 DEF DeleteGroup
  <1>6. ASSUME NEW p \in Pool, UseLatest(p) PROVE TypeOK' /\ Kept'
    BY <1>6 DEF UseLatest
  <1>7. CASE UNCHANGED vars
    BY <1>7 DEF vars
  <1> QED
    BY <1>1, <1>2, <1>3, <1>4, <1>5, <1>6, <1>7 DEF Next

\* A pool that a SecurityGroup vouches for launches its instances with the
\* group and has it in its newest configuration, whatever the others do: what
\* docs/README.md calls attached.
THEOREM VouchedIsKept == Spec => []Kept
  <1>1. Init => TypeOK /\ Kept
    BY DEF Init, TypeOK, Kept
  <1> QED
    BY <1>1, NextKept, PTL DEF Spec

=============================================================================
