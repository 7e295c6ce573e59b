------------------------ MODULE PoolAttachmentProofs ------------------------
(***************************************************************************)
(* Proofs about PoolAttachment, for every set of SecurityGroups, pools,    *)
(* clusters and instances and every bound on edits and faults.             *)
(***************************************************************************)
EXTENDS PoolAttachment, TLAPS

\* A SecurityGroup references pools of one cluster: what the lock, keyed by the
\* cluster of the first reference that resolves, takes for granted.
SingleCluster == \A s \in SG : \A p, q \in Refs[s] : ClusterOf[p] = ClusterOf[q]

-----------------------------------------------------------------------------
(* The inductive invariant.                                                *)

\* Everything a reconcile works on comes from the references.
RefsInv ==
    \A s \in SG :
        /\ spec[s] \subseteq Refs[s]
        /\ applied[s] \subseteq Refs[s]
        /\ seen[s] \subseteq Refs[s]
        /\ todo[s] \subseteq Refs[s]
        /\ pc[s] \in Working => pool[s] \in Refs[s]

\* From retrieveInfraRefInfo on, a reconcile has the cluster of all its
\* references, and between Lock and Unlock it holds the mutex of that cluster.
LockInv ==
    \A s \in SG :
        /\ pc[s] \in Locked \cup {"lock"} => \A p \in Refs[s] : ClusterOf[p] = cluster[s]
        /\ pc[s] \in Locked => lock[cluster[s]] = s

\* The branch of the code a reconcile is in fits the kind of its pool.
KindInv ==
    \A s \in SG :
        /\ pc[s] \in {"template", "create", "roll"} => KindOf[pool[s]] = "asg"
        /\ pc[s] \in {"spec", "running"} => KindOf[pool[s]] = "vng"

\* What a reconcile read of its pool and has yet to use is still so: the groups
\* it is about to write differ from those there by its own at most.
SameOthers(s, written, there) ==
    \A t \in existing \cap SG : t # s => (t \in written <=> t \in there)

Fresh(s) ==
    /\ pc[s] \in {"template", "create", "roll"} => asgSeen[s] = asg[pool[s]]
    /\ pc[s] = "create" => SameOthers(s, wanted[s], Latest(pool[s]))
    /\ pc[s] = "roll" => version[s] = Len(lt[pool[s]])
    /\ pc[s] = "spec" => SameOthers(s, wanted[s], vng[pool[s]])

FreshInv == \A s \in SG : Fresh(s)

InstancesInv ==
    \A s \in SG, i \in Instance :
        i \in ids[s] =>
            /\ pc[s] \in Working
            /\ PoolOf[i] = pool[s]
            /\ state[i] # "absent"
            /\ pc[s] = "modify" /\ state[i] = "running" => snap[s][i] = groups[i]

\* The group of a SecurityGroup is in whatever the pool may launch with: in the
\* launch spec, or in every version of the template from the running one on.
Carries(s, p) ==
    /\ KindOf[p] = "vng" => s \in vng[p]
    /\ KindOf[p] = "asg" => \A v \in asg[p]..Len(lt[p]) : s \in lt[p][v]

AttachInv ==
    \A s \in SG :
        /\ csg[s] => s \in existing /\ \A p \in attached[s] : Carries(s, p)
        /\ pc[s] \in Working /\ phase[s] # "attach" => pool[s] \notin attached[s]
        /\ phase[s] = "attach" =>
              /\ pc[s] \in {"create", "spec"} => s \in wanted[s]
              /\ pc[s] = "roll" => s \in Latest(pool[s])
              /\ pc[s] = "running" => s \in vng[pool[s]]
              /\ pc[s] \in {"instances", "modify"} => Carries(s, pool[s])

Inv == TypeOK /\ RefsInv /\ LockInv /\ KindInv /\ FreshInv /\ InstancesInv /\ AttachInv

-----------------------------------------------------------------------------
(* Typing.                                                                 *)

LEMMA InitTypeOK == Init => TypeOK
  <1> SUFFICES ASSUME Init PROVE TypeOK
    OBVIOUS
  <1>1. ObjectsOK
    BY DEF Init, ObjectsOK
  <1>2. CloudOK
    BY DEF Init, CloudOK, InitGroups, Group
  <1> DEFINE c0 == CHOOSE c \in Cluster : TRUE
             p0 == CHOOSE p \in Pool : TRUE
  <1>a. c0 \in Cluster /\ p0 \in Pool
    BY ConstantsAssumption
  <1>3. RunsOK
    BY <1>a DEF Init, RunsOK, Step
  <1>4. CallsOK
    BY <1>a DEF Init, CallsOK
  <1> QED
    BY <1>1, <1>2, <1>3, <1>4 DEF Init, TypeOK

\* Where an attach or a detach of a pool ends, its locals are typed again.
LEMMA ReturnTypeOK ==
  ASSUME TypeOK, NEW s \in SG, Error(s) \/ Done(s),
         \A p \in Pool : Len(lt'[p]) \in Nat /\ Len(lt[p]) <= Len(lt'[p]),
         UNCHANGED <<lock, phase, cluster, seen, conflict>>
  PROVE  RunsOK' /\ CallsOK'
  <1> USE DEF TypeOK
  <1>1. Return(s)
    BY DEF Error, Done
  <1>2. CallsOK'
    <2>1. pool' \in [SG -> Pool] /\ asgSeen' \in [SG -> Nat] /\ version' \in [SG -> Nat]
      BY <1>1 DEF Return, CallsOK
    <2>2. wanted' \in [SG -> SUBSET Group] /\ ids' \in [SG -> SUBSET Instance]
      BY <1>1 DEF Return, CallsOK
    <2>3. snap' \in [SG -> [Instance -> SUBSET Group]]
      BY <1>1 DEF Return, CallsOK
    <2>4. ASSUME NEW t \in SG, pc'[t] = "roll"
          PROVE  version'[t] \in 1..Len(lt'[pool'[t]])
      <3>1. t # s /\ pc[t] = "roll" /\ version'[t] = version[t] /\ pool'[t] = pool[t]
        BY <1>1, <2>4 DEF Return, RunsOK, CallsOK
      <3>2. pool[t] \in Pool /\ version[t] \in 1..Len(lt[pool[t]])
        BY <3>1 DEF CallsOK
      <3>3. lt[pool[t]] \in Seq(SUBSET Group)
        BY <3>2 DEF CloudOK
      <3> QED
        BY <3>1, <3>2, <3>3
    <2> QED
      BY <2>1, <2>2, <2>3, <2>4 DEF CallsOK
  <1>3. pc' \in [SG -> Step]
    BY <1>1 DEF Return, RunsOK, Step
  <1>4. CASE Error(s)
    <2>1. todo' \in [SG -> SUBSET Pool]
      BY <1>4 DEF Error, RunsOK
    <2>2. /\ failed' \in [SG -> BOOLEAN] /\ gaveUp' \in [SG -> BOOLEAN]
          /\ attached' \in [SG -> SUBSET Pool]
      BY <1>4 DEF Error, RunsOK
    <2> QED
      BY <1>2, <1>3, <2>1, <2>2 DEF RunsOK
  <1>5. CASE Done(s)
    <2>1. attached' \in [SG -> SUBSET Pool]
      BY <1>5 DEF Done, RunsOK, CallsOK
    <2> QED
      BY <1>2, <1>3, <1>5, <2>1 DEF Done, RunsOK
  <1> QED
    BY <1>4, <1>5

LEMMA PoolEndsTypeOK ==
  ASSUME TypeOK, NEW s \in SG, Error(s) \/ Done(s),
         UNCHANGED <<lt, lock, phase, cluster, seen, conflict>>
  PROVE  RunsOK' /\ CallsOK'
  <1>1. \A p \in Pool : Len(lt'[p]) \in Nat /\ Len(lt[p]) <= Len(lt'[p])
    BY DEF TypeOK, CloudOK
  <1> QED
    BY <1>1, ReturnTypeOK

LEMMA NextTypeOK == TypeOK /\ [Next]_vars => TypeOK'
  <1> SUFFICES ASSUME TypeOK, [Next]_vars PROVE TypeOK'
    OBVIOUS
  <1> USE ConstantsAssumption DEF object_vars, cloud_vars, call_vars, run_vars
  <1>1. ASSUME NEW s \in SG, Reconcile(s) PROVE TypeOK'
    <2>1. InfraClusters(s) \subseteq Cluster
      BY DEF InfraClusters, TypeOK, ObjectsOK
    <2> QED
      BY <1>1, <2>1 DEF TypeOK, ObjectsOK, CloudOK, RunsOK, CallsOK, Reconcile, Step
  <1>2. ASSUME NEW s \in SG, Lock(s) PROVE TypeOK'
    BY <1>2 DEF TypeOK, ObjectsOK, CloudOK, RunsOK, CallsOK, Lock, Step
  <1>3. ASSUME NEW s \in SG, ThenDetachRemoved(s) PROVE TypeOK'
    BY <1>3 DEF TypeOK, ObjectsOK, CloudOK, RunsOK, CallsOK, ThenDetachRemoved
  <1>4. ASSUME NEW s \in SG, Finish(s) PROVE TypeOK'
    BY <1>4 DEF TypeOK, ObjectsOK, CloudOK, RunsOK, CallsOK, Finish, Step
  <1>5. ASSUME NEW s \in SG, Unlock(s) PROVE TypeOK'
    BY <1>5 DEF TypeOK, ObjectsOK, CloudOK, RunsOK, CallsOK, Unlock, Step
  <1>6. ASSUME NEW s \in SG, Save(s) PROVE TypeOK'
    BY <1>6 DEF TypeOK, ObjectsOK, CloudOK, RunsOK, CallsOK, Save, End, Step
  <1>7. ASSUME NEW s \in SG, NEW p \in Pool, DescribeASG(s, p) PROVE TypeOK'
    BY <1>7 DEF TypeOK, ObjectsOK, CloudOK, RunsOK, CallsOK, DescribeASG, Turn, Step, AsgInstances
  <1>8. ASSUME NEW s \in SG, NEW p \in Pool, ListVNGs(s, p) PROVE TypeOK'
    <2>1. Wanted(s, LaunchSpec(p)) \in SUBSET Group
      BY DEF Wanted, WithGroup, StillExisting, WithoutGroup, LaunchSpec, Group, TypeOK, CloudOK
    <2>2. ObjectsOK' /\ CloudOK' /\ edits' \in Nat /\ faults' \in Nat
      BY <1>8 DEF ListVNGs, TypeOK, ObjectsOK, CloudOK
    <2>3. RunsOK'
      BY <1>8 DEF ListVNGs, Turn, Step, TypeOK, RunsOK
    <2>4. CallsOK'
      BY <1>8, <2>1 DEF ListVNGs, Turn, TypeOK, CallsOK, RunsOK
    <2> QED
      BY <2>2, <2>3, <2>4 DEF TypeOK
  <1>9. ASSUME NEW s \in SG, NEW p \in Pool, ListKarpenterInstances(s, p) PROVE TypeOK'
    BY <1>9 DEF TypeOK, ObjectsOK, CloudOK, RunsOK, CallsOK, ListKarpenterInstances, Turn, Step, KarpenterInstances
  <1>10. ASSUME NEW s \in SG, ReadTemplate(s) PROVE TypeOK'
    BY <1>10 DEF TypeOK, ObjectsOK, CloudOK, RunsOK, CallsOK, ReadTemplate, Step, Wanted, WithGroup, StillExisting, WithoutGroup, Latest, Group
  <1>11. ASSUME NEW s \in SG, RefuseBareTemplate(s) PROVE TypeOK'
    <2>1. UNCHANGED <<lt, lock, phase, cluster, seen, conflict>> /\ (Error(s) \/ Done(s))
      BY <1>11 DEF RefuseBareTemplate
    <2>2. RunsOK' /\ CallsOK'
      BY <2>1, PoolEndsTypeOK
    <2>3. ObjectsOK' /\ CloudOK' /\ edits' \in Nat /\ faults' \in Nat
      BY <1>11 DEF RefuseBareTemplate, TypeOK, ObjectsOK, CloudOK
    <2> QED
      BY <2>2, <2>3 DEF TypeOK
  <1>12. ASSUME NEW s \in SG, CreateVersion(s) PROVE TypeOK'
    <2>1. lt' \in [Pool -> Seq(SUBSET Group)]
      BY <1>12 DEF CreateVersion, NewVersion, TypeOK, CloudOK, CallsOK
    <2>2. \A p \in Pool : Len(lt'[p]) = IF p = pool[s] THEN Len(lt[p]) + 1 ELSE Len(lt[p])
      BY <1>12 DEF CreateVersion, NewVersion, TypeOK, CloudOK, CallsOK
    <2>3. \A p \in Pool : Len(lt[p]) \in Nat
      BY DEF TypeOK, CloudOK
    <2>4. CloudOK'
      BY <1>12, <2>1, <2>2, <2>3 DEF CreateVersion, TypeOK, CloudOK
    <2>5. version' = [version EXCEPT ![s] = Len(lt[pool[s]]) + 1] /\ UNCHANGED pool
      BY <1>12 DEF CreateVersion
    <2>6. pc' \in [SG -> Step] /\ \A t \in SG : t # s => pc'[t] = pc[t]
      BY <1>12 DEF CreateVersion, TypeOK, RunsOK, Step
    <2>7. ASSUME NEW t \in SG, pc'[t] = "roll" PROVE version'[t] \in 1..Len(lt'[pool'[t]])
      <3>1. pool'[t] = pool[t] /\ pool[t] \in Pool
        BY <2>5 DEF TypeOK, CallsOK
      <3>2. CASE t = s
        BY <2>2, <2>3, <2>5, <3>1, <3>2 DEF TypeOK, CallsOK
      <3>3. CASE t # s
        <4>1. version'[t] = version[t] /\ version[t] \in 1..Len(lt[pool[t]])
          BY <2>5, <2>6, <2>7, <3>3 DEF TypeOK, CallsOK
        <4>2. Len(lt[pool[t]]) \in Nat /\ Len(lt'[pool[t]]) \in Nat
                /\ Len(lt[pool[t]]) <= Len(lt'[pool[t]])
          BY <2>2, <2>3, <3>1
        <4> QED
          BY <3>1, <4>1, <4>2
      <3> QED
        BY <3>2, <3>3
    <2>8. CallsOK'
      BY <1>12, <2>3, <2>5, <2>7 DEF CreateVersion, TypeOK, CallsOK
    <2> QED
      BY <1>12, <2>4, <2>6, <2>8 DEF CreateVersion, TypeOK, ObjectsOK, RunsOK
  <1>13. ASSUME NEW s \in SG, RollASG(s) PROVE TypeOK'
    BY <1>13 DEF TypeOK, ObjectsOK, CloudOK, RunsOK, CallsOK, RollASG, NewAsgVersion, Step
  <1>14. ASSUME NEW s \in SG, UpdateLaunchSpec(s) PROVE TypeOK'
    BY <1>14 DEF TypeOK, ObjectsOK, CloudOK, RunsOK, CallsOK, UpdateLaunchSpec, NewLaunchSpec, Step
  <1>15. ASSUME NEW s \in SG, DescribeVngInstances(s) PROVE TypeOK'
    BY <1>15 DEF TypeOK, ObjectsOK, CloudOK, RunsOK, CallsOK, DescribeVngInstances, VngInstances, Step
  <1>16. ASSUME NEW s \in SG, DescribeInstances(s) PROVE TypeOK'
    BY <1>16 DEF TypeOK, ObjectsOK, CloudOK, RunsOK, CallsOK, DescribeInstances, ToModify, ToAttach, ToDetach, Step
  <1>17. ASSUME NEW s \in SG, NEW i \in Instance, ModifyInstance(s, i) PROVE TypeOK'
    <2>1. groups' \in [Instance -> SUBSET Group]
      BY <1>17 DEF ModifyInstance, NewGroups, Group, TypeOK, CloudOK, CallsOK
    <2>2. CallsOK'
      BY <1>17 DEF ModifyInstance, TypeOK, CallsOK
    <2>3. ObjectsOK' /\ CloudOK' /\ RunsOK'
      BY <1>17, <2>1 DEF ModifyInstance, TypeOK, ObjectsOK, CloudOK, RunsOK
    <2> QED
      BY <1>17, <2>2, <2>3 DEF ModifyInstance, TypeOK
  <1>18. ASSUME NEW s \in SG, NEW i \in Instance, ModifyRefused(s, i) PROVE TypeOK'
    <2>1. UNCHANGED <<lt, lock, phase, cluster, seen, conflict>> /\ (Error(s) \/ Done(s))
      BY <1>18 DEF ModifyRefused, InstancesFail
    <2>2. RunsOK' /\ CallsOK'
      BY <2>1, PoolEndsTypeOK
    <2>3. ObjectsOK' /\ CloudOK' /\ edits' \in Nat /\ faults' \in Nat
      BY <1>18 DEF ModifyRefused, InstancesFail, TypeOK, ObjectsOK, CloudOK
    <2> QED
      BY <2>2, <2>3 DEF TypeOK
  <1>19. ASSUME NEW s \in SG, PoolDone(s) PROVE TypeOK'
    <2>1. UNCHANGED <<lt, lock, phase, cluster, seen, conflict>> /\ (Error(s) \/ Done(s))
      BY <1>19 DEF PoolDone
    <2>2. RunsOK' /\ CallsOK'
      BY <2>1, PoolEndsTypeOK
    <2>3. ObjectsOK' /\ CloudOK' /\ edits' \in Nat /\ faults' \in Nat
      BY <1>19 DEF PoolDone, TypeOK, ObjectsOK, CloudOK
    <2> QED
      BY <2>2, <2>3 DEF TypeOK
  <1>20. ASSUME NEW s \in SG, NEW p \in Pool, FirstCallFails(s, p) PROVE TypeOK'
    <2>1. RunsOK'
      BY <1>20 DEF FirstCallFails, TypeOK, RunsOK
    <2> QED
      BY <1>20, <2>1 DEF FirstCallFails, Fault, TypeOK, ObjectsOK, CloudOK, CallsOK
  <1>21. ASSUME NEW s \in SG, ReadFails(s) PROVE TypeOK'
    <2>1. UNCHANGED <<lt, lock, phase, cluster, seen, conflict>> /\ (Error(s) \/ Done(s))
      BY <1>21 DEF ReadFails, Fault
    <2>2. RunsOK' /\ CallsOK'
      BY <2>1, PoolEndsTypeOK
    <2>3. ObjectsOK' /\ CloudOK' /\ edits' \in Nat /\ faults' \in Nat
      BY <1>21 DEF ReadFails, Fault, TypeOK, ObjectsOK, CloudOK
    <2> QED
      BY <2>2, <2>3 DEF TypeOK
  <1>22. ASSUME NEW s \in SG, WriteFails(s) PROVE TypeOK'
    <2>1. \/ NewVersion(s) /\ UNCHANGED asg
          \/ UNCHANGED lt /\ pc[s] = "roll" /\ NewAsgVersion(s)
          \/ UNCHANGED <<lt, asg>>
      BY <1>22 DEF WriteFails
    <2>2. lt' \in [Pool -> Seq(SUBSET Group)]
      <3>1. CASE NewVersion(s)
        <4>1. Append(lt[pool[s]], wanted[s]) \in Seq(SUBSET Group)
          BY DEF TypeOK, CloudOK, CallsOK
        <4>2. lt \in [Pool -> Seq(SUBSET Group)]
          BY DEF TypeOK, CloudOK
        <4> QED
          BY <3>1, <4>1, <4>2 DEF NewVersion
      <3>2. CASE UNCHANGED lt
        BY <3>2 DEF TypeOK, CloudOK
      <3> QED
        BY <2>1, <3>1, <3>2
    <2>3. \A p \in Pool : Len(lt'[p]) \in Nat /\ Len(lt[p]) <= Len(lt'[p])
      <3> SUFFICES ASSUME NEW p \in Pool PROVE Len(lt'[p]) \in Nat /\ Len(lt[p]) <= Len(lt'[p])
        OBVIOUS
      <3>1. lt'[p] = lt[p] \/ lt'[p] = Append(lt[p], wanted[s])
        BY <2>1 DEF NewVersion, TypeOK, CloudOK
      <3> QED
        BY <3>1 DEF TypeOK, CloudOK, CallsOK
    <2>4. asg' \in [Pool -> Nat \ {0}] /\ \A p \in Pool : asg'[p] <= Len(lt'[p])
      <3>1. CASE UNCHANGED asg
        BY <2>3, <3>1 DEF TypeOK, CloudOK
      <3>2. CASE UNCHANGED lt /\ pc[s] = "roll" /\ NewAsgVersion(s)
        BY <3>2 DEF NewAsgVersion, TypeOK, CloudOK, CallsOK
      <3> QED
        BY <2>1, <3>1, <3>2
    <2>5. vng' \in [Pool -> SUBSET Group]
      BY <1>22 DEF WriteFails, NewLaunchSpec, TypeOK, CloudOK, CallsOK
    <2>6. ObjectsOK' /\ CloudOK' /\ edits' \in Nat /\ faults' \in Nat
      BY <1>22, <2>2, <2>4, <2>5 DEF WriteFails, Fault, TypeOK, ObjectsOK, CloudOK
    <2>7. Error(s) /\ UNCHANGED <<lock, phase, cluster, seen, conflict>>
      BY <1>22 DEF WriteFails
    <2>8. RunsOK' /\ CallsOK'
      BY <2>3, <2>7, ReturnTypeOK
    <2> QED
      BY <2>6, <2>8 DEF TypeOK
  <1>23. ASSUME NEW s \in SG, InstanceCallFails(s) PROVE TypeOK'
    <2>1. UNCHANGED <<lt, lock, phase, cluster, seen, conflict>> /\ (Error(s) \/ Done(s))
      BY <1>23 DEF InstanceCallFails, InstancesFail
    <2>2. RunsOK' /\ CallsOK'
      BY <2>1, PoolEndsTypeOK
    <2>3. groups' \in [Instance -> SUBSET Group]
      <3>1. CASE UNCHANGED groups
        BY <3>1 DEF TypeOK, CloudOK
      <3>2. ASSUME NEW i \in Instance, NewGroups(s, i)
            PROVE  groups' \in [Instance -> SUBSET Group]
        BY <3>2 DEF NewGroups, Group, TypeOK, CloudOK, CallsOK
      <3> QED
        BY <1>23, <3>1, <3>2 DEF InstanceCallFails, TypeOK, CallsOK
    <2>4. ObjectsOK' /\ CloudOK' /\ edits' \in Nat /\ faults' \in Nat
      BY <1>23, <2>3 DEF InstanceCallFails, InstancesFail, Fault, TypeOK, ObjectsOK, CloudOK
    <2> QED
      BY <2>2, <2>4 DEF TypeOK
  <1>24. ASSUME NEW s \in SG, DeleteFails(s) PROVE TypeOK'
    BY <1>24 DEF TypeOK, ObjectsOK, CloudOK, RunsOK, CallsOK, DeleteFails, Fault, Step
  <1>25. ASSUME NEW s \in SG, GroupNotReady(s) PROVE TypeOK'
    BY <1>25 DEF TypeOK, ObjectsOK, CloudOK, RunsOK, CallsOK, GroupNotReady, Fault, Step
  <1>26. ASSUME NEW s \in SG, SaveFails(s) PROVE TypeOK'
    BY <1>26 DEF TypeOK, ObjectsOK, CloudOK, RunsOK, CallsOK, SaveFails, Fault, End, Step
  <1>27. ASSUME NEW s \in SG, EditSpec(s) PROVE TypeOK'
    <2>1. spec' \in [SG -> SUBSET Pool]
      <3>1. Refs[s] \subseteq Pool
        OBVIOUS
      <3> QED
        BY <1>27, <3>1 DEF EditSpec, TypeOK, ObjectsOK
    <2>2. conflict' \in [SG -> BOOLEAN] /\ edits' \in Nat
      BY <1>27 DEF TypeOK, ObjectsOK, CloudOK, RunsOK, CallsOK, EditSpec
    <2> QED
      BY <1>27, <2>1, <2>2 DEF TypeOK, ObjectsOK, CloudOK, RunsOK, CallsOK, EditSpec
  <1>28. ASSUME NEW s \in SG, DeleteSG(s) PROVE TypeOK'
    BY <1>28 DEF TypeOK, ObjectsOK, CloudOK, RunsOK, CallsOK, DeleteSG
  <1>29. ASSUME NEW s \in SG, DeleteGroup(s) PROVE TypeOK'
    BY <1>29 DEF TypeOK, ObjectsOK, CloudOK, RunsOK, CallsOK, DeleteGroup
  <1>30. ASSUME NEW i \in Instance, Launch(i) PROVE TypeOK'
    BY <1>30 DEF TypeOK, ObjectsOK, CloudOK, RunsOK, CallsOK, Launch, LaunchGroups
  <1>31. ASSUME NEW i \in Instance, ShutDown(i) PROVE TypeOK'
    BY <1>31 DEF TypeOK, ObjectsOK, CloudOK, RunsOK, CallsOK, ShutDown
  <1>32. ASSUME NEW i \in Instance, Terminate(i) PROVE TypeOK'
    BY <1>32 DEF TypeOK, ObjectsOK, CloudOK, RunsOK, CallsOK, Terminate
  <1>33. ASSUME Restart PROVE TypeOK'
    BY <1>33 DEF TypeOK, ObjectsOK, CloudOK, RunsOK, CallsOK, Restart, Fault, Step
  <1>34. CASE UNCHANGED vars
    BY <1>34 DEF TypeOK, ObjectsOK, CloudOK, RunsOK, CallsOK, vars
  <1> QED
    BY <1>1, <1>2, <1>3, <1>4, <1>5, <1>6, <1>7, <1>8, <1>9, <1>10, <1>11, <1>12, <1>13, <1>14, <1>15, <1>16, <1>17, <1>18, <1>19, <1>20, <1>21, <1>22, <1>23, <1>24, <1>25, <1>26, <1>27, <1>28, <1>29, <1>30, <1>31, <1>32, <1>33, <1>34
    DEF Next, Proceed, Fails, User, Aws

-----------------------------------------------------------------------------
(* The mutex.                                                              *)

LEMMA InitLockInv == Init => RefsInv /\ LockInv /\ KindInv
  BY ConstantsAssumption DEF Init, RefsInv, LockInv, KindInv, Working, Locked

LEMMA NextRefsInv == TypeOK /\ RefsInv /\ [Next]_vars => RefsInv'
  <1> SUFFICES ASSUME TypeOK, RefsInv, [Next]_vars PROVE RefsInv'
    OBVIOUS
  <1> USE ConstantsAssumption DEF TypeOK, ObjectsOK, CloudOK, RunsOK, CallsOK, object_vars, cloud_vars, call_vars, run_vars, RefsInv, Working, Step
  <1>1. ASSUME NEW s \in SG, Reconcile(s) PROVE RefsInv'
    BY <1>1 DEF Reconcile, InfraClusters
  <1>2. ASSUME NEW s \in SG, Lock(s) PROVE RefsInv'
    BY <1>2 DEF Lock
  <1>3. ASSUME NEW s \in SG, ThenDetachRemoved(s) PROVE RefsInv'
    BY <1>3 DEF ThenDetachRemoved
  <1>4. ASSUME NEW s \in SG, Finish(s) PROVE RefsInv'
    BY <1>4 DEF Finish
  <1>5. ASSUME NEW s \in SG, Unlock(s) PROVE RefsInv'
    BY <1>5 DEF Unlock
  <1>6. ASSUME NEW s \in SG, Save(s) PROVE RefsInv'
    BY <1>6 DEF Save, End
  <1>7. ASSUME NEW s \in SG, NEW p \in Pool, DescribeASG(s, p) PROVE RefsInv'
    BY <1>7 DEF DescribeASG, Turn, AsgInstances
  <1>8. ASSUME NEW s \in SG, NEW p \in Pool, ListVNGs(s, p) PROVE RefsInv'
    BY <1>8 DEF ListVNGs, LaunchSpec, Turn, Wanted, WithGroup, StillExisting, WithoutGroup
  <1>9. ASSUME NEW s \in SG, NEW p \in Pool, ListKarpenterInstances(s, p) PROVE RefsInv'
    BY <1>9 DEF ListKarpenterInstances, Turn, KarpenterInstances
  <1>10. ASSUME NEW s \in SG, ReadTemplate(s) PROVE RefsInv'
    BY <1>10 DEF ReadTemplate, Wanted, WithGroup, StillExisting, WithoutGroup, Latest
  <1>11. ASSUME NEW s \in SG, RefuseBareTemplate(s) PROVE RefsInv'
    BY <1>11 DEF RefuseBareTemplate, Error, Return
  <1>12. ASSUME NEW s \in SG, CreateVersion(s) PROVE RefsInv'
    BY <1>12 DEF CreateVersion, NewVersion
  <1>13. ASSUME NEW s \in SG, RollASG(s) PROVE RefsInv'
    BY <1>13 DEF RollASG, NewAsgVersion
  <1>14. ASSUME NEW s \in SG, UpdateLaunchSpec(s) PROVE RefsInv'
    BY <1>14 DEF UpdateLaunchSpec, NewLaunchSpec
  <1>15. ASSUME NEW s \in SG, DescribeVngInstances(s) PROVE RefsInv'
    BY <1>15 DEF DescribeVngInstances, VngInstances
  <1>16. ASSUME NEW s \in SG, DescribeInstances(s) PROVE RefsInv'
    BY <1>16 DEF DescribeInstances, ToModify, ToAttach, ToDetach
  <1>17. ASSUME NEW s \in SG, NEW i \in Instance, ModifyInstance(s, i) PROVE RefsInv'
    BY <1>17 DEF ModifyInstance, NewGroups
  <1>18. ASSUME NEW s \in SG, NEW i \in Instance, ModifyRefused(s, i) PROVE RefsInv'
    BY <1>18 DEF ModifyRefused, InstancesFail, Error, Done, Return
  <1>19. ASSUME NEW s \in SG, PoolDone(s) PROVE RefsInv'
    BY <1>19 DEF PoolDone, Done, Return
  <1>20. ASSUME NEW s \in SG, NEW p \in Pool, FirstCallFails(s, p) PROVE RefsInv'
    BY <1>20 DEF FirstCallFails
  <1>21. ASSUME NEW s \in SG, ReadFails(s) PROVE RefsInv'
    BY <1>21 DEF ReadFails, Error, Return
  <1>22. ASSUME NEW s \in SG, WriteFails(s) PROVE RefsInv'
    BY <1>22 DEF WriteFails, NewVersion, NewAsgVersion, NewLaunchSpec, Error, Return
  <1>23. ASSUME NEW s \in SG, InstanceCallFails(s) PROVE RefsInv'
    BY <1>23 DEF InstanceCallFails, InstancesFail, Error, Done, Return, NewGroups
  <1>24. ASSUME NEW s \in SG, DeleteFails(s) PROVE RefsInv'
    BY <1>24 DEF DeleteFails
  <1>25. ASSUME NEW s \in SG, GroupNotReady(s) PROVE RefsInv'
    BY <1>25 DEF GroupNotReady
  <1>26. ASSUME NEW s \in SG, SaveFails(s) PROVE RefsInv'
    BY <1>26 DEF SaveFails, End
  <1>27. ASSUME NEW s \in SG, EditSpec(s) PROVE RefsInv'
    <2>1. \A t \in SG : spec'[t] \subseteq Refs[t]
      BY <1>27 DEF EditSpec
    <2>2. UNCHANGED <<applied, seen, todo, pc, pool>>
      BY <1>27 DEF EditSpec
    <2> QED
      BY <2>1, <2>2
  <1>28. ASSUME NEW s \in SG, DeleteSG(s) PROVE RefsInv'
    BY <1>28 DEF DeleteSG
  <1>29. ASSUME NEW s \in SG, DeleteGroup(s) PROVE RefsInv'
    BY <1>29 DEF DeleteGroup
  <1>30. ASSUME NEW i \in Instance, Launch(i) PROVE RefsInv'
    BY <1>30 DEF Launch
  <1>31. ASSUME NEW i \in Instance, ShutDown(i) PROVE RefsInv'
    BY <1>31 DEF ShutDown
  <1>32. ASSUME NEW i \in Instance, Terminate(i) PROVE RefsInv'
    BY <1>32 DEF Terminate
  <1>33. ASSUME Restart PROVE RefsInv'
    BY <1>33 DEF Restart
  <1>34. CASE UNCHANGED vars
    BY <1>34 DEF vars
  <1> QED
    BY <1>1, <1>2, <1>3, <1>4, <1>5, <1>6, <1>7, <1>8, <1>9, <1>10, <1>11, <1>12, <1>13, <1>14, <1>15, <1>16, <1>17, <1>18, <1>19, <1>20, <1>21, <1>22, <1>23, <1>24, <1>25, <1>26, <1>27, <1>28, <1>29, <1>30, <1>31, <1>32, <1>33, <1>34
    DEF Next, Proceed, Fails, User, Aws

LEMMA NextLockInv == SingleCluster /\ TypeOK /\ RefsInv /\ LockInv /\ [Next]_vars => LockInv'
  <1> SUFFICES ASSUME SingleCluster, TypeOK, RefsInv, LockInv, [Next]_vars PROVE LockInv'
    OBVIOUS
  <1> USE ConstantsAssumption DEF TypeOK, ObjectsOK, CloudOK, RunsOK, CallsOK, object_vars, cloud_vars, call_vars, run_vars, RefsInv, LockInv, Locked, Working, Step
  <1>1. ASSUME NEW s \in SG, Reconcile(s) PROVE LockInv'
    <2>1. PICK c \in InfraClusters(s) : cluster' = [cluster EXCEPT ![s] = c]
      BY <1>1 DEF Reconcile
    <2>2. PICK q \in Refs[s] : c = ClusterOf[q]
      BY <2>1 DEF InfraClusters
    <2>3. \A p \in Refs[s] : ClusterOf[p] = cluster'[s]
      BY <2>1, <2>2 DEF SingleCluster
    <2>4. pc' = [pc EXCEPT ![s] = "lock"] /\ UNCHANGED lock
      BY <1>1 DEF Reconcile
    <2> QED
      BY <2>1, <2>3, <2>4
  <1>2. ASSUME NEW s \in SG, Lock(s) PROVE LockInv'
    BY <1>2 DEF Lock
  <1>3. ASSUME NEW s \in SG, ThenDetachRemoved(s) PROVE LockInv'
    BY <1>3 DEF ThenDetachRemoved
  <1>4. ASSUME NEW s \in SG, Finish(s) PROVE LockInv'
    BY <1>4 DEF Finish
  <1>5. ASSUME NEW s \in SG, Unlock(s) PROVE LockInv'
    BY <1>5 DEF Unlock
  <1>6. ASSUME NEW s \in SG, Save(s) PROVE LockInv'
    BY <1>6 DEF Save, End
  <1>7. ASSUME NEW s \in SG, NEW p \in Pool, DescribeASG(s, p) PROVE LockInv'
    BY <1>7 DEF DescribeASG, Turn, AsgInstances
  <1>8. ASSUME NEW s \in SG, NEW p \in Pool, ListVNGs(s, p) PROVE LockInv'
    BY <1>8 DEF ListVNGs, LaunchSpec, Turn, Wanted, WithGroup, StillExisting, WithoutGroup
  <1>9. ASSUME NEW s \in SG, NEW p \in Pool, ListKarpenterInstances(s, p) PROVE LockInv'
    BY <1>9 DEF ListKarpenterInstances, Turn, KarpenterInstances
  <1>10. ASSUME NEW s \in SG, ReadTemplate(s) PROVE LockInv'
    BY <1>10 DEF ReadTemplate, Wanted, WithGroup, StillExisting, WithoutGroup, Latest
  <1>11. ASSUME NEW s \in SG, RefuseBareTemplate(s) PROVE LockInv'
    BY <1>11 DEF RefuseBareTemplate, Error, Return
  <1>12. ASSUME NEW s \in SG, CreateVersion(s) PROVE LockInv'
    BY <1>12 DEF CreateVersion, NewVersion
  <1>13. ASSUME NEW s \in SG, RollASG(s) PROVE LockInv'
    BY <1>13 DEF RollASG, NewAsgVersion
  <1>14. ASSUME NEW s \in SG, UpdateLaunchSpec(s) PROVE LockInv'
    BY <1>14 DEF UpdateLaunchSpec, NewLaunchSpec
  <1>15. ASSUME NEW s \in SG, DescribeVngInstances(s) PROVE LockInv'
    BY <1>15 DEF DescribeVngInstances, VngInstances
  <1>16. ASSUME NEW s \in SG, DescribeInstances(s) PROVE LockInv'
    BY <1>16 DEF DescribeInstances, ToModify, ToAttach, ToDetach
  <1>17. ASSUME NEW s \in SG, NEW i \in Instance, ModifyInstance(s, i) PROVE LockInv'
    BY <1>17 DEF ModifyInstance, NewGroups
  <1>18. ASSUME NEW s \in SG, NEW i \in Instance, ModifyRefused(s, i) PROVE LockInv'
    BY <1>18 DEF ModifyRefused, InstancesFail, Error, Done, Return
  <1>19. ASSUME NEW s \in SG, PoolDone(s) PROVE LockInv'
    BY <1>19 DEF PoolDone, Done, Return
  <1>20. ASSUME NEW s \in SG, NEW p \in Pool, FirstCallFails(s, p) PROVE LockInv'
    BY <1>20 DEF FirstCallFails
  <1>21. ASSUME NEW s \in SG, ReadFails(s) PROVE LockInv'
    BY <1>21 DEF ReadFails, Error, Return
  <1>22. ASSUME NEW s \in SG, WriteFails(s) PROVE LockInv'
    BY <1>22 DEF WriteFails, NewVersion, NewAsgVersion, NewLaunchSpec, Error, Return
  <1>23. ASSUME NEW s \in SG, InstanceCallFails(s) PROVE LockInv'
    BY <1>23 DEF InstanceCallFails, InstancesFail, Error, Done, Return, NewGroups
  <1>24. ASSUME NEW s \in SG, DeleteFails(s) PROVE LockInv'
    BY <1>24 DEF DeleteFails
  <1>25. ASSUME NEW s \in SG, GroupNotReady(s) PROVE LockInv'
    BY <1>25 DEF GroupNotReady
  <1>26. ASSUME NEW s \in SG, SaveFails(s) PROVE LockInv'
    BY <1>26 DEF SaveFails, End
  <1>27. ASSUME NEW s \in SG, EditSpec(s) PROVE LockInv'
    BY <1>27 DEF EditSpec
  <1>28. ASSUME NEW s \in SG, DeleteSG(s) PROVE LockInv'
    BY <1>28 DEF DeleteSG
  <1>29. ASSUME NEW s \in SG, DeleteGroup(s) PROVE LockInv'
    BY <1>29 DEF DeleteGroup
  <1>30. ASSUME NEW i \in Instance, Launch(i) PROVE LockInv'
    BY <1>30 DEF Launch
  <1>31. ASSUME NEW i \in Instance, ShutDown(i) PROVE LockInv'
    BY <1>31 DEF ShutDown
  <1>32. ASSUME NEW i \in Instance, Terminate(i) PROVE LockInv'
    BY <1>32 DEF Terminate
  <1>33. ASSUME Restart PROVE LockInv'
    BY <1>33 DEF Restart
  <1>34. CASE UNCHANGED vars
    BY <1>34 DEF vars
  <1> QED
    BY <1>1, <1>2, <1>3, <1>4, <1>5, <1>6, <1>7, <1>8, <1>9, <1>10, <1>11, <1>12, <1>13, <1>14, <1>15, <1>16, <1>17, <1>18, <1>19, <1>20, <1>21, <1>22, <1>23, <1>24, <1>25, <1>26, <1>27, <1>28, <1>29, <1>30, <1>31, <1>32, <1>33, <1>34
    DEF Next, Proceed, Fails, User, Aws

LEMMA NextKindInv == TypeOK /\ KindInv /\ [Next]_vars => KindInv'
  <1> SUFFICES ASSUME TypeOK, KindInv, [Next]_vars PROVE KindInv'
    OBVIOUS
  <1> USE ConstantsAssumption DEF TypeOK, ObjectsOK, CloudOK, RunsOK, CallsOK, object_vars, cloud_vars, call_vars, run_vars, KindInv, Step
  <1>1. ASSUME NEW s \in SG, Reconcile(s) PROVE KindInv'
    BY <1>1 DEF Reconcile, InfraClusters
  <1>2. ASSUME NEW s \in SG, Lock(s) PROVE KindInv'
    BY <1>2 DEF Lock
  <1>3. ASSUME NEW s \in SG, ThenDetachRemoved(s) PROVE KindInv'
    BY <1>3 DEF ThenDetachRemoved
  <1>4. ASSUME NEW s \in SG, Finish(s) PROVE KindInv'
    BY <1>4 DEF Finish
  <1>5. ASSUME NEW s \in SG, Unlock(s) PROVE KindInv'
    BY <1>5 DEF Unlock
  <1>6. ASSUME NEW s \in SG, Save(s) PROVE KindInv'
    BY <1>6 DEF Save, End
  <1>7. ASSUME NEW s \in SG, NEW p \in Pool, DescribeASG(s, p) PROVE KindInv'
    BY <1>7 DEF DescribeASG, Turn, AsgInstances
  <1>8. ASSUME NEW s \in SG, NEW p \in Pool, ListVNGs(s, p) PROVE KindInv'
    BY <1>8 DEF ListVNGs, LaunchSpec, Turn, Wanted, WithGroup, StillExisting, WithoutGroup
  <1>9. ASSUME NEW s \in SG, NEW p \in Pool, ListKarpenterInstances(s, p) PROVE KindInv'
    BY <1>9 DEF ListKarpenterInstances, Turn, KarpenterInstances
  <1>10. ASSUME NEW s \in SG, ReadTemplate(s) PROVE KindInv'
    BY <1>10 DEF ReadTemplate, Wanted, WithGroup, StillExisting, WithoutGroup, Latest
  <1>11. ASSUME NEW s \in SG, RefuseBareTemplate(s) PROVE KindInv'
    BY <1>11 DEF RefuseBareTemplate, Error, Return
  <1>12. ASSUME NEW s \in SG, CreateVersion(s) PROVE KindInv'
    BY <1>12 DEF CreateVersion, NewVersion
  <1>13. ASSUME NEW s \in SG, RollASG(s) PROVE KindInv'
    BY <1>13 DEF RollASG, NewAsgVersion
  <1>14. ASSUME NEW s \in SG, UpdateLaunchSpec(s) PROVE KindInv'
    BY <1>14 DEF UpdateLaunchSpec, NewLaunchSpec
  <1>15. ASSUME NEW s \in SG, DescribeVngInstances(s) PROVE KindInv'
    BY <1>15 DEF DescribeVngInstances, VngInstances
  <1>16. ASSUME NEW s \in SG, DescribeInstances(s) PROVE KindInv'
    BY <1>16 DEF DescribeInstances, ToModify, ToAttach, ToDetach
  <1>17. ASSUME NEW s \in SG, NEW i \in Instance, ModifyInstance(s, i) PROVE KindInv'
    BY <1>17 DEF ModifyInstance, NewGroups
  <1>18. ASSUME NEW s \in SG, NEW i \in Instance, ModifyRefused(s, i) PROVE KindInv'
    BY <1>18 DEF ModifyRefused, InstancesFail, Error, Done, Return
  <1>19. ASSUME NEW s \in SG, PoolDone(s) PROVE KindInv'
    BY <1>19 DEF PoolDone, Done, Return
  <1>20. ASSUME NEW s \in SG, NEW p \in Pool, FirstCallFails(s, p) PROVE KindInv'
    BY <1>20 DEF FirstCallFails
  <1>21. ASSUME NEW s \in SG, ReadFails(s) PROVE KindInv'
    BY <1>21 DEF ReadFails, Error, Return
  <1>22. ASSUME NEW s \in SG, WriteFails(s) PROVE KindInv'
    BY <1>22 DEF WriteFails, NewVersion, NewAsgVersion, NewLaunchSpec, Error, Return
  <1>23. ASSUME NEW s \in SG, InstanceCallFails(s) PROVE KindInv'
    BY <1>23 DEF InstanceCallFails, InstancesFail, Error, Done, Return, NewGroups
  <1>24. ASSUME NEW s \in SG, DeleteFails(s) PROVE KindInv'
    BY <1>24 DEF DeleteFails
  <1>25. ASSUME NEW s \in SG, GroupNotReady(s) PROVE KindInv'
    BY <1>25 DEF GroupNotReady
  <1>26. ASSUME NEW s \in SG, SaveFails(s) PROVE KindInv'
    BY <1>26 DEF SaveFails, End
  <1>27. ASSUME NEW s \in SG, EditSpec(s) PROVE KindInv'
    BY <1>27 DEF EditSpec
  <1>28. ASSUME NEW s \in SG, DeleteSG(s) PROVE KindInv'
    BY <1>28 DEF DeleteSG
  <1>29. ASSUME NEW s \in SG, DeleteGroup(s) PROVE KindInv'
    BY <1>29 DEF DeleteGroup
  <1>30. ASSUME NEW i \in Instance, Launch(i) PROVE KindInv'
    BY <1>30 DEF Launch
  <1>31. ASSUME NEW i \in Instance, ShutDown(i) PROVE KindInv'
    BY <1>31 DEF ShutDown
  <1>32. ASSUME NEW i \in Instance, Terminate(i) PROVE KindInv'
    BY <1>32 DEF Terminate
  <1>33. ASSUME Restart PROVE KindInv'
    BY <1>33 DEF Restart
  <1>34. CASE UNCHANGED vars
    BY <1>34 DEF vars
  <1> QED
    BY <1>1, <1>2, <1>3, <1>4, <1>5, <1>6, <1>7, <1>8, <1>9, <1>10, <1>11, <1>12, <1>13, <1>14, <1>15, <1>16, <1>17, <1>18, <1>19, <1>20, <1>21, <1>22, <1>23, <1>24, <1>25, <1>26, <1>27, <1>28, <1>29, <1>30, <1>31, <1>32, <1>33, <1>34
    DEF Next, Proceed, Fails, User, Aws

LEMMA LockExcludes ==
    RefsInv /\ LockInv => OneWriterPerPool
  <1> SUFFICES ASSUME RefsInv, LockInv, NEW s \in SG, NEW t \in SG, s # t,
                      pc[s] \in Working, pc[t] \in Working, pool[s] = pool[t]
               PROVE  FALSE
    BY DEF OneWriterPerPool
  <1>1. pool[s] \in Refs[s] /\ pool[s] \in Refs[t]
    BY DEF RefsInv
  <1>2. pc[s] \in Locked /\ pc[t] \in Locked
    BY DEF Working, Locked
  <1>3. cluster[s] = cluster[t]
    BY <1>1, <1>2 DEF LockInv
  <1>4. lock[cluster[s]] = s /\ lock[cluster[t]] = t
    BY <1>2 DEF LockInv
  <1> QED
    BY <1>3, <1>4


-----------------------------------------------------------------------------
(* What a reconcile read is what it overwrites.                            *)

LEMMA InitFreshInv == Init => FreshInv /\ InstancesInv
  BY ConstantsAssumption DEF Init, FreshInv, Fresh, InstancesInv

\* The launch spec an attach or a detach asks for is the one just read, but for
\* its own group and the groups that no longer exist.
LEMMA ListVNGsFresh ==
  ASSUME TypeOK, FreshInv, NEW s \in SG, NEW p \in Pool, ListVNGs(s, p)
  PROVE  FreshInv'
  <1>1. SameOthers(s, Wanted(s, vng[p]), vng[p])
    BY DEF SameOthers, Wanted, WithGroup, StillExisting, WithoutGroup
  <1>2. UNCHANGED <<existing, asg, lt, vng, asgSeen, version>>
    BY DEF ListVNGs, cloud_vars
  <1>3. pc'[s] \in {"spec", "running", "next"}
    BY DEF ListVNGs, TypeOK, RunsOK
  <1>4. pool'[s] = p /\ wanted'[s] = Wanted(s, vng[p])
    BY DEF ListVNGs, LaunchSpec, Turn, TypeOK, CallsOK
  <1>5. \A t \in SG : t # s => pc'[t] = pc[t] /\ pool'[t] = pool[t] /\ wanted'[t] = wanted[t]
    BY DEF ListVNGs, Turn, TypeOK, RunsOK, CallsOK
  <1>6. Fresh(s)'
    BY <1>1, <1>2, <1>3, <1>4 DEF Fresh, SameOthers
  <1>7. ASSUME NEW t \in SG, t # s PROVE Fresh(t)'
    BY <1>2, <1>5, <1>7 DEF FreshInv, Fresh, SameOthers, Latest
  <1> QED
    BY <1>6, <1>7 DEF FreshInv

LEMMA NextFreshInv == TypeOK /\ KindInv /\ OneWriterPerPool /\ FreshInv /\ [Next]_vars => FreshInv'
  <1> SUFFICES ASSUME TypeOK, KindInv, OneWriterPerPool, FreshInv, [Next]_vars PROVE FreshInv'
    OBVIOUS
  <1> USE ConstantsAssumption DEF TypeOK, ObjectsOK, CloudOK, RunsOK, CallsOK, object_vars, cloud_vars, call_vars, run_vars, KindInv, FreshInv, Fresh, SameOthers, Latest, OneWriterPerPool, Working, Step
  <1>1. ASSUME NEW s \in SG, Reconcile(s) PROVE FreshInv'
    <2>1. /\ pc' = [pc EXCEPT ![s] = "lock"]
          /\ UNCHANGED <<existing, asg, lt, vng, asgSeen, version, wanted, pool>>
      BY <1>1 DEF Reconcile
    <2> QED
      BY <2>1
  <1>2. ASSUME NEW s \in SG, Lock(s) PROVE FreshInv'
    BY <1>2 DEF Lock
  <1>3. ASSUME NEW s \in SG, ThenDetachRemoved(s) PROVE FreshInv'
    BY <1>3 DEF ThenDetachRemoved
  <1>4. ASSUME NEW s \in SG, Finish(s) PROVE FreshInv'
    BY <1>4 DEF Finish
  <1>5. ASSUME NEW s \in SG, Unlock(s) PROVE FreshInv'
    BY <1>5 DEF Unlock
  <1>6. ASSUME NEW s \in SG, Save(s) PROVE FreshInv'
    BY <1>6 DEF Save, End
  <1>7. ASSUME NEW s \in SG, NEW p \in Pool, DescribeASG(s, p) PROVE FreshInv'
    BY <1>7 DEF DescribeASG, Turn, AsgInstances
  <1>8. ASSUME NEW s \in SG, NEW p \in Pool, ListVNGs(s, p) PROVE FreshInv'
    BY <1>8, ListVNGsFresh
  <1>9. ASSUME NEW s \in SG, NEW p \in Pool, ListKarpenterInstances(s, p) PROVE FreshInv'
    BY <1>9 DEF ListKarpenterInstances, Turn, KarpenterInstances
  <1>10. ASSUME NEW s \in SG, ReadTemplate(s) PROVE FreshInv'
    BY <1>10 DEF ReadTemplate, Wanted, WithGroup, StillExisting, WithoutGroup, Latest
  <1>11. ASSUME NEW s \in SG, RefuseBareTemplate(s) PROVE FreshInv'
    BY <1>11 DEF RefuseBareTemplate, Error, Return
  <1>12. ASSUME NEW s \in SG, CreateVersion(s) PROVE FreshInv'
    BY <1>12 DEF CreateVersion, NewVersion
  <1>13. ASSUME NEW s \in SG, RollASG(s) PROVE FreshInv'
    BY <1>13 DEF RollASG, NewAsgVersion
  <1>14. ASSUME NEW s \in SG, UpdateLaunchSpec(s) PROVE FreshInv'
    BY <1>14 DEF UpdateLaunchSpec, NewLaunchSpec
  <1>15. ASSUME NEW s \in SG, DescribeVngInstances(s) PROVE FreshInv'
    BY <1>15 DEF DescribeVngInstances, VngInstances
  <1>16. ASSUME NEW s \in SG, DescribeInstances(s) PROVE FreshInv'
    BY <1>16 DEF DescribeInstances, ToModify, ToAttach, ToDetach
  <1>17. ASSUME NEW s \in SG, NEW i \in Instance, ModifyInstance(s, i) PROVE FreshInv'
    BY <1>17 DEF ModifyInstance, NewGroups
  <1>18. ASSUME NEW s \in SG, NEW i \in Instance, ModifyRefused(s, i) PROVE FreshInv'
    <2>1. Return(s) /\ UNCHANGED <<existing, lt, asg, vng>>
      BY <1>18 DEF ModifyRefused, InstancesFail, Error, Done
    <2> QED
      BY <2>1 DEF Return
  <1>19. ASSUME NEW s \in SG, PoolDone(s) PROVE FreshInv'
    BY <1>19 DEF PoolDone, Done, Return
  <1>20. ASSUME NEW s \in SG, NEW p \in Pool, FirstCallFails(s, p) PROVE FreshInv'
    BY <1>20 DEF FirstCallFails
  <1>21. ASSUME NEW s \in SG, ReadFails(s) PROVE FreshInv'
    BY <1>21 DEF ReadFails, Error, Return
  <1>22. ASSUME NEW s \in SG, WriteFails(s) PROVE FreshInv'
    <2> USE DEF WriteFails, Error, Return
    <2>1. CASE pc[s] = "create" /\ NewVersion(s) /\ UNCHANGED <<asg, vng>>
      BY <1>22, <2>1 DEF NewVersion
    <2>2. CASE pc[s] = "roll" /\ NewAsgVersion(s) /\ UNCHANGED <<lt, vng>>
      BY <1>22, <2>2 DEF NewAsgVersion
    <2>3. CASE pc[s] = "spec" /\ NewLaunchSpec(s) /\ UNCHANGED <<lt, asg>>
      BY <1>22, <2>3 DEF NewLaunchSpec
    <2>4. CASE UNCHANGED <<lt, asg, vng>>
      BY <1>22, <2>4
    <2> QED
      BY <1>22, <2>1, <2>2, <2>3, <2>4
  <1>23. ASSUME NEW s \in SG, InstanceCallFails(s) PROVE FreshInv'
    <2>1. Return(s) /\ UNCHANGED <<existing, lt, asg, vng>>
      BY <1>23 DEF InstanceCallFails, InstancesFail, Error, Done
    <2> QED
      BY <2>1 DEF Return
  <1>24. ASSUME NEW s \in SG, DeleteFails(s) PROVE FreshInv'
    BY <1>24 DEF DeleteFails
  <1>25. ASSUME NEW s \in SG, GroupNotReady(s) PROVE FreshInv'
    BY <1>25 DEF GroupNotReady
  <1>26. ASSUME NEW s \in SG, SaveFails(s) PROVE FreshInv'
    BY <1>26 DEF SaveFails, End
  <1>27. ASSUME NEW s \in SG, EditSpec(s) PROVE FreshInv'
    BY <1>27 DEF EditSpec
  <1>28. ASSUME NEW s \in SG, DeleteSG(s) PROVE FreshInv'
    BY <1>28 DEF DeleteSG
  <1>29. ASSUME NEW s \in SG, DeleteGroup(s) PROVE FreshInv'
    BY <1>29 DEF DeleteGroup
  <1>30. ASSUME NEW i \in Instance, Launch(i) PROVE FreshInv'
    BY <1>30 DEF Launch
  <1>31. ASSUME NEW i \in Instance, ShutDown(i) PROVE FreshInv'
    BY <1>31 DEF ShutDown
  <1>32. ASSUME NEW i \in Instance, Terminate(i) PROVE FreshInv'
    BY <1>32 DEF Terminate
  <1>33. ASSUME Restart PROVE FreshInv'
    BY <1>33 DEF Restart
  <1>34. CASE UNCHANGED vars
    BY <1>34 DEF vars
  <1> QED
    BY <1>1, <1>2, <1>3, <1>4, <1>5, <1>6, <1>7, <1>8, <1>9, <1>10, <1>11, <1>12, <1>13, <1>14, <1>15, <1>16, <1>17, <1>18, <1>19, <1>20, <1>21, <1>22, <1>23, <1>24, <1>25, <1>26, <1>27, <1>28, <1>29, <1>30, <1>31, <1>32, <1>33, <1>34
    DEF Next, Proceed, Fails, User, Aws

LEMMA NextInstancesInv == TypeOK /\ OneWriterPerPool /\ InstancesInv /\ [Next]_vars => InstancesInv'
  <1> SUFFICES ASSUME TypeOK, OneWriterPerPool, InstancesInv, [Next]_vars PROVE InstancesInv'
    OBVIOUS
  <1> USE ConstantsAssumption DEF TypeOK, ObjectsOK, CloudOK, RunsOK, CallsOK, object_vars, cloud_vars, call_vars, run_vars, InstancesInv, OneWriterPerPool, Working, Step
  <1>1. ASSUME NEW s \in SG, Reconcile(s) PROVE InstancesInv'
    BY <1>1 DEF Reconcile, InfraClusters
  <1>2. ASSUME NEW s \in SG, Lock(s) PROVE InstancesInv'
    BY <1>2 DEF Lock
  <1>3. ASSUME NEW s \in SG, ThenDetachRemoved(s) PROVE InstancesInv'
    BY <1>3 DEF ThenDetachRemoved
  <1>4. ASSUME NEW s \in SG, Finish(s) PROVE InstancesInv'
    BY <1>4 DEF Finish
  <1>5. ASSUME NEW s \in SG, Unlock(s) PROVE InstancesInv'
    BY <1>5 DEF Unlock
  <1>6. ASSUME NEW s \in SG, Save(s) PROVE InstancesInv'
    BY <1>6 DEF Save, End
  <1>7. ASSUME NEW s \in SG, NEW p \in Pool, DescribeASG(s, p) PROVE InstancesInv'
    BY <1>7 DEF DescribeASG, Turn, AsgInstances
  <1>8. ASSUME NEW s \in SG, NEW p \in Pool, ListVNGs(s, p) PROVE InstancesInv'
    BY <1>8 DEF ListVNGs, LaunchSpec, Turn, Wanted, WithGroup, StillExisting, WithoutGroup
  <1>9. ASSUME NEW s \in SG, NEW p \in Pool, ListKarpenterInstances(s, p) PROVE InstancesInv'
    BY <1>9 DEF ListKarpenterInstances, Turn, KarpenterInstances
  <1>10. ASSUME NEW s \in SG, ReadTemplate(s) PROVE InstancesInv'
    BY <1>10 DEF ReadTemplate, Wanted, WithGroup, StillExisting, WithoutGroup, Latest
  <1>11. ASSUME NEW s \in SG, RefuseBareTemplate(s) PROVE InstancesInv'
    BY <1>11 DEF RefuseBareTemplate, Error, Return
  <1>12. ASSUME NEW s \in SG, CreateVersion(s) PROVE InstancesInv'
    BY <1>12 DEF CreateVersion, NewVersion
  <1>13. ASSUME NEW s \in SG, RollASG(s) PROVE InstancesInv'
    BY <1>13 DEF RollASG, NewAsgVersion
  <1>14. ASSUME NEW s \in SG, UpdateLaunchSpec(s) PROVE InstancesInv'
    BY <1>14 DEF UpdateLaunchSpec, NewLaunchSpec
  <1>15. ASSUME NEW s \in SG, DescribeVngInstances(s) PROVE InstancesInv'
    BY <1>15 DEF DescribeVngInstances, VngInstances
  <1>16. ASSUME NEW s \in SG, DescribeInstances(s) PROVE InstancesInv'
    BY <1>16 DEF DescribeInstances, ToModify, ToAttach, ToDetach
  <1>17. ASSUME NEW s \in SG, NEW i \in Instance, ModifyInstance(s, i) PROVE InstancesInv'
    BY <1>17 DEF ModifyInstance, NewGroups
  <1>18. ASSUME NEW s \in SG, NEW i \in Instance, ModifyRefused(s, i) PROVE InstancesInv'
    <2>1. Return(s) /\ UNCHANGED <<state, groups>>
      BY <1>18 DEF ModifyRefused, InstancesFail, Error, Done
    <2> QED
      BY <2>1 DEF Return
  <1>19. ASSUME NEW s \in SG, PoolDone(s) PROVE InstancesInv'
    BY <1>19 DEF PoolDone, Done, Return
  <1>20. ASSUME NEW s \in SG, NEW p \in Pool, FirstCallFails(s, p) PROVE InstancesInv'
    BY <1>20 DEF FirstCallFails
  <1>21. ASSUME NEW s \in SG, ReadFails(s) PROVE InstancesInv'
    BY <1>21 DEF ReadFails, Error, Return
  <1>22. ASSUME NEW s \in SG, WriteFails(s) PROVE InstancesInv'
    BY <1>22 DEF WriteFails, NewVersion, NewAsgVersion, NewLaunchSpec, Error, Return
  <1>23. ASSUME NEW s \in SG, InstanceCallFails(s) PROVE InstancesInv'
    <2>1. Return(s) /\ UNCHANGED state
      BY <1>23 DEF InstanceCallFails, InstancesFail, Error, Done
    <2>2. CASE UNCHANGED groups
      BY <2>1, <2>2 DEF Return
    <2>3. ASSUME NEW i \in Instance, pc[s] = "modify", NewGroups(s, i) PROVE InstancesInv'
      BY <2>1, <2>3 DEF Return, NewGroups
    <2> QED
      BY <1>23, <2>2, <2>3 DEF InstanceCallFails
  <1>24. ASSUME NEW s \in SG, DeleteFails(s) PROVE InstancesInv'
    BY <1>24 DEF DeleteFails
  <1>25. ASSUME NEW s \in SG, GroupNotReady(s) PROVE InstancesInv'
    BY <1>25 DEF GroupNotReady
  <1>26. ASSUME NEW s \in SG, SaveFails(s) PROVE InstancesInv'
    BY <1>26 DEF SaveFails, End
  <1>27. ASSUME NEW s \in SG, EditSpec(s) PROVE InstancesInv'
    BY <1>27 DEF EditSpec
  <1>28. ASSUME NEW s \in SG, DeleteSG(s) PROVE InstancesInv'
    BY <1>28 DEF DeleteSG
  <1>29. ASSUME NEW s \in SG, DeleteGroup(s) PROVE InstancesInv'
    BY <1>29 DEF DeleteGroup
  <1>30. ASSUME NEW i \in Instance, Launch(i) PROVE InstancesInv'
    BY <1>30 DEF Launch
  <1>31. ASSUME NEW i \in Instance, ShutDown(i) PROVE InstancesInv'
    BY <1>31 DEF ShutDown
  <1>32. ASSUME NEW i \in Instance, Terminate(i) PROVE InstancesInv'
    BY <1>32 DEF Terminate
  <1>33. ASSUME Restart PROVE InstancesInv'
    BY <1>33 DEF Restart
  <1>34. CASE UNCHANGED vars
    BY <1>34 DEF vars
  <1> QED
    BY <1>1, <1>2, <1>3, <1>4, <1>5, <1>6, <1>7, <1>8, <1>9, <1>10, <1>11, <1>12, <1>13, <1>14, <1>15, <1>16, <1>17, <1>18, <1>19, <1>20, <1>21, <1>22, <1>23, <1>24, <1>25, <1>26, <1>27, <1>28, <1>29, <1>30, <1>31, <1>32, <1>33, <1>34
    DEF Next, Proceed, Fails, User, Aws

-----------------------------------------------------------------------------
(* What is attached stays attached.                                        *)

LEMMA InitAttachInv == Init => AttachInv
  BY DEF Init, AttachInv, Working, Group

LEMMA NextAttachInv == TypeOK /\ KindInv /\ OneWriterPerPool /\ FreshInv /\ AttachInv /\ [Next]_vars => AttachInv'
  <1> SUFFICES ASSUME TypeOK, KindInv, OneWriterPerPool, FreshInv, AttachInv, [Next]_vars PROVE AttachInv'
    OBVIOUS
  <1> USE ConstantsAssumption DEF TypeOK, ObjectsOK, CloudOK, RunsOK, CallsOK, object_vars, cloud_vars, call_vars, run_vars, KindInv, FreshInv, Fresh, SameOthers, Latest, OneWriterPerPool, AttachInv, Carries, Working, Step, Kind
  <1>1. ASSUME NEW s \in SG, Reconcile(s) PROVE AttachInv'
    <2>1. /\ pc' = [pc EXCEPT ![s] = "lock"]
          /\ \A t \in SG : t # s => phase'[t] = phase[t]
          /\ UNCHANGED <<csg, existing, attached, asg, lt, vng, wanted, pool>>
      BY <1>1 DEF Reconcile
    <2> QED
      BY <2>1
  <1>2. ASSUME NEW s \in SG, Lock(s) PROVE AttachInv'
    BY <1>2 DEF Lock
  <1>3. ASSUME NEW s \in SG, ThenDetachRemoved(s) PROVE AttachInv'
    BY <1>3 DEF ThenDetachRemoved
  <1>4. ASSUME NEW s \in SG, Finish(s) PROVE AttachInv'
    BY <1>4 DEF Finish
  <1>5. ASSUME NEW s \in SG, Unlock(s) PROVE AttachInv'
    BY <1>5 DEF Unlock
  <1>6. ASSUME NEW s \in SG, Save(s) PROVE AttachInv'
    BY <1>6 DEF Save, End
  <1>7. ASSUME NEW s \in SG, NEW p \in Pool, DescribeASG(s, p) PROVE AttachInv'
    BY <1>7 DEF DescribeASG, Turn, AsgInstances
  <1>8. ASSUME NEW s \in SG, NEW p \in Pool, ListVNGs(s, p) PROVE AttachInv'
    BY <1>8 DEF ListVNGs, LaunchSpec, Turn, Wanted, WithGroup, StillExisting, WithoutGroup
  <1>9. ASSUME NEW s \in SG, NEW p \in Pool, ListKarpenterInstances(s, p) PROVE AttachInv'
    BY <1>9 DEF ListKarpenterInstances, Turn, KarpenterInstances
  <1>10. ASSUME NEW s \in SG, ReadTemplate(s) PROVE AttachInv'
    BY <1>10 DEF ReadTemplate, Wanted, WithGroup, StillExisting, WithoutGroup, Latest
  <1>11. ASSUME NEW s \in SG, RefuseBareTemplate(s) PROVE AttachInv'
    BY <1>11 DEF RefuseBareTemplate, Error, Return
  <1>12. ASSUME NEW s \in SG, CreateVersion(s) PROVE AttachInv'
    BY <1>12, SMTT(30) DEF CreateVersion, NewVersion
  <1>13. ASSUME NEW s \in SG, RollASG(s) PROVE AttachInv'
    BY <1>13 DEF RollASG, NewAsgVersion
  <1>14. ASSUME NEW s \in SG, UpdateLaunchSpec(s) PROVE AttachInv'
    BY <1>14 DEF UpdateLaunchSpec, NewLaunchSpec
  <1>15. ASSUME NEW s \in SG, DescribeVngInstances(s) PROVE AttachInv'
    BY <1>15 DEF DescribeVngInstances, VngInstances
  <1>16. ASSUME NEW s \in SG, DescribeInstances(s) PROVE AttachInv'
    BY <1>16 DEF DescribeInstances, ToModify, ToAttach, ToDetach
  <1>17. ASSUME NEW s \in SG, NEW i \in Instance, ModifyInstance(s, i) PROVE AttachInv'
    BY <1>17 DEF ModifyInstance, NewGroups
  <1>18. ASSUME NEW s \in SG, NEW i \in Instance, ModifyRefused(s, i) PROVE AttachInv'
    <2>1. /\ pc[s] = "modify" /\ Return(s)
          /\ UNCHANGED <<existing, lt, asg, vng, csg, phase>>
      BY <1>18 DEF ModifyRefused, InstancesFail, Error, Done
    <2>2. CASE UNCHANGED attached
      BY <2>1, <2>2 DEF Return
    <2>3. CASE Done(s)
      BY <2>1, <2>3 DEF Done, Return
    <2> QED
      BY <1>18, <2>2, <2>3 DEF ModifyRefused, InstancesFail, Error
  <1>19. ASSUME NEW s \in SG, PoolDone(s) PROVE AttachInv'
    BY <1>19 DEF PoolDone, Done, Return
  <1>20. ASSUME NEW s \in SG, NEW p \in Pool, FirstCallFails(s, p) PROVE AttachInv'
    BY <1>20 DEF FirstCallFails
  <1>21. ASSUME NEW s \in SG, ReadFails(s) PROVE AttachInv'
    BY <1>21 DEF ReadFails, Error, Return
  <1>22. ASSUME NEW s \in SG, WriteFails(s) PROVE AttachInv'
    <2> USE DEF WriteFails, Error, Return
    <2>1. CASE pc[s] = "create" /\ NewVersion(s) /\ UNCHANGED <<asg, vng>>
      <3>1. pc'[s] = "next" /\ UNCHANGED <<existing, attached, phase, csg, pool>>
        BY <1>22
      <3>2. ASSUME NEW t \in SG, csg[t], NEW p \in attached[t] PROVE Carries(t, p)'
        <4>1. CASE p # pool[s]
          BY <1>22, <2>1, <3>2, <4>1 DEF NewVersion
        <4>2. CASE p = pool[s]
          <5>1. lt'[p] = Append(lt[p], wanted[s])
            BY <2>1, <4>2 DEF NewVersion
          <5>2. asg[p] \in asg[p]..Len(lt[p]) /\ Len(lt[p]) \in asg[p]..Len(lt[p])
            OBVIOUS
          <5>3. t \in wanted[s]
            <6>1. t \in Latest(p)
              BY <2>1, <3>2, <4>2, <5>2
            <6> QED
              BY <2>1, <3>2, <4>2, <6>1
          <5> QED
            BY <2>1, <3>2, <4>2, <5>1, <5>3
        <4> QED
          BY <4>1, <4>2
      <3>3. ASSUME NEW t \in SG, t # s, pc'[t] \in Working
            PROVE  /\ pc'[t] = pc[t] /\ wanted'[t] = wanted[t] /\ pool[t] # pool[s]
                   /\ lt'[pool[t]] = lt[pool[t]]
        <4>1. pc'[t] = pc[t] /\ wanted'[t] = wanted[t]
          BY <1>22, <3>3
        <4> QED
          BY <2>1, <3>3, <4>1 DEF NewVersion
      <3> HIDE DEF WriteFails, Error, Return
      <3> QED
        BY <2>1, <3>1, <3>2, <3>3
    <2>2. CASE pc[s] = "roll" /\ NewAsgVersion(s) /\ UNCHANGED <<lt, vng>>
      BY <1>22, <2>2 DEF NewAsgVersion
    <2>3. CASE pc[s] = "spec" /\ NewLaunchSpec(s) /\ UNCHANGED <<lt, asg>>
      BY <1>22, <2>3 DEF NewLaunchSpec
    <2>4. CASE UNCHANGED <<lt, asg, vng>>
      BY <1>22, <2>4
    <2> QED
      BY <1>22, <2>1, <2>2, <2>3, <2>4
  <1>23. ASSUME NEW s \in SG, InstanceCallFails(s) PROVE AttachInv'
    <2>1. /\ pc[s] \in {"instances", "modify"} /\ Return(s)
          /\ UNCHANGED <<existing, lt, asg, vng, csg, phase>>
      BY <1>23 DEF InstanceCallFails, InstancesFail, Error, Done
    <2>2. CASE UNCHANGED attached
      BY <2>1, <2>2 DEF Return
    <2>3. CASE Done(s)
      BY <2>1, <2>3 DEF Done, Return
    <2> QED
      BY <1>23, <2>2, <2>3 DEF InstanceCallFails, InstancesFail, Error
  <1>24. ASSUME NEW s \in SG, DeleteFails(s) PROVE AttachInv'
    BY <1>24 DEF DeleteFails
  <1>25. ASSUME NEW s \in SG, GroupNotReady(s) PROVE AttachInv'
    BY <1>25 DEF GroupNotReady
  <1>26. ASSUME NEW s \in SG, SaveFails(s) PROVE AttachInv'
    BY <1>26 DEF SaveFails, End
  <1>27. ASSUME NEW s \in SG, EditSpec(s) PROVE AttachInv'
    BY <1>27 DEF EditSpec
  <1>28. ASSUME NEW s \in SG, DeleteSG(s) PROVE AttachInv'
    BY <1>28 DEF DeleteSG
  <1>29. ASSUME NEW s \in SG, DeleteGroup(s) PROVE AttachInv'
    BY <1>29 DEF DeleteGroup
  <1>30. ASSUME NEW i \in Instance, Launch(i) PROVE AttachInv'
    BY <1>30 DEF Launch
  <1>31. ASSUME NEW i \in Instance, ShutDown(i) PROVE AttachInv'
    BY <1>31 DEF ShutDown
  <1>32. ASSUME NEW i \in Instance, Terminate(i) PROVE AttachInv'
    BY <1>32 DEF Terminate
  <1>33. ASSUME Restart PROVE AttachInv'
    BY <1>33 DEF Restart
  <1>34. CASE UNCHANGED vars
    BY <1>34 DEF vars
  <1> HIDE DEF TypeOK, KindInv, FreshInv, OneWriterPerPool, AttachInv
  <1> QED
    BY <1>1, <1>2, <1>3, <1>4, <1>5, <1>6, <1>7, <1>8, <1>9, <1>10, <1>11, <1>12, <1>13, <1>14, <1>15, <1>16, <1>17, <1>18, <1>19, <1>20, <1>21, <1>22, <1>23, <1>24, <1>25, <1>26, <1>27, <1>28, <1>29, <1>30, <1>31, <1>32, <1>33, <1>34
    DEF Next, Proceed, Fails, User, Aws

LEMMA AttachInvStays == TypeOK /\ AttachInv => AttachedStays
  <1> SUFFICES ASSUME TypeOK, AttachInv, NEW s \in SG, csg[s],
                      NEW p \in attached[s], KindOf[p] # "karpenter"
               PROVE  s \in LaunchGroups(p)
    BY DEF AttachedStays
  <1>1. p \in Pool /\ KindOf[p] \in {"asg", "vng"}
    BY ConstantsAssumption DEF TypeOK, RunsOK, Kind
  <1>2. Carries(s, p)
    BY DEF AttachInv
  <1>3. asg[p] \in asg[p]..Len(lt[p])
    BY <1>1 DEF TypeOK, CloudOK
  <1> QED
    BY <1>1, <1>2, <1>3 DEF Carries, LaunchGroups

-----------------------------------------------------------------------------
(* What single steps change.                                               *)

LEMMA OwnMembershipHolds == TypeOK /\ KindInv /\ FreshInv /\ InstancesInv /\ [Next]_vars => OwnMembershipStep
  <1> SUFFICES ASSUME TypeOK, KindInv, FreshInv, InstancesInv, [Next]_vars PROVE OwnMembershipStep
    OBVIOUS
  <1> USE ConstantsAssumption DEF TypeOK, ObjectsOK, CloudOK, RunsOK, CallsOK, object_vars, cloud_vars, call_vars, run_vars, KindInv, FreshInv, Fresh, SameOthers, InstancesInv, OwnMembershipStep, Members, Latest, Working, Step
  <1>1. ASSUME NEW s \in SG, Reconcile(s) PROVE OwnMembershipStep
    BY <1>1 DEF Reconcile, InfraClusters
  <1>2. ASSUME NEW s \in SG, Lock(s) PROVE OwnMembershipStep
    BY <1>2 DEF Lock
  <1>3. ASSUME NEW s \in SG, ThenDetachRemoved(s) PROVE OwnMembershipStep
    BY <1>3 DEF ThenDetachRemoved
  <1>4. ASSUME NEW s \in SG, Finish(s) PROVE OwnMembershipStep
    BY <1>4 DEF Finish
  <1>5. ASSUME NEW s \in SG, Unlock(s) PROVE OwnMembershipStep
    BY <1>5 DEF Unlock
  <1>6. ASSUME NEW s \in SG, Save(s) PROVE OwnMembershipStep
    BY <1>6 DEF Save, End
  <1>7. ASSUME NEW s \in SG, NEW p \in Pool, DescribeASG(s, p) PROVE OwnMembershipStep
    BY <1>7 DEF DescribeASG, Turn, AsgInstances
  <1>8. ASSUME NEW s \in SG, NEW p \in Pool, ListVNGs(s, p) PROVE OwnMembershipStep
    BY <1>8 DEF ListVNGs, LaunchSpec, Turn, Wanted, WithGroup, StillExisting, WithoutGroup
  <1>9. ASSUME NEW s \in SG, NEW p \in Pool, ListKarpenterInstances(s, p) PROVE OwnMembershipStep
    BY <1>9 DEF ListKarpenterInstances, Turn, KarpenterInstances
  <1>10. ASSUME NEW s \in SG, ReadTemplate(s) PROVE OwnMembershipStep
    BY <1>10 DEF ReadTemplate, Wanted, WithGroup, StillExisting, WithoutGroup, Latest
  <1>11. ASSUME NEW s \in SG, RefuseBareTemplate(s) PROVE OwnMembershipStep
    BY <1>11 DEF RefuseBareTemplate, Error, Return
  <1>12. ASSUME NEW s \in SG, CreateVersion(s) PROVE OwnMembershipStep
    BY <1>12 DEF CreateVersion, NewVersion
  <1>13. ASSUME NEW s \in SG, RollASG(s) PROVE OwnMembershipStep
    BY <1>13 DEF RollASG, NewAsgVersion
  <1>14. ASSUME NEW s \in SG, UpdateLaunchSpec(s) PROVE OwnMembershipStep
    BY <1>14 DEF UpdateLaunchSpec, NewLaunchSpec
  <1>15. ASSUME NEW s \in SG, DescribeVngInstances(s) PROVE OwnMembershipStep
    BY <1>15 DEF DescribeVngInstances, VngInstances
  <1>16. ASSUME NEW s \in SG, DescribeInstances(s) PROVE OwnMembershipStep
    BY <1>16 DEF DescribeInstances, ToModify, ToAttach, ToDetach
  <1>17. ASSUME NEW s \in SG, NEW i \in Instance, ModifyInstance(s, i) PROVE OwnMembershipStep
    BY <1>17 DEF ModifyInstance, NewGroups
  <1>18. ASSUME NEW s \in SG, NEW i \in Instance, ModifyRefused(s, i) PROVE OwnMembershipStep
    BY <1>18 DEF ModifyRefused, InstancesFail, Error, Done, Return
  <1>19. ASSUME NEW s \in SG, PoolDone(s) PROVE OwnMembershipStep
    BY <1>19 DEF PoolDone, Done, Return
  <1>20. ASSUME NEW s \in SG, NEW p \in Pool, FirstCallFails(s, p) PROVE OwnMembershipStep
    BY <1>20 DEF FirstCallFails
  <1>21. ASSUME NEW s \in SG, ReadFails(s) PROVE OwnMembershipStep
    BY <1>21 DEF ReadFails, Error, Return
  <1>22. ASSUME NEW s \in SG, WriteFails(s) PROVE OwnMembershipStep
    <2> USE DEF WriteFails, Error, Return
    <2>1. CASE pc[s] = "create" /\ NewVersion(s) /\ UNCHANGED <<asg, vng>>
      BY <1>22, <2>1 DEF NewVersion
    <2>2. CASE pc[s] = "roll" /\ NewAsgVersion(s) /\ UNCHANGED <<lt, vng>>
      BY <1>22, <2>2 DEF NewAsgVersion
    <2>3. CASE pc[s] = "spec" /\ NewLaunchSpec(s) /\ UNCHANGED <<lt, asg>>
      BY <1>22, <2>3 DEF NewLaunchSpec
    <2>4. CASE UNCHANGED <<lt, asg, vng>>
      BY <1>22, <2>4
    <2> QED
      BY <1>22, <2>1, <2>2, <2>3, <2>4
  <1>23. ASSUME NEW s \in SG, InstanceCallFails(s) PROVE OwnMembershipStep
    <2>1. Return(s) /\ UNCHANGED <<lt, vng>>
      BY <1>23 DEF InstanceCallFails, InstancesFail, Error, Done
    <2>2. CASE UNCHANGED groups
      BY <2>1, <2>2 DEF Return
    <2>3. ASSUME NEW i \in Instance, pc[s] = "modify", NewGroups(s, i)
          PROVE  OwnMembershipStep
      BY <2>1, <2>3 DEF Return, NewGroups
    <2> QED
      BY <1>23, <2>2, <2>3 DEF InstanceCallFails
  <1>24. ASSUME NEW s \in SG, DeleteFails(s) PROVE OwnMembershipStep
    BY <1>24 DEF DeleteFails
  <1>25. ASSUME NEW s \in SG, GroupNotReady(s) PROVE OwnMembershipStep
    BY <1>25 DEF GroupNotReady
  <1>26. ASSUME NEW s \in SG, SaveFails(s) PROVE OwnMembershipStep
    BY <1>26 DEF SaveFails, End
  <1>27. ASSUME NEW s \in SG, EditSpec(s) PROVE OwnMembershipStep
    BY <1>27 DEF EditSpec
  <1>28. ASSUME NEW s \in SG, DeleteSG(s) PROVE OwnMembershipStep
    BY <1>28 DEF DeleteSG
  <1>29. ASSUME NEW s \in SG, DeleteGroup(s) PROVE OwnMembershipStep
    BY <1>29 DEF DeleteGroup
  <1>30. ASSUME NEW i \in Instance, Launch(i) PROVE OwnMembershipStep
    BY <1>30 DEF Launch
  <1>31. ASSUME NEW i \in Instance, ShutDown(i) PROVE OwnMembershipStep
    BY <1>31 DEF ShutDown
  <1>32. ASSUME NEW i \in Instance, Terminate(i) PROVE OwnMembershipStep
    BY <1>32 DEF Terminate
  <1>33. ASSUME Restart PROVE OwnMembershipStep
    BY <1>33 DEF Restart
  <1>34. CASE UNCHANGED vars
    BY <1>34 DEF vars
  <1> QED
    BY <1>1, <1>2, <1>3, <1>4, <1>5, <1>6, <1>7, <1>8, <1>9, <1>10, <1>11, <1>12, <1>13, <1>14, <1>15, <1>16, <1>17, <1>18, <1>19, <1>20, <1>21, <1>22, <1>23, <1>24, <1>25, <1>26, <1>27, <1>28, <1>29, <1>30, <1>31, <1>32, <1>33, <1>34
    DEF Next, Proceed, Fails, User, Aws

LEMMA NotRolledBackHolds == TypeOK /\ FreshInv /\ [Next]_vars => NotRolledBackStep
  <1> SUFFICES ASSUME TypeOK, FreshInv, [Next]_vars PROVE NotRolledBackStep
    OBVIOUS
  <1> USE ConstantsAssumption DEF TypeOK, ObjectsOK, CloudOK, RunsOK, CallsOK, object_vars, cloud_vars, call_vars, run_vars, FreshInv, Fresh, NotRolledBackStep, Step
  <1>1. ASSUME NEW s \in SG, Reconcile(s) PROVE NotRolledBackStep
    BY <1>1 DEF Reconcile, InfraClusters
  <1>2. ASSUME NEW s \in SG, Lock(s) PROVE NotRolledBackStep
    BY <1>2 DEF Lock
  <1>3. ASSUME NEW s \in SG, ThenDetachRemoved(s) PROVE NotRolledBackStep
    BY <1>3 DEF ThenDetachRemoved
  <1>4. ASSUME NEW s \in SG, Finish(s) PROVE NotRolledBackStep
    BY <1>4 DEF Finish
  <1>5. ASSUME NEW s \in SG, Unlock(s) PROVE NotRolledBackStep
    BY <1>5 DEF Unlock
  <1>6. ASSUME NEW s \in SG, Save(s) PROVE NotRolledBackStep
    BY <1>6 DEF Save, End
  <1>7. ASSUME NEW s \in SG, NEW p \in Pool, DescribeASG(s, p) PROVE NotRolledBackStep
    BY <1>7 DEF DescribeASG, Turn, AsgInstances
  <1>8. ASSUME NEW s \in SG, NEW p \in Pool, ListVNGs(s, p) PROVE NotRolledBackStep
    BY <1>8 DEF ListVNGs, LaunchSpec, Turn, Wanted, WithGroup, StillExisting, WithoutGroup
  <1>9. ASSUME NEW s \in SG, NEW p \in Pool, ListKarpenterInstances(s, p) PROVE NotRolledBackStep
    BY <1>9 DEF ListKarpenterInstances, Turn, KarpenterInstances
  <1>10. ASSUME NEW s \in SG, ReadTemplate(s) PROVE NotRolledBackStep
    BY <1>10 DEF ReadTemplate, Wanted, WithGroup, StillExisting, WithoutGroup, Latest
  <1>11. ASSUME NEW s \in SG, RefuseBareTemplate(s) PROVE NotRolledBackStep
    BY <1>11 DEF RefuseBareTemplate, Error, Return
  <1>12. ASSUME NEW s \in SG, CreateVersion(s) PROVE NotRolledBackStep
    BY <1>12 DEF CreateVersion, NewVersion
  <1>13. ASSUME NEW s \in SG, RollASG(s) PROVE NotRolledBackStep
    BY <1>13 DEF RollASG, NewAsgVersion
  <1>14. ASSUME NEW s \in SG, UpdateLaunchSpec(s) PROVE NotRolledBackStep
    BY <1>14 DEF UpdateLaunchSpec, NewLaunchSpec
  <1>15. ASSUME NEW s \in SG, DescribeVngInstances(s) PROVE NotRolledBackStep
    BY <1>15 DEF DescribeVngInstances, VngInstances
  <1>16. ASSUME NEW s \in SG, DescribeInstances(s) PROVE NotRolledBackStep
    BY <1>16 DEF DescribeInstances, ToModify, ToAttach, ToDetach
  <1>17. ASSUME NEW s \in SG, NEW i \in Instance, ModifyInstance(s, i) PROVE NotRolledBackStep
    BY <1>17 DEF ModifyInstance, NewGroups
  <1>18. ASSUME NEW s \in SG, NEW i \in Instance, ModifyRefused(s, i) PROVE NotRolledBackStep
    BY <1>18 DEF ModifyRefused, InstancesFail, Error, Done, Return
  <1>19. ASSUME NEW s \in SG, PoolDone(s) PROVE NotRolledBackStep
    BY <1>19 DEF PoolDone, Done, Return
  <1>20. ASSUME NEW s \in SG, NEW p \in Pool, FirstCallFails(s, p) PROVE NotRolledBackStep
    BY <1>20 DEF FirstCallFails
  <1>21. ASSUME NEW s \in SG, ReadFails(s) PROVE NotRolledBackStep
    BY <1>21 DEF ReadFails, Error, Return
  <1>22. ASSUME NEW s \in SG, WriteFails(s) PROVE NotRolledBackStep
    <2> USE DEF WriteFails, Error, Return
    <2>1. CASE pc[s] = "create" /\ NewVersion(s) /\ UNCHANGED <<asg, vng>>
      BY <1>22, <2>1 DEF NewVersion
    <2>2. CASE pc[s] = "roll" /\ NewAsgVersion(s) /\ UNCHANGED <<lt, vng>>
      BY <1>22, <2>2 DEF NewAsgVersion
    <2>3. CASE pc[s] = "spec" /\ NewLaunchSpec(s) /\ UNCHANGED <<lt, asg>>
      BY <1>22, <2>3 DEF NewLaunchSpec
    <2>4. CASE UNCHANGED <<lt, asg, vng>>
      BY <1>22, <2>4
    <2> QED
      BY <1>22, <2>1, <2>2, <2>3, <2>4
  <1>23. ASSUME NEW s \in SG, InstanceCallFails(s) PROVE NotRolledBackStep
    BY <1>23 DEF InstanceCallFails, InstancesFail, Error, Done, Return, NewGroups
  <1>24. ASSUME NEW s \in SG, DeleteFails(s) PROVE NotRolledBackStep
    BY <1>24 DEF DeleteFails
  <1>25. ASSUME NEW s \in SG, GroupNotReady(s) PROVE NotRolledBackStep
    BY <1>25 DEF GroupNotReady
  <1>26. ASSUME NEW s \in SG, SaveFails(s) PROVE NotRolledBackStep
    BY <1>26 DEF SaveFails, End
  <1>27. ASSUME NEW s \in SG, EditSpec(s) PROVE NotRolledBackStep
    BY <1>27 DEF EditSpec
  <1>28. ASSUME NEW s \in SG, DeleteSG(s) PROVE NotRolledBackStep
    BY <1>28 DEF DeleteSG
  <1>29. ASSUME NEW s \in SG, DeleteGroup(s) PROVE NotRolledBackStep
    BY <1>29 DEF DeleteGroup
  <1>30. ASSUME NEW i \in Instance, Launch(i) PROVE NotRolledBackStep
    BY <1>30 DEF Launch
  <1>31. ASSUME NEW i \in Instance, ShutDown(i) PROVE NotRolledBackStep
    BY <1>31 DEF ShutDown
  <1>32. ASSUME NEW i \in Instance, Terminate(i) PROVE NotRolledBackStep
    BY <1>32 DEF Terminate
  <1>33. ASSUME Restart PROVE NotRolledBackStep
    BY <1>33 DEF Restart
  <1>34. CASE UNCHANGED vars
    BY <1>34 DEF vars
  <1> QED
    BY <1>1, <1>2, <1>3, <1>4, <1>5, <1>6, <1>7, <1>8, <1>9, <1>10, <1>11, <1>12, <1>13, <1>14, <1>15, <1>16, <1>17, <1>18, <1>19, <1>20, <1>21, <1>22, <1>23, <1>24, <1>25, <1>26, <1>27, <1>28, <1>29, <1>30, <1>31, <1>32, <1>33, <1>34
    DEF Next, Proceed, Fails, User, Aws

-----------------------------------------------------------------------------
(* The lock is not left behind, whatever the clusters of the references.   *)

LEMMA NextNoLockLeaked == TypeOK /\ NoLockLeaked /\ [Next]_vars => NoLockLeaked'
  <1> SUFFICES ASSUME TypeOK, NoLockLeaked, [Next]_vars PROVE NoLockLeaked'
    OBVIOUS
  <1> USE ConstantsAssumption DEF TypeOK, ObjectsOK, CloudOK, RunsOK, CallsOK, object_vars, cloud_vars, call_vars, run_vars, NoLockLeaked, Locked, Step
  <1>1. ASSUME NEW s \in SG, Reconcile(s) PROVE NoLockLeaked'
    BY <1>1 DEF Reconcile
  <1>2. ASSUME NEW s \in SG, Lock(s) PROVE NoLockLeaked'
    BY <1>2 DEF Lock
  <1>3. ASSUME NEW s \in SG, ThenDetachRemoved(s) PROVE NoLockLeaked'
    BY <1>3 DEF ThenDetachRemoved
  <1>4. ASSUME NEW s \in SG, Finish(s) PROVE NoLockLeaked'
    BY <1>4 DEF Finish
  <1>5. ASSUME NEW s \in SG, Unlock(s) PROVE NoLockLeaked'
    BY <1>5 DEF Unlock
  <1>6. ASSUME NEW s \in SG, Save(s) PROVE NoLockLeaked'
    BY <1>6 DEF Save, End
  <1>7. ASSUME NEW s \in SG, NEW p \in Pool, DescribeASG(s, p) PROVE NoLockLeaked'
    BY <1>7 DEF DescribeASG, Turn, AsgInstances
  <1>8. ASSUME NEW s \in SG, NEW p \in Pool, ListVNGs(s, p) PROVE NoLockLeaked'
    BY <1>8 DEF ListVNGs, LaunchSpec, Turn, Wanted, WithGroup, StillExisting, WithoutGroup
  <1>9. ASSUME NEW s \in SG, NEW p \in Pool, ListKarpenterInstances(s, p) PROVE NoLockLeaked'
    BY <1>9 DEF ListKarpenterInstances, Turn, KarpenterInstances
  <1>10. ASSUME NEW s \in SG, ReadTemplate(s) PROVE NoLockLeaked'
    BY <1>10 DEF ReadTemplate, Wanted, WithGroup, StillExisting, WithoutGroup, Latest
  <1>11. ASSUME NEW s \in SG, RefuseBareTemplate(s) PROVE NoLockLeaked'
    BY <1>11 DEF RefuseBareTemplate, Error, Return
  <1>12. ASSUME NEW s \in SG, CreateVersion(s) PROVE NoLockLeaked'
    BY <1>12 DEF CreateVersion, NewVersion
  <1>13. ASSUME NEW s \in SG, RollASG(s) PROVE NoLockLeaked'
    BY <1>13 DEF RollASG, NewAsgVersion
  <1>14. ASSUME NEW s \in SG, UpdateLaunchSpec(s) PROVE NoLockLeaked'
    BY <1>14 DEF UpdateLaunchSpec, NewLaunchSpec
  <1>15. ASSUME NEW s \in SG, DescribeVngInstances(s) PROVE NoLockLeaked'
    BY <1>15 DEF DescribeVngInstances, VngInstances
  <1>16. ASSUME NEW s \in SG, DescribeInstances(s) PROVE NoLockLeaked'
    BY <1>16 DEF DescribeInstances, ToModify, ToAttach, ToDetach
  <1>17. ASSUME NEW s \in SG, NEW i \in Instance, ModifyInstance(s, i) PROVE NoLockLeaked'
    BY <1>17 DEF ModifyInstance, NewGroups
  <1>18. ASSUME NEW s \in SG, NEW i \in Instance, ModifyRefused(s, i) PROVE NoLockLeaked'
    <2>1. pc' = [pc EXCEPT ![s] = "next"] /\ UNCHANGED <<lock, cluster>>
      BY <1>18 DEF ModifyRefused, InstancesFail, Error, Done, Return
    <2> QED
      BY <2>1, <1>18 DEF ModifyRefused
  <1>19. ASSUME NEW s \in SG, PoolDone(s) PROVE NoLockLeaked'
    BY <1>19 DEF PoolDone, Done, Return
  <1>20. ASSUME NEW s \in SG, NEW p \in Pool, FirstCallFails(s, p) PROVE NoLockLeaked'
    BY <1>20 DEF FirstCallFails
  <1>21. ASSUME NEW s \in SG, ReadFails(s) PROVE NoLockLeaked'
    BY <1>21 DEF ReadFails, Error, Return
  <1>22. ASSUME NEW s \in SG, WriteFails(s) PROVE NoLockLeaked'
    BY <1>22 DEF WriteFails, NewVersion, NewAsgVersion, NewLaunchSpec, Error, Return
  <1>23. ASSUME NEW s \in SG, InstanceCallFails(s) PROVE NoLockLeaked'
    <2>1. pc' = [pc EXCEPT ![s] = "next"] /\ UNCHANGED <<lock, cluster>>
      BY <1>23 DEF InstanceCallFails, InstancesFail, Error, Done, Return
    <2> QED
      BY <2>1, <1>23 DEF InstanceCallFails
  <1>24. ASSUME NEW s \in SG, DeleteFails(s) PROVE NoLockLeaked'
    BY <1>24 DEF DeleteFails
  <1>25. ASSUME NEW s \in SG, GroupNotReady(s) PROVE NoLockLeaked'
    BY <1>25 DEF GroupNotReady
  <1>26. ASSUME NEW s \in SG, SaveFails(s) PROVE NoLockLeaked'
    BY <1>26 DEF SaveFails, End
  <1>27. ASSUME NEW s \in SG, EditSpec(s) PROVE NoLockLeaked'
    BY <1>27 DEF EditSpec
  <1>28. ASSUME NEW s \in SG, DeleteSG(s) PROVE NoLockLeaked'
    BY <1>28 DEF DeleteSG
  <1>29. ASSUME NEW s \in SG, DeleteGroup(s) PROVE NoLockLeaked'
    BY <1>29 DEF DeleteGroup
  <1>30. ASSUME NEW i \in Instance, Launch(i) PROVE NoLockLeaked'
    BY <1>30 DEF Launch
  <1>31. ASSUME NEW i \in Instance, ShutDown(i) PROVE NoLockLeaked'
    BY <1>31 DEF ShutDown
  <1>32. ASSUME NEW i \in Instance, Terminate(i) PROVE NoLockLeaked'
    BY <1>32 DEF Terminate
  <1>33. ASSUME Restart PROVE NoLockLeaked'
    BY <1>33 DEF Restart
  <1>34. CASE UNCHANGED vars
    BY <1>34 DEF vars
  <1> QED
    BY <1>1, <1>2, <1>3, <1>4, <1>5, <1>6, <1>7, <1>8, <1>9, <1>10, <1>11, <1>12, <1>13, <1>14, <1>15, <1>16, <1>17, <1>18, <1>19, <1>20, <1>21, <1>22, <1>23, <1>24, <1>25, <1>26, <1>27, <1>28, <1>29, <1>30, <1>31, <1>32, <1>33, <1>34
    DEF Next, Proceed, Fails, User, Aws

-----------------------------------------------------------------------------
(* The theorems.                                                           *)

\* Every variable keeps its type; no template or Auto Scaling group refers to a
\* version that does not exist.
THEOREM TypeCorrect == Spec => []TypeOK
  <1>1. Init => TypeOK
    BY InitTypeOK
  <1>2. TypeOK /\ [Next]_vars => TypeOK'
    BY NextTypeOK
  <1> QED
    BY <1>1, <1>2, PTL DEF Spec

\* The inductive invariant, when no SecurityGroup references two clusters.
LEMMA Invariance == ASSUME SingleCluster PROVE Spec => []Inv
  <1>1. Init => Inv
    BY InitTypeOK, InitLockInv, InitFreshInv, InitAttachInv DEF Inv
  <1>2. Inv /\ [Next]_vars => Inv'
    BY SingleCluster, NextTypeOK, NextRefsInv, NextLockInv, NextKindInv, NextFreshInv,
       NextInstancesInv, NextAttachInv, LockExcludes DEF Inv
  <1> QED
    BY <1>1, <1>2, PTL DEF Spec

\* The mutex of the cluster keeps reconciles off each other's pools.
THEOREM MutualExclusion == ASSUME SingleCluster PROVE Spec => []OneWriterPerPool
  <1>1. Inv => OneWriterPerPool
    BY LockExcludes DEF Inv
  <1> QED
    BY <1>1, Invariance, PTL

\* No reconcile leaves the lock of a cluster behind, even one whose references
\* are of several clusters.
THEOREM LockReturned == Spec => []NoLockLeaked
  <1>1. Init => NoLockLeaked
    BY DEF Init, NoLockLeaked
  <1>2. TypeOK /\ NoLockLeaked /\ [Next]_vars => NoLockLeaked'
    BY NextNoLockLeaked
  <1> QED
    BY <1>1, <1>2, TypeCorrect, PTL DEF Spec

\* What a reconcile has attached stays, whatever other reconciles, their failed
\* calls and restarts of the operator do to the same template.
THEOREM AttachmentsKept == ASSUME SingleCluster PROVE Spec => []AttachedStays
  <1>1. Inv => AttachedStays
    BY AttachInvStays DEF Inv
  <1> QED
    BY <1>1, Invariance, PTL

\* No update of a template, a launch spec or an instance is lost.
THEOREM NoLostUpdate == ASSUME SingleCluster PROVE Spec => OwnMembershipOnly
  <1>1. Inv /\ [Next]_vars => OwnMembershipStep
    BY OwnMembershipHolds DEF Inv
  <1> QED
    BY <1>1, Invariance, PTL DEF Spec, OwnMembershipOnly

\* An Auto Scaling group never returns to an older version.
THEOREM VersionsAdvance == ASSUME SingleCluster PROVE Spec => NeverRolledBack
  <1>1. Inv /\ [Next]_vars => NotRolledBackStep
    BY NotRolledBackHolds DEF Inv
  <1> QED
    BY <1>1, Invariance, PTL DEF Spec, NeverRolledBack

=============================================================================
