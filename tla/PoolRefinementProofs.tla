------------------------ MODULE PoolRefinementProofs ------------------------
(***************************************************************************)
(* PoolAttachment implements PoolGroups, for every set of SecurityGroups,  *)
(* pools, clusters and instances and every bound on edits and faults.      *)
(***************************************************************************)
EXTENDS PoolAttachmentProofs

\* What the abstract state is made of.
refined_vars == <<existing, lt, asg, vng, attached, csg>>

LEMMA InitRefines == Init => Groups!Init
  <1> SUFFICES ASSUME Init PROVE Groups!Init
    OBVIOUS
  <1>1. LatestOf = [p \in Pool |-> {}]
    BY ConstantsAssumption DEF Init, LatestOf, Members, Latest, InitGroups, Group
  <1>2. LaunchedOf = [p \in Pool |-> {}]
    BY ConstantsAssumption DEF Init, LaunchedOf, LaunchGroups, InitGroups, Group
  <1>3. HeldOf = [s \in SG |-> {}]
    BY DEF Init, HeldOf
  <1> QED
    BY <1>1, <1>2, <1>3 DEF Groups!Init

LEMMA StutterRefines == UNCHANGED refined_vars => UNCHANGED Groups!vars
  <1> SUFFICES ASSUME UNCHANGED refined_vars PROVE UNCHANGED Groups!vars
    OBVIOUS
  <1>1. LatestOf' = LatestOf
    BY DEF refined_vars, LatestOf, Members, Latest
  <1>2. LaunchedOf' = LaunchedOf
    BY DEF refined_vars, LaunchedOf, LaunchGroups
  <1>3. HeldOf' = HeldOf
    BY DEF refined_vars, HeldOf
  <1> QED
    BY <1>1, <1>2, <1>3 DEF Groups!vars

\* The configurations do not change.
LEMMA SameConfigurations ==
  ASSUME UNCHANGED <<existing, lt, asg, vng>>
  PROVE  LatestOf' = LatestOf /\ LaunchedOf' = LaunchedOf
  BY DEF LatestOf, LaunchedOf, Members, Latest, LaunchGroups

\* A SecurityGroup vouches for fewer pools, or its Crossplane SecurityGroup goes.
LEMMA LetGoRefines ==
  ASSUME TypeOK, NEW s \in SG, UNCHANGED <<existing, lt, asg, vng>>,
         \E rest \in SUBSET attached[s] : attached' = [attached EXCEPT ![s] = rest],
         \E exists \in BOOLEAN : /\ csg' = [csg EXCEPT ![s] = exists]
                                 /\ exists => csg[s]
  PROVE  Groups!LetGo(s)
  <1> USE DEF TypeOK, ObjectsOK, RunsOK
  <1>1. /\ attached'[s] \subseteq attached[s] /\ csg'[s] => csg[s]
        /\ \A t \in SG : t # s => attached'[t] = attached[t] /\ csg'[t] = csg[t]
    OBVIOUS
  <1>2. HeldOf'[s] \subseteq HeldOf[s]
    BY <1>1 DEF HeldOf
  <1>3. \A t \in SG : t # s => HeldOf'[t] = HeldOf[t]
    BY <1>1 DEF HeldOf
  <1>4. PICK rest \in SUBSET HeldOf[s] : rest = HeldOf'[s]
    BY <1>2
  <1>5. /\ HeldOf = [t \in SG |-> HeldOf[t]]
        /\ HeldOf' = [t \in SG |-> HeldOf'[t]]
    BY DEF HeldOf
  <1>6. HeldOf' = [HeldOf EXCEPT ![s] = rest]
    <2> HIDE DEF HeldOf
    <2> QED
      BY <1>3, <1>4, <1>5
  <1> QED
    BY <1>4, <1>6, SameConfigurations DEF Groups!LetGo

\* The attach of a pool returns nil, or its detach does.
LEMMA DoneRefines ==
  ASSUME TypeOK, AttachInv, NEW s \in SG, Done(s), pc[s] \in {"instances", "modify"},
         UNCHANGED <<existing, lt, asg, vng, csg>>
  PROVE  Groups!Next \/ UNCHANGED Groups!vars
  <1> USE DEF TypeOK, ObjectsOK, CloudOK, RunsOK, CallsOK
  <1> DEFINE p == pool[s]
  <1>1. p \in Pool
    OBVIOUS
  <1>2. CASE phase[s] # "attach"
    BY <1>2, StutterRefines DEF Done, refined_vars
  <1>3. CASE phase[s] = "attach" /\ (~csg[s] \/ KindOf[p] = "karpenter")
    <2>1. HeldOf' = HeldOf
      BY <1>3 DEF Done, HeldOf
    <2> QED
      BY <2>1, SameConfigurations DEF Groups!vars
  <1>4. CASE phase[s] = "attach" /\ csg[s] /\ KindOf[p] # "karpenter"
    <2>1. Carries(s, p) /\ s \in existing
      BY <1>4 DEF AttachInv
    <2>2. asg[p] \in asg[p]..Len(lt[p]) /\ Len(lt[p]) \in asg[p]..Len(lt[p])
      BY <1>1
    <2>3. s \in Members(p) /\ s \in LaunchGroups(p)
      BY <1>1, <1>4, <2>1, <2>2, ConstantsAssumption DEF Carries, Members, LaunchGroups, Latest, Kind
    <2>4. s \in LatestOf[p] /\ s \in LaunchedOf[p]
      BY <1>1, <2>1, <2>3 DEF LatestOf, LaunchedOf
    <2>5. HeldOf' = [HeldOf EXCEPT ![s] = @ \cup {p}]
      <3>1. HeldOf'[s] = HeldOf[s] \cup {p}
        BY <1>4 DEF Done, HeldOf
      <3>2. \A t \in SG : t # s => HeldOf'[t] = HeldOf[t]
        BY <1>4 DEF Done, HeldOf
      <3> QED
        BY <3>1, <3>2 DEF HeldOf
    <2>6. Groups!Vouch(s, p)
      BY <2>4, <2>5, SameConfigurations DEF Groups!Vouch
    <2> QED
      BY <1>1, <2>6 DEF Groups!Next
  <1> QED
    BY <1>2, <1>3, <1>4

\* The groups a reconcile writes to a pool are those there, with its own or
\* without, as far as they exist.
Existing(gs) == gs \cap existing \cap SG

LEMMA WrittenGroups ==
  ASSUME TypeOK, AttachInv, NEW s \in SG, NEW there, pc[s] \in {"create", "spec"},
         SameOthers(s, wanted[s], there)
  PROVE  \/ Existing(wanted[s]) = Existing(there) \cup {s}
         \/ Existing(wanted[s]) = Existing(there) \ {s} /\ pool[s] \notin HeldOf[s]
  <1>1. CASE s \in Existing(wanted[s])
    BY <1>1 DEF SameOthers, Existing
  <1>2. CASE s \notin Existing(wanted[s])
    <2>1. Existing(wanted[s]) = Existing(there) \ {s}
      BY <1>2 DEF SameOthers, Existing
    <2>2. pool[s] \notin HeldOf[s]
      BY <1>2 DEF HeldOf, AttachInv, Working, Existing
    <2> QED
      BY <2>1, <2>2
  <1> QED
    BY <1>1, <1>2

\* A new launch template version, in use only when the Auto Scaling group is
\* moved to it.
LEMMA CreateRefines ==
  ASSUME TypeOK, KindInv, FreshInv, AttachInv, NEW s \in SG, pc[s] = "create",
         NewVersion(s), UNCHANGED <<existing, asg, vng, attached, csg>>
  PROVE  Groups!Next
  <1> USE DEF TypeOK, ObjectsOK, CloudOK, RunsOK, CallsOK
  <1> DEFINE p == pool[s]
             new == Existing(wanted[s])
  <1>1. p \in Pool /\ KindOf[p] = "asg" /\ SameOthers(s, wanted[s], Latest(p))
    BY DEF KindInv, FreshInv, Fresh
  <1>2. lt[p] \in Seq(SUBSET Group) /\ wanted[s] \in SUBSET Group
        /\ Len(lt[p]) \in Nat /\ asg[p] \in 1..Len(lt[p])
    BY <1>1
  <1>3. /\ lt' = [lt EXCEPT ![p] = Append(lt[p], wanted[s])]
        /\ Append(lt[p], wanted[s])[Len(Append(lt[p], wanted[s]))] = wanted[s]
        /\ Append(lt[p], wanted[s])[asg[p]] = lt[p][asg[p]]
    BY <1>1, <1>2 DEF NewVersion
  <1>4. LatestOf' = [LatestOf EXCEPT ![p] = new]
    BY <1>1, <1>3 DEF LatestOf, Members, Latest, Existing
  <1>5. LaunchedOf' = LaunchedOf
    BY <1>1, <1>3 DEF LaunchedOf, LaunchGroups
  <1>6. HeldOf' = HeldOf
    BY DEF HeldOf
  <1>7. LatestOf[p] = Existing(Latest(p))
    BY <1>1 DEF LatestOf, Members, Existing
  <1>8. new = LatestOf[p] \cup {s} \/ (new = LatestOf[p] \ {s} /\ p \notin HeldOf[s])
    <2>1. \/ Existing(wanted[s]) = Existing(Latest(p)) \cup {s}
          \/ Existing(wanted[s]) = Existing(Latest(p)) \ {s} /\ p \notin HeldOf[s]
      BY <1>1, WrittenGroups
    <2> QED
      BY <2>1, <1>7
  <1>9. Groups!Add(s, p) \/ Groups!Remove(s, p)
    BY <1>4, <1>5, <1>6, <1>8 DEF Groups!Add, Groups!Remove, Groups!Configure
  <1> QED
    BY <1>1, <1>9 DEF Groups!Next

\* An update of a launch spec, in use at once.
LEMMA LaunchSpecRefines ==
  ASSUME TypeOK, KindInv, FreshInv, AttachInv, NEW s \in SG, pc[s] = "spec",
         NewLaunchSpec(s), UNCHANGED <<existing, lt, asg, attached, csg>>
  PROVE  Groups!Next
  <1> USE DEF TypeOK, ObjectsOK, CloudOK, RunsOK, CallsOK
  <1> DEFINE p == pool[s]
             new == Existing(wanted[s])
  <1>1. p \in Pool /\ KindOf[p] = "vng" /\ SameOthers(s, wanted[s], vng[p])
    BY DEF KindInv, FreshInv, Fresh
  <1>2. LatestOf' = [LatestOf EXCEPT ![p] = new]
    BY <1>1 DEF LatestOf, Members, Latest, NewLaunchSpec, Existing
  <1>3. LaunchedOf' = [LaunchedOf EXCEPT ![p] = new]
    BY <1>1 DEF LaunchedOf, LaunchGroups, NewLaunchSpec, Existing
  <1>4. HeldOf' = HeldOf
    BY DEF HeldOf
  <1>5. LatestOf[p] = Existing(vng[p])
    BY <1>1 DEF LatestOf, Members, Existing
  <1>6. new = LatestOf[p] \cup {s} \/ (new = LatestOf[p] \ {s} /\ p \notin HeldOf[s])
    <2>1. \/ Existing(wanted[s]) = Existing(vng[p]) \cup {s}
          \/ Existing(wanted[s]) = Existing(vng[p]) \ {s} /\ p \notin HeldOf[s]
      BY <1>1, WrittenGroups
    <2> QED
      BY <2>1, <1>5
  <1>7. Groups!Add(s, p) \/ Groups!Remove(s, p)
    BY <1>2, <1>3, <1>4, <1>6 DEF Groups!Add, Groups!Remove, Groups!Configure
  <1> QED
    BY <1>1, <1>7 DEF Groups!Next

\* The Auto Scaling group is moved to the newest version of its template.
LEMMA RollRefines ==
  ASSUME TypeOK, KindInv, FreshInv, NEW s \in SG, pc[s] = "roll",
         NewAsgVersion(s), UNCHANGED <<existing, lt, vng, attached, csg>>
  PROVE  Groups!Next
  <1> USE DEF TypeOK, ObjectsOK, CloudOK, RunsOK, CallsOK
  <1> DEFINE p == pool[s]
  <1>1. /\ p \in Pool /\ KindOf[p] = "asg"
        /\ version[s] = Len(lt[p]) /\ asgSeen[s] = asg[p]
    BY DEF KindInv, FreshInv, Fresh
  <1>2. asg' = [asg EXCEPT ![p] = Len(lt[p])]
    BY <1>1 DEF NewAsgVersion
  <1>3. LatestOf' = LatestOf
    BY DEF LatestOf, Members, Latest
  <1>4. LaunchedOf' = [LaunchedOf EXCEPT ![p] = LatestOf[p]]
    BY <1>1, <1>2 DEF LaunchedOf, LatestOf, LaunchGroups, Members, Latest
  <1>5. HeldOf' = HeldOf
    BY DEF HeldOf
  <1> QED
    BY <1>1, <1>3, <1>4, <1>5 DEF Groups!Next, Groups!UseLatest

\* AWS deletes the group of a SecurityGroup that vouches for no pool any more.
LEMMA DeleteGroupRefines ==
  ASSUME TypeOK, NEW s \in SG, DeleteGroup(s)
  PROVE  Groups!Next
  <1> USE DEF TypeOK, ObjectsOK, CloudOK, RunsOK, CallsOK
  <1>1. existing' = existing \ {s} /\ ~csg[s] /\ UNCHANGED <<lt, asg, vng, attached, csg>>
    BY DEF DeleteGroup, object_vars
  <1>2. LatestOf' = [p \in Pool |-> LatestOf[p] \ {s}]
    BY <1>1 DEF LatestOf, Members, Latest
  <1>3. LaunchedOf' = [p \in Pool |-> LaunchedOf[p] \ {s}]
    BY <1>1 DEF LaunchedOf, LaunchGroups
  <1>4. HeldOf' = HeldOf /\ HeldOf[s] = {}
    BY <1>1 DEF HeldOf
  <1> QED
    BY <1>2, <1>3, <1>4 DEF Groups!Next, Groups!DeleteGroup

\* Turning to a pool: a detach lets it go.
LEMMA TurnRefines ==
  ASSUME TypeOK, NEW s \in SG, NEW p \in Pool, Turn(s, p),
         UNCHANGED <<existing, lt, asg, vng, csg>>
  PROVE  Groups!Next \/ UNCHANGED Groups!vars
  <1>1. CASE phase[s] = "attach"
    BY <1>1, StutterRefines DEF Turn, refined_vars
  <1>2. CASE phase[s] # "attach"
    <2>1. attached' = [attached EXCEPT ![s] = attached[s] \ {p}]
      BY <1>2 DEF Turn
    <2>2. csg' = [csg EXCEPT ![s] = csg[s]] /\ csg[s] \in BOOLEAN
      BY DEF TypeOK, ObjectsOK
    <2>3. Groups!LetGo(s)
      BY <2>1, <2>2, LetGoRefines
    <2> QED
      BY <2>3 DEF Groups!Next
  <1> QED
    BY <1>1, <1>2

-----------------------------------------------------------------------------
(* Every step is a step of PoolGroups or none.                             *)

GroupsStep == Groups!Next \/ UNCHANGED Groups!vars

\* The attach or detach of a pool ends: with nil, or with an error.
LEMMA InstancesEndRefine ==
  ASSUME TypeOK, AttachInv, NEW s \in SG, pc[s] \in {"instances", "modify"},
         Done(s) \/ Error(s), UNCHANGED <<existing, lt, asg, vng, csg>>
  PROVE  GroupsStep
  <1>1. CASE Done(s)
    BY <1>1, DoneRefines DEF GroupsStep
  <1>2. CASE Error(s)
    BY <1>2, StutterRefines DEF Error, refined_vars, GroupsStep
  <1> QED
    BY <1>1, <1>2

\* A call that changes a template, a launch spec or an Auto Scaling group and
\* whose answer is lost changes it all the same.
LEMMA WriteFailsRefines ==
  ASSUME TypeOK, KindInv, FreshInv, AttachInv, NEW s \in SG, WriteFails(s)
  PROVE  GroupsStep
  <1>1. UNCHANGED <<existing, attached, csg>>
    BY DEF WriteFails, Error, object_vars
  <1>2. CASE pc[s] = "create" /\ NewVersion(s) /\ UNCHANGED <<asg, vng>>
    BY <1>1, <1>2, CreateRefines DEF GroupsStep
  <1>3. CASE pc[s] = "roll" /\ NewAsgVersion(s) /\ UNCHANGED <<lt, vng>>
    BY <1>1, <1>3, RollRefines DEF GroupsStep
  <1>4. CASE pc[s] = "spec" /\ NewLaunchSpec(s) /\ UNCHANGED <<lt, asg>>
    BY <1>1, <1>4, LaunchSpecRefines DEF GroupsStep
  <1>5. CASE UNCHANGED <<lt, asg, vng>>
    BY <1>1, <1>5, StutterRefines DEF refined_vars, GroupsStep
  <1> QED
    BY <1>2, <1>3, <1>4, <1>5 DEF WriteFails

\* A deletion that deletes the Crossplane SecurityGroup gives every pool up.
LEMMA GiveUpRefines ==
  ASSUME TypeOK, NEW s \in SG, UNCHANGED <<existing, lt, asg, vng, attached>>,
         \E exists \in BOOLEAN : csg' = [csg EXCEPT ![s] = exists] /\ (exists => csg[s])
  PROVE  GroupsStep
  <1>1. attached' = [attached EXCEPT ![s] = attached[s]]
    BY DEF TypeOK, RunsOK
  <1>2. Groups!LetGo(s)
    BY <1>1, LetGoRefines
  <1> QED
    BY <1>2 DEF Groups!Next, GroupsStep

LEMMA NextRefines ==
  ASSUME TypeOK, KindInv, FreshInv, AttachInv, [Next]_vars
  PROVE  GroupsStep
  <1> USE DEF object_vars, cloud_vars
  <1>0. ASSUME UNCHANGED refined_vars PROVE GroupsStep
    BY <1>0, StutterRefines DEF GroupsStep
  <1>1. ASSUME NEW s \in SG, NEW p \in Pool,
               DescribeASG(s, p) \/ ListVNGs(s, p) \/ ListKarpenterInstances(s, p)
        PROVE  GroupsStep
    BY <1>1, TurnRefines DEF DescribeASG, ListVNGs, ListKarpenterInstances, GroupsStep
  <1>2. ASSUME NEW s \in SG, CreateVersion(s) PROVE GroupsStep
    BY <1>2, CreateRefines DEF CreateVersion, GroupsStep
  <1>3. ASSUME NEW s \in SG, RollASG(s) PROVE GroupsStep
    BY <1>3, RollRefines DEF RollASG, GroupsStep
  <1>4. ASSUME NEW s \in SG, UpdateLaunchSpec(s) PROVE GroupsStep
    BY <1>4, LaunchSpecRefines DEF UpdateLaunchSpec, GroupsStep
  <1>5. ASSUME NEW s \in SG, PoolDone(s) PROVE GroupsStep
    BY <1>5, InstancesEndRefine DEF PoolDone
  <1>6. ASSUME NEW s \in SG, NEW i \in Instance, ModifyRefused(s, i) PROVE GroupsStep
    BY <1>6, InstancesEndRefine DEF ModifyRefused, InstancesFail
  <1>7. ASSUME NEW s \in SG, InstanceCallFails(s) PROVE GroupsStep
    BY <1>7, InstancesEndRefine DEF InstanceCallFails, InstancesFail
  <1>8. ASSUME NEW s \in SG, WriteFails(s) PROVE GroupsStep
    BY <1>8, WriteFailsRefines
  <1>9. ASSUME NEW s \in SG, Finish(s) PROVE GroupsStep
    <2>1. (csg[s] /\ phase[s] # "delete") \in BOOLEAN
      OBVIOUS
    <2>2. csg' = [csg EXCEPT ![s] = csg[s] /\ phase[s] # "delete"]
      BY <1>9 DEF Finish
    <2>3. UNCHANGED <<existing, lt, asg, vng, attached>>
      BY <1>9 DEF Finish
    <2> QED
      BY <2>1, <2>2, <2>3, GiveUpRefines
  <1>10. ASSUME NEW s \in SG, DeleteFails(s) PROVE GroupsStep
    <2>1. csg[s] /\ \E exists \in BOOLEAN : csg' = [csg EXCEPT ![s] = exists]
      BY <1>10 DEF DeleteFails
    <2>2. UNCHANGED <<existing, lt, asg, vng, attached>>
      BY <1>10 DEF DeleteFails
    <2> QED
      BY <2>1, <2>2, GiveUpRefines
  <1>11. ASSUME NEW s \in SG, DeleteGroup(s) PROVE GroupsStep
    BY <1>11, DeleteGroupRefines DEF GroupsStep
  <1>12. ASSUME NEW s \in SG,
                Reconcile(s) \/ Lock(s) \/ ThenDetachRemoved(s) \/ Unlock(s) \/ Save(s)
         PROVE  GroupsStep
    BY <1>0, <1>12 DEF Reconcile, Lock, ThenDetachRemoved, Unlock, Save, refined_vars
  <1>13. ASSUME NEW s \in SG,
                \/ ReadTemplate(s) \/ RefuseBareTemplate(s) \/ DescribeVngInstances(s)
                \/ DescribeInstances(s) \/ \E i \in Instance : ModifyInstance(s, i)
         PROVE  GroupsStep
    BY <1>0, <1>13 DEF ReadTemplate, RefuseBareTemplate, Error, DescribeVngInstances,
                       DescribeInstances, ModifyInstance, refined_vars
  <1>14. ASSUME NEW s \in SG,
                \/ \E p \in Pool : FirstCallFails(s, p)
                \/ ReadFails(s) \/ GroupNotReady(s) \/ SaveFails(s)
         PROVE  GroupsStep
    BY <1>0, <1>14 DEF FirstCallFails, ReadFails, Error, GroupNotReady, SaveFails, refined_vars
  <1>15. ASSUME NEW s \in SG, EditSpec(s) \/ DeleteSG(s) PROVE GroupsStep
    BY <1>0, <1>15 DEF EditSpec, DeleteSG, refined_vars
  <1>16. ASSUME NEW i \in Instance, Launch(i) \/ ShutDown(i) \/ Terminate(i) PROVE GroupsStep
    BY <1>0, <1>16 DEF Launch, ShutDown, Terminate, refined_vars
  <1>17. CASE Restart \/ UNCHANGED vars
    BY <1>0, <1>17 DEF Restart, vars, refined_vars
  <1> QED
    BY <1>1, <1>2, <1>3, <1>4, <1>5, <1>6, <1>7, <1>8, <1>9, <1>10, <1>11, <1>12, <1>13,
       <1>14, <1>15, <1>16, <1>17
    DEF Next, Proceed, Fails, User, Aws

\* Reconciles of several SecurityGroups, their failed calls and the restarts of
\* the operator between any two of them show the pools nothing but the steps of
\* PoolGroups, when no SecurityGroup references two clusters.
THEOREM Implements == ASSUME SingleCluster PROVE Spec => ImplementsPoolGroups
  <1>1. Init => Groups!Init
    BY InitRefines
  <1>2. Inv /\ [Next]_vars => [Groups!Next]_(Groups!vars)
    BY NextRefines DEF Inv, GroupsStep
  <1>3. Spec => []Inv
    BY Invariance
  <1> QED
    BY <1>1, <1>2, <1>3, PTL DEF Spec, ImplementsPoolGroups, Groups!Spec

=============================================================================
