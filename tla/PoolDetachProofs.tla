-------------------------- MODULE PoolDetachProofs --------------------------
(***************************************************************************)
(* A deletion detaches the group from the pools it references before it    *)
(* deletes the Crossplane SecurityGroup, unless it has logged a detach     *)
(* that failed: for every set of SecurityGroups, pools and instances,      *)
(* through failed calls, restarts and edits, and whatever other            *)
(* SecurityGroups do to the same pools meanwhile.                          *)
(***************************************************************************)
EXTENDS PoolAttachmentProofs

-----------------------------------------------------------------------------
(* The inductive invariant.                                                *)

\* The group is in nothing the pool may launch with from now on.
Off(s, p) ==
    /\ KindOf[p] = "vng" => s \notin vng[p]
    /\ KindOf[p] # "vng" => \A v \in asg[p]..Len(lt[p]) : s \notin lt[p][v]

\* A pool whose configuration no reconcile of s has ever written.
Foreign(s, p) == KindOf[p] = "karpenter" \/ (edits = 0 /\ p \notin spec[s])

\* A deletion works on the references of the spec, which is edited no more; and
\* so does every reconcile when nothing was edited.
SpecInv ==
    \A s \in SG :
        /\ phase[s] = "delete" =>
              /\ object[s] # "live"
              /\ pc[s] \in Locked \cup {"lock"} => seen[s] = spec[s]
        /\ edits = 0 =>
              /\ applied[s] \subseteq spec[s]
              /\ seen[s] \subseteq spec[s]
              /\ todo[s] \subseteq spec[s]
              /\ pc[s] \in Working => pool[s] \in spec[s]

\* What is about to be written adds no group but that of the writer.
OwnInv ==
    \A s \in SG :
        /\ pc[s] = "create" => wanted[s] \subseteq Latest(pool[s]) \cup {s}
        /\ pc[s] = "spec" => wanted[s] \subseteq vng[pool[s]] \cup {s}

\* A pool a deletion has begun with and not yet written.
Underway(s, p) == pool[s] = p /\ pc[s] \in {"template", "create", "roll", "spec"}

\* A deletion on its way: the pools it has turned to are off, or it has logged
\* a failure.
Deleting(s) ==
    /\ pc[s] \in Locked /\ ~gaveUp[s] =>
          \A p \in spec[s] \ todo[s] : Off(s, p) \/ Underway(s, p)
    /\ pc[s] \in {"create", "spec"} => s \notin wanted[s]
    /\ pc[s] = "roll" => s \notin Latest(pool[s])

\* A deletion whose Crossplane SecurityGroup is gone.
Deleted(s) ==
    /\ object[s] # "live"
    /\ ~gaveUp[s] => \A p \in spec[s] : Off(s, p)
    /\ pc[s] # "idle" => phase[s] = "delete"
    /\ pc[s] \in Locked => pc[s] \notin Working /\ todo[s] = {}

Detaching(s) ==
    /\ \A p \in Pool : Foreign(s, p) => Off(s, p)
    /\ phase[s] = "delete" => Deleting(s)
    /\ ~csg[s] => Deleted(s)

DetachInv == SpecInv /\ OwnInv /\ \A s \in SG : Detaching(s)

LEMMA InitDetachInv == Init => DetachInv
  <1> SUFFICES ASSUME Init PROVE DetachInv
    OBVIOUS
  <1> USE ConstantsAssumption
  <1>1. SpecInv
    BY DEF Init, SpecInv, Working, Locked
  <1>2. OwnInv
    BY DEF Init, OwnInv
  <1>3. ASSUME NEW s \in SG, NEW p \in Pool PROVE Off(s, p)
    <2>1. s \notin InitGroups(p)
      BY DEF InitGroups
    <2>2. vng[p] = InitGroups(p) /\ asg[p] = 1 /\ lt[p] = <<InitGroups(p)>>
      BY DEF Init
    <2>3. Len(lt[p]) = 1 /\ lt[p][1] = InitGroups(p)
      BY <2>2
    <2>4. \A v \in asg[p]..Len(lt[p]) : v = 1
      BY <2>2, <2>3
    <2> QED
      BY <2>1, <2>2, <2>3, <2>4 DEF Off
  <1>4. \A s \in SG : Detaching(s)
    BY <1>3 DEF Init, Detaching
  <1> QED
    BY <1>1, <1>2, <1>4 DEF DetachInv

-----------------------------------------------------------------------------
(* The ways a reconcile is done with a pool.                               *)

Ends(s) ==
    \/ RefuseBareTemplate(s) \/ PoolDone(s)
    \/ \E i \in Instance : ModifyRefused(s, i)
    \/ ReadFails(s) \/ WriteFails(s) \/ InstanceCallFails(s)

\* A deletion ends with a pool whose configuration it has written, or gives up.
EndsWell(s) ==
    \/ /\ pc[s] \in {"instances", "modify"}
       /\ UNCHANGED <<todo, gaveUp>>
    \/ gaveUp' = [gaveUp EXCEPT ![s] = TRUE]

LEMMA PoolEnds ==
  ASSUME TypeOK, NEW s \in SG, Ends(s)
  PROVE  /\ pc[s] \in Working
         /\ Return(s)
         /\ \E rest \in SUBSET todo[s] : todo' = [todo EXCEPT ![s] = rest]
         /\ \A t \in SG \ {s} : gaveUp'[t] = gaveUp[t]
         /\ phase[s] = "delete" => EndsWell(s)
         /\ UNCHANGED <<object_vars, phase, seen, edits>>
  <1>0. /\ gaveUp \in [SG -> BOOLEAN] /\ todo \in [SG -> SUBSET Pool]
        /\ todo = [todo EXCEPT ![s] = todo[s]]
    BY DEF TypeOK, RunsOK
  <1> USE <1>0 DEF Working, EndsWell
  <1>1. ASSUME Error(s)
        PROVE  /\ Return(s)
               /\ \E rest \in SUBSET todo[s] : todo' = [todo EXCEPT ![s] = rest]
               /\ \A t \in SG \ {s} : gaveUp'[t] = gaveUp[t]
               /\ phase[s] = "delete" => gaveUp' = [gaveUp EXCEPT ![s] = TRUE]
    BY <1>1 DEF Error
  <1>2. ASSUME Done(s)
        PROVE  Return(s) /\ UNCHANGED <<todo, gaveUp>>
    BY <1>2 DEF Done
  <1>3. CASE RefuseBareTemplate(s)
    BY <1>1, <1>3 DEF RefuseBareTemplate
  <1>4. CASE PoolDone(s)
    BY <1>2, <1>4 DEF PoolDone
  <1>5. ASSUME InstancesFail(s), pc[s] \in {"instances", "modify"}
        PROVE  /\ Return(s)
               /\ \E rest \in SUBSET todo[s] : todo' = [todo EXCEPT ![s] = rest]
               /\ \A t \in SG \ {s} : gaveUp'[t] = gaveUp[t]
               /\ phase[s] = "delete" => UNCHANGED <<todo, gaveUp>>
               /\ UNCHANGED <<object_vars, phase, seen, edits>>
    <2>1. CASE Error(s) /\ phase[s] = "attach"
      BY <1>1, <1>5, <2>1 DEF InstancesFail
    <2>2. CASE Done(s)
      BY <1>2, <1>5, <2>2 DEF InstancesFail
    <2> QED
      BY <1>5, <2>1, <2>2 DEF InstancesFail
  <1>6. ASSUME NEW i \in Instance, ModifyRefused(s, i)
        PROVE  InstancesFail(s) /\ pc[s] \in {"instances", "modify"}
    BY <1>6 DEF ModifyRefused
  <1>7. InstanceCallFails(s) => InstancesFail(s) /\ pc[s] \in {"instances", "modify"}
    BY DEF InstanceCallFails
  <1>8. CASE ReadFails(s)
    BY <1>1, <1>8 DEF ReadFails
  <1>9. CASE WriteFails(s)
    <2>1. Error(s) /\ pc[s] \in {"create", "roll", "spec"} /\ UNCHANGED <<object_vars, phase, seen, edits>>
      BY <1>9 DEF WriteFails
    <2> QED
      BY <1>1, <2>1
  <1> QED
    BY <1>3, <1>4, <1>5, <1>6, <1>7, <1>8, <1>9 DEF Ends

\* The steps there are.
LEMMA Steps ==
  ASSUME Next
  PROVE  \/ \E s \in SG :
               \/ Reconcile(s) \/ Lock(s) \/ ThenDetachRemoved(s) \/ Finish(s) \/ Unlock(s) \/ Save(s)
               \/ \E p \in Pool : DescribeASG(s, p) \/ ListVNGs(s, p) \/ ListKarpenterInstances(s, p)
               \/ ReadTemplate(s) \/ CreateVersion(s) \/ RollASG(s) \/ UpdateLaunchSpec(s)
               \/ DescribeVngInstances(s) \/ DescribeInstances(s)
               \/ \E i \in Instance : ModifyInstance(s, i)
               \/ Ends(s)
               \/ \E p \in Pool : FirstCallFails(s, p)
               \/ GroupNotReady(s) \/ DeleteFails(s) \/ SaveFails(s)
               \/ EditSpec(s) \/ DeleteSG(s) \/ DeleteGroup(s)
         \/ \E i \in Instance : Launch(i) \/ ShutDown(i) \/ Terminate(i)
         \/ Restart
  BY DEF Next, Proceed, Fails, User, Aws, Ends

-----------------------------------------------------------------------------
(* Its steps.                                                              *)

LEMMA SpecInvStep ==
  ASSUME TypeOK, SpecInv, Next
  PROVE  SpecInv'
  <1> USE DEF TypeOK, ObjectsOK, RunsOK, CallsOK, object_vars, call_vars, run_vars, SpecInv, Working,
              Locked
  <1>1. ASSUME NEW s \in SG, Reconcile(s) PROVE SpecInv'
    BY <1>1 DEF Reconcile
  <1>2. ASSUME NEW s \in SG, Lock(s) PROVE SpecInv'
    BY <1>2 DEF Lock
  <1>3. ASSUME NEW s \in SG, ThenDetachRemoved(s) PROVE SpecInv'
    BY <1>3 DEF ThenDetachRemoved
  <1>4. ASSUME NEW s \in SG, Finish(s) \/ Unlock(s) PROVE SpecInv'
    BY <1>4 DEF Finish, Unlock
  <1>5. ASSUME NEW s \in SG, Save(s) \/ SaveFails(s) PROVE SpecInv'
    <2>1. /\ pc' = [pc EXCEPT ![s] = "idle"] /\ phase' = [phase EXCEPT ![s] = "attach"]
          /\ seen' = [seen EXCEPT ![s] = {}] /\ todo' = [todo EXCEPT ![s] = {}]
          /\ UNCHANGED <<spec, pool, edits>>
      BY <1>5 DEF Save, SaveFails, End
    <2>2. /\ applied' = applied \/ applied' = [applied EXCEPT ![s] = seen[s]]
          /\ object' = object \/ object' = [object EXCEPT ![s] = "gone"]
      BY <1>5 DEF Save, SaveFails
    <2> QED
      BY <2>1, <2>2
  <1>6. ASSUME NEW s \in SG, NEW p \in Pool, DescribeASG(s, p) PROVE SpecInv'
    BY <1>6 DEF DescribeASG, Turn
  <1>7. ASSUME NEW s \in SG, NEW p \in Pool, ListVNGs(s, p) PROVE SpecInv'
    <2>1. Turn(s, p) /\ UNCHANGED <<spec, applied, seen, object, phase, edits>>
          /\ pc'[s] \in {"spec", "running", "next"}
          /\ \A t \in SG \ {s} : pc'[t] = pc[t]
      BY <1>7 DEF ListVNGs
    <2> QED
      BY <2>1 DEF Turn
  <1>8. ASSUME NEW s \in SG, NEW p \in Pool, ListKarpenterInstances(s, p) PROVE SpecInv'
    BY <1>8 DEF ListKarpenterInstances, Turn
  <1>9. ASSUME NEW s \in SG, ReadTemplate(s) PROVE SpecInv'
    BY <1>9 DEF ReadTemplate
  <1>10. ASSUME NEW s \in SG, CreateVersion(s) \/ RollASG(s) \/ UpdateLaunchSpec(s) PROVE SpecInv'
    BY <1>10 DEF CreateVersion, RollASG, UpdateLaunchSpec
  <1>11. ASSUME NEW s \in SG, DescribeVngInstances(s) \/ DescribeInstances(s) PROVE SpecInv'
    BY <1>11 DEF DescribeVngInstances, DescribeInstances
  <1>12. ASSUME NEW s \in SG, NEW i \in Instance, ModifyInstance(s, i) PROVE SpecInv'
    BY <1>12 DEF ModifyInstance
  <1>13. ASSUME NEW s \in SG, Ends(s) PROVE SpecInv'
    <2>1. /\ pc[s] \in Working /\ pc' = [pc EXCEPT ![s] = "next"]
          /\ UNCHANGED <<spec, applied, object, pool, phase, seen, edits>>
          /\ \E rest \in SUBSET todo[s] : todo' = [todo EXCEPT ![s] = rest]
      BY ONLY <1>13, TypeOK, PoolEnds DEF Return, object_vars
    <2> QED
      BY <2>1
  <1>14. ASSUME NEW s \in SG, NEW p \in Pool, FirstCallFails(s, p) PROVE SpecInv'
    BY <1>14 DEF FirstCallFails
  <1>15. ASSUME NEW s \in SG, GroupNotReady(s) \/ DeleteFails(s) PROVE SpecInv'
    BY <1>15 DEF GroupNotReady, DeleteFails
  <1>16. ASSUME NEW s \in SG, EditSpec(s) PROVE SpecInv'
    BY <1>16 DEF EditSpec
  <1>17. ASSUME NEW s \in SG, DeleteSG(s) \/ DeleteGroup(s) PROVE SpecInv'
    BY <1>17 DEF DeleteSG, DeleteGroup
  <1>18. ASSUME NEW i \in Instance, Launch(i) \/ ShutDown(i) \/ Terminate(i) PROVE SpecInv'
    BY <1>18 DEF Launch, ShutDown, Terminate
  <1>19. CASE Restart
    BY <1>19 DEF Restart
  <1> HIDE DEF TypeOK, SpecInv
  <1> QED
    BY <1>1, <1>2, <1>3, <1>4, <1>5, <1>6, <1>7, <1>8, <1>9, <1>10, <1>11, <1>12, <1>13, <1>14,
       <1>15, <1>16, <1>17, <1>18, <1>19, Steps

\* What a step of s may write to its pool, whether or not its answer comes back.
WritesVersion(s) == /\ pc[s] = "create"
                    /\ lt' = [lt EXCEPT ![pool[s]] = Append(@, wanted[s])]
                    /\ UNCHANGED <<asg, vng>>
RollsVersion(s)  == /\ pc[s] = "roll"
                    /\ asg' = [asg EXCEPT ![pool[s]] = Len(lt[pool[s]])]
                    /\ UNCHANGED <<lt, vng>>
WritesSpec(s)    == /\ pc[s] = "spec"
                    /\ vng' = [vng EXCEPT ![pool[s]] = wanted[s]]
                    /\ UNCHANGED <<lt, asg>>
Writes(s) ==
    /\ pc[s] \in Working /\ pc'[s] # pc[s]
    /\ WritesVersion(s) \/ RollsVersion(s) \/ WritesSpec(s)

LEMMA RollsToLatest ==
  ASSUME TypeOK, FreshInv, NEW s \in SG, pc[s] = "roll", NewAsgVersion(s)
  PROVE  asg' = [asg EXCEPT ![pool[s]] = Len(lt[pool[s]])]
  <1>1. asgSeen[s] = asg[pool[s]] /\ version[s] = Len(lt[pool[s]])
    BY DEF FreshInv, Fresh
  <1> QED
    BY <1>1 DEF NewAsgVersion, TypeOK, CloudOK, CallsOK

LEMMA PoolWrites ==
  ASSUME TypeOK, FreshInv, Next
  PROVE  (\E t \in SG : Writes(t)) \/ UNCHANGED <<lt, asg, vng>>
  <1>0. pc \in [SG -> Step]
    BY DEF TypeOK, RunsOK
  <1> USE <1>0 DEF object_vars, cloud_vars, call_vars, run_vars, Working
  <1> DEFINE Same == UNCHANGED <<lt, asg, vng>>
  <1>1. ASSUME NEW t \in SG, Reconcile(t) \/ Lock(t) \/ DeleteSG(t) \/ DeleteGroup(t) \/ EditSpec(t)
        PROVE  Same
    BY <1>1 DEF Reconcile, Lock, DeleteSG, DeleteGroup, EditSpec
  <1>2. ASSUME NEW t \in SG, ThenDetachRemoved(t) \/ Finish(t) \/ Unlock(t) \/ Save(t) \/ SaveFails(t)
                             \/ GroupNotReady(t) \/ DeleteFails(t)
        PROVE  Same
    BY <1>2 DEF ThenDetachRemoved, Finish, Unlock, Save, SaveFails, GroupNotReady, DeleteFails
  <1>3. ASSUME NEW t \in SG, NEW p \in Pool,
               DescribeASG(t, p) \/ ListVNGs(t, p) \/ ListKarpenterInstances(t, p) \/ FirstCallFails(t, p)
        PROVE  Same
    BY <1>3 DEF DescribeASG, ListVNGs, ListKarpenterInstances, FirstCallFails
  <1>4. ASSUME NEW t \in SG, ReadTemplate(t) \/ DescribeVngInstances(t) \/ DescribeInstances(t)
        PROVE  Same
    BY <1>4 DEF ReadTemplate, DescribeVngInstances, DescribeInstances
  <1>5. ASSUME NEW t \in SG, NEW i \in Instance, ModifyInstance(t, i) PROVE Same
    BY <1>5 DEF ModifyInstance
  <1>6. ASSUME NEW t \in SG, Ends(t) PROVE Same \/ Writes(t)
    <2>1. ASSUME NEW i \in Instance, ModifyRefused(t, i) PROVE Same
      BY <2>1 DEF ModifyRefused, InstancesFail
    <2>2. InstanceCallFails(t) => Same
      BY DEF InstanceCallFails, InstancesFail
    <2>3. RefuseBareTemplate(t) \/ PoolDone(t) \/ ReadFails(t) => Same
      BY DEF RefuseBareTemplate, PoolDone, ReadFails
    <2>4. WriteFails(t) => Same \/ Writes(t)
      <3> SUFFICES ASSUME WriteFails(t) PROVE Same \/ Writes(t)
        OBVIOUS
      <3>1. pc[t] \in {"create", "roll", "spec"} /\ pc'[t] = "next"
        BY DEF WriteFails, Error, Return
      <3> QED
        BY <3>1, RollsToLatest DEF WriteFails, Writes, NewVersion, NewLaunchSpec, WritesVersion,
                                   RollsVersion, WritesSpec
    <2> QED
      BY <1>6, <2>1, <2>2, <2>3, <2>4 DEF Ends
  <1>7. ASSUME NEW i \in Instance, Launch(i) \/ ShutDown(i) \/ Terminate(i) PROVE Same
    BY <1>7 DEF Launch, ShutDown, Terminate
  <1>8. ASSUME NEW t \in SG, CreateVersion(t) \/ RollASG(t) \/ UpdateLaunchSpec(t) PROVE Writes(t)
    BY <1>8, RollsToLatest DEF CreateVersion, RollASG, UpdateLaunchSpec, NewVersion, NewLaunchSpec,
                               Writes, WritesVersion, RollsVersion, WritesSpec
  <1>9. Restart => Same
    BY DEF Restart
  <1> HIDE DEF Same
  <1>10. Same \/ \E t \in SG : Writes(t)
    BY <1>1, <1>2, <1>3, <1>4, <1>5, <1>6, <1>7, <1>8, <1>9, Steps
  <1> QED
    BY <1>10 DEF Same

\* The groups a reconcile is about to write were read by this step, or were
\* there before it.
LEMMA WantedRead ==
  ASSUME TypeOK, Next, NEW s \in SG, pc'[s] \in {"create", "spec"}
  PROVE  \/ pc'[s] = pc[s] /\ wanted'[s] = wanted[s] /\ pool'[s] = pool[s]
         \/ /\ pc'[s] = "create" /\ UNCHANGED <<lt, asg, vng, pool>>
            /\ wanted'[s] = Wanted(s, Latest(pool[s]))
         \/ /\ pc'[s] = "spec" /\ UNCHANGED <<lt, asg, vng>>
            /\ wanted'[s] = Wanted(s, vng[pool'[s]])
  <1>0. pc \in [SG -> Step] /\ pool \in [SG -> Pool] /\ wanted \in [SG -> SUBSET Group]
    BY DEF TypeOK, RunsOK, CallsOK
  <1> USE <1>0 DEF object_vars, cloud_vars, call_vars, run_vars
  <1> DEFINE Same == pc'[s] = pc[s] /\ wanted'[s] = wanted[s] /\ pool'[s] = pool[s]
  <1>1. ASSUME NEW t \in SG, Reconcile(t) \/ Lock(t) \/ DeleteSG(t) \/ DeleteGroup(t) \/ EditSpec(t)
        PROVE  Same
    BY <1>1 DEF Reconcile, Lock, DeleteSG, DeleteGroup, EditSpec
  <1>2. ASSUME NEW t \in SG, ThenDetachRemoved(t) \/ Finish(t) \/ Unlock(t) \/ Save(t) \/ SaveFails(t)
                             \/ GroupNotReady(t) \/ DeleteFails(t)
        PROVE  Same
    BY <1>2 DEF ThenDetachRemoved, Finish, Unlock, Save, SaveFails, GroupNotReady, DeleteFails, End
  <1>3. ASSUME NEW t \in SG, NEW p \in Pool, DescribeASG(t, p) \/ ListKarpenterInstances(t, p)
                                            \/ FirstCallFails(t, p)
        PROVE  Same
    BY <1>3 DEF DescribeASG, ListKarpenterInstances, FirstCallFails, Turn
  <1>4. ASSUME NEW t \in SG, NEW p \in Pool, ListVNGs(t, p)
        PROVE  \/ Same
               \/ /\ pc'[s] = "spec" /\ UNCHANGED <<lt, asg, vng>>
                  /\ wanted'[s] = Wanted(s, vng[pool'[s]])
    BY <1>4 DEF ListVNGs, Turn, LaunchSpec
  <1>5. ASSUME NEW t \in SG, ReadTemplate(t)
        PROVE  \/ Same
               \/ /\ pc'[s] = "create" /\ UNCHANGED <<lt, asg, vng, pool>>
                  /\ wanted'[s] = Wanted(s, Latest(pool[s]))
    BY <1>5 DEF ReadTemplate
  <1>6. ASSUME NEW t \in SG, CreateVersion(t) \/ RollASG(t) \/ UpdateLaunchSpec(t)
                             \/ DescribeVngInstances(t) \/ DescribeInstances(t)
        PROVE  Same
    BY <1>6 DEF CreateVersion, RollASG, UpdateLaunchSpec, DescribeVngInstances, DescribeInstances
  <1>7. ASSUME NEW t \in SG, NEW i \in Instance, ModifyInstance(t, i) PROVE Same
    BY <1>7 DEF ModifyInstance
  <1>8. ASSUME NEW t \in SG, Ends(t) PROVE Same
    <2>1. Return(t)
      BY <1>8, PoolEnds
    <2> QED
      BY <2>1 DEF Return
  <1>9. ASSUME NEW i \in Instance, Launch(i) \/ ShutDown(i) \/ Terminate(i) PROVE Same
    BY <1>9 DEF Launch, ShutDown, Terminate
  <1>10. ~ Restart
    BY DEF Restart
  <1> HIDE DEF Same
  <1>11. \/ Same
         \/ /\ pc'[s] = "create" /\ UNCHANGED <<lt, asg, vng, pool>>
            /\ wanted'[s] = Wanted(s, Latest(pool[s]))
         \/ /\ pc'[s] = "spec" /\ UNCHANGED <<lt, asg, vng>>
            /\ wanted'[s] = Wanted(s, vng[pool'[s]])
    BY <1>1, <1>2, <1>3, <1>4, <1>5, <1>6, <1>7, <1>8, <1>9, <1>10, Steps
  <1> QED
    BY <1>11 DEF Same

LEMMA WantedBounds ==
  ASSUME NEW s \in SG, NEW current \in SUBSET Group
  PROVE  /\ Wanted(s, current) \subseteq current \cup {s}
         /\ phase[s] = "delete" => s \notin Wanted(s, current)
  BY DEF Wanted, WithGroup, WithoutGroup, StillExisting

LEMMA OwnInvStep ==
  ASSUME TypeOK, FreshInv, OneWriterPerPool, OwnInv, Next
  PROVE  OwnInv'
  <1>0. /\ pool \in [SG -> Pool] /\ pool' \in [SG -> Pool] /\ lt \in [Pool -> Seq(SUBSET Group)]
        /\ vng \in [Pool -> SUBSET Group] /\ \A p \in Pool : Latest(p) \in SUBSET Group
    <2>1. TypeOK'
      BY NextTypeOK
    <2>2. ASSUME NEW p \in Pool PROVE Latest(p) \in SUBSET Group
      BY DEF TypeOK, CloudOK, Latest
    <2> QED
      BY <2>1, <2>2 DEF TypeOK, CallsOK, CloudOK
  <1> SUFFICES ASSUME NEW s \in SG
               PROVE  /\ pc'[s] = "create" => wanted'[s] \subseteq Latest(pool[s])' \cup {s}
                      /\ pc'[s] = "spec" => wanted'[s] \subseteq vng'[pool'[s]] \cup {s}
    BY DEF OwnInv
  <1>1. CASE pc'[s] = pc[s] /\ wanted'[s] = wanted[s] /\ pool'[s] = pool[s]
    <2>1. ASSUME pc[s] \in {"create", "spec"}
          PROVE  lt'[pool[s]] = lt[pool[s]] /\ vng'[pool[s]] = vng[pool[s]]
      <3>1. ASSUME NEW t \in SG, Writes(t)
            PROVE  lt'[pool[s]] = lt[pool[s]] /\ vng'[pool[s]] = vng[pool[s]]
        <4>1. t # s /\ pc[t] \in Working /\ pc[s] \in Working
          BY <1>1, <2>1, <3>1 DEF Writes, Working
        <4>2. pool[t] # pool[s]
          BY <4>1 DEF OneWriterPerPool
        <4> QED
          BY <1>0, <3>1, <4>2 DEF Writes, WritesVersion, RollsVersion, WritesSpec
      <3> QED
        BY <3>1, PoolWrites
    <2> QED
      BY <1>1, <2>1 DEF OwnInv, Latest
  <1>2. CASE /\ pc'[s] = "create" /\ UNCHANGED <<lt, asg, vng, pool>>
             /\ wanted'[s] = Wanted(s, Latest(pool[s]))
    <2>1. Latest(pool[s])' = Latest(pool[s])
      BY <1>2 DEF Latest
    <2>2. Wanted(s, Latest(pool[s])) \subseteq Latest(pool[s]) \cup {s}
      BY <1>0, WantedBounds
    <2> QED
      BY <1>2, <2>1, <2>2
  <1>3. CASE /\ pc'[s] = "spec" /\ UNCHANGED <<lt, asg, vng>>
             /\ wanted'[s] = Wanted(s, vng[pool'[s]])
    <2>1. Wanted(s, vng[pool'[s]]) \subseteq vng[pool'[s]] \cup {s}
      BY <1>0, WantedBounds
    <2> QED
      BY <1>3, <2>1
  <1> QED
    BY <1>1, <1>2, <1>3, WantedRead

-----------------------------------------------------------------------------
(* What a step leaves alone.                                               *)

\* A group that is off a pool stays off it unless its own reconcile writes it.
LEMMA OffStays ==
  ASSUME TypeOK, FreshInv, OwnInv, Next, NEW s \in SG, NEW p \in Pool, Off(s, p),
         pc[s] \in {"create", "spec"} /\ pool[s] = p => s \notin wanted[s]
  PROVE  Off(s, p)'
  <1> USE DEF Off
  <1>0. /\ pool \in [SG -> Pool] /\ wanted \in [SG -> SUBSET Group]
        /\ lt \in [Pool -> Seq(SUBSET Group)] /\ vng \in [Pool -> SUBSET Group]
        /\ asg \in [Pool -> Nat \ {0}] /\ \A q \in Pool : asg[q] <= Len(lt[q])
    BY DEF TypeOK, CloudOK, CallsOK
  <1> USE <1>0
  <1>1. CASE UNCHANGED <<lt, asg, vng>>
    BY <1>1
  <1>2. ASSUME NEW t \in SG, WritesVersion(t) PROVE Off(s, p)'
    <2>1. lt' = [lt EXCEPT ![pool[t]] = Append(lt[pool[t]], wanted[t])] /\ UNCHANGED <<asg, vng>>
      BY <1>2 DEF WritesVersion
    <2>2. CASE pool[t] # p
      BY <2>1, <2>2
    <2>3. CASE pool[t] = p /\ KindOf[p] = "vng"
      BY <2>1, <2>3
    <2>4. CASE pool[t] = p /\ KindOf[p] # "vng"
      <3>1. s \notin Latest(p)
        BY <2>4 DEF Latest
      <3>2. s \notin wanted[t]
        BY <1>2, <2>4, <3>1 DEF WritesVersion, OwnInv
      <3>3. lt'[p] = Append(lt[p], wanted[t]) /\ lt[p] \in Seq(SUBSET Group)
        BY <2>1, <2>4
      <3>4. /\ Len(lt'[p]) = Len(lt[p]) + 1 /\ Len(lt[p]) \in Nat
            /\ \A v \in 1..Len(lt[p]) : lt'[p][v] = lt[p][v]
            /\ lt'[p][Len(lt[p]) + 1] = wanted[t]
        BY <3>3
      <3>5. ASSUME NEW v \in asg'[p]..Len(lt'[p]) PROVE s \notin lt'[p][v]
        <4>1. asg'[p] = asg[p] /\ asg[p] \in Nat \ {0}
          BY <2>1
        <4>2. (v \in asg[p]..Len(lt[p]) /\ v \in 1..Len(lt[p])) \/ v = Len(lt[p]) + 1
          BY <3>4, <4>1
        <4> QED
          BY <2>4, <3>2, <3>4, <4>2
      <3> QED
        BY <2>4, <3>5
    <2> QED
      BY <2>2, <2>3, <2>4
  <1>3. ASSUME NEW t \in SG, RollsVersion(t) PROVE Off(s, p)'
    <2>1. asg' = [asg EXCEPT ![pool[t]] = Len(lt[pool[t]])] /\ UNCHANGED <<lt, vng>>
      BY <1>3 DEF RollsVersion
    <2>2. asg'[p] >= asg[p] /\ asg'[p] \in Nat /\ Len(lt[p]) \in Nat
      BY <2>1
    <2> QED
      BY <2>1, <2>2
  <1>4. ASSUME NEW t \in SG, WritesSpec(t) PROVE Off(s, p)'
    <2>1. vng' = [vng EXCEPT ![pool[t]] = wanted[t]] /\ UNCHANGED <<lt, asg>>
      BY <1>4 DEF WritesSpec
    <2>2. CASE pool[t] = p /\ KindOf[p] = "vng"
      BY <1>4, <2>1, <2>2 DEF WritesSpec, OwnInv
    <2>3. CASE pool[t] # p \/ KindOf[p] # "vng"
      BY <2>1, <2>3
    <2> QED
      BY <2>2, <2>3
  <1> QED
    BY <1>1, <1>2, <1>3, <1>4, PoolWrites DEF Writes

\* What Detaching says of s itself, and not of the pools.
SameRun(s) ==
    /\ pc'[s] = pc[s] /\ phase'[s] = phase[s] /\ todo'[s] = todo[s] /\ pool'[s] = pool[s]
    /\ wanted'[s] = wanted[s] /\ object'[s] = object[s] /\ csg'[s] = csg[s]
    /\ gaveUp'[s] = gaveUp[s] /\ spec'[s] = spec[s]

\* The steps of s and of its users.
Own(s) ==
    \/ Reconcile(s) \/ Lock(s) \/ ThenDetachRemoved(s) \/ Finish(s) \/ Unlock(s) \/ Save(s)
    \/ \E p \in Pool : DescribeASG(s, p) \/ ListVNGs(s, p) \/ ListKarpenterInstances(s, p)
    \/ ReadTemplate(s) \/ CreateVersion(s) \/ RollASG(s) \/ UpdateLaunchSpec(s)
    \/ DescribeVngInstances(s) \/ DescribeInstances(s)
    \/ \E i \in Instance : ModifyInstance(s, i)
    \/ Ends(s)
    \/ \E p \in Pool : FirstCallFails(s, p)
    \/ GroupNotReady(s) \/ DeleteFails(s) \/ SaveFails(s)
    \/ EditSpec(s) \/ DeleteSG(s) \/ DeleteGroup(s)

LEMMA OwnSteps ==
  ASSUME TypeOK, Next
  PROVE  /\ \A s \in SG : SameRun(s) \/ Own(s) \/ Restart
         /\ \A s \in SG : Own(s) /\ ~ EditSpec(s) => spec' = spec
         /\ edits' = 0 => edits = 0 /\ spec' = spec
  <1> USE DEF object_vars, cloud_vars, call_vars, run_vars
  <1> DEFINE Frame(t) == UNCHANGED <<spec, edits>> /\ \A s \in SG \ {t} : SameRun(s)
  <1>0. /\ pc \in [SG -> Step] /\ pool \in [SG -> Pool] /\ wanted \in [SG -> SUBSET Group]
        /\ phase \in [SG -> {"attach", "detach", "delete"}] /\ todo \in [SG -> SUBSET Pool]
        /\ object \in [SG -> {"live", "deleting", "gone"}] /\ csg \in [SG -> BOOLEAN]
        /\ gaveUp \in [SG -> BOOLEAN] /\ spec \in [SG -> SUBSET Pool] /\ edits \in Nat
    BY DEF TypeOK, ObjectsOK, RunsOK, CallsOK
  <1> USE <1>0 DEF SameRun
  <1>1. ASSUME NEW t \in SG, Reconcile(t) \/ Lock(t) \/ DeleteSG(t) \/ DeleteGroup(t) PROVE Frame(t)
    BY <1>1 DEF Reconcile, Lock, DeleteSG, DeleteGroup
  <1>2. ASSUME NEW t \in SG, ThenDetachRemoved(t) \/ Finish(t) \/ Unlock(t) PROVE Frame(t)
    BY <1>2 DEF ThenDetachRemoved, Finish, Unlock
  <1>3. ASSUME NEW t \in SG, Save(t) \/ SaveFails(t) PROVE Frame(t)
    BY <1>3 DEF Save, SaveFails, End
  <1>4. ASSUME NEW t \in SG, GroupNotReady(t) \/ DeleteFails(t) PROVE Frame(t)
    BY <1>4 DEF GroupNotReady, DeleteFails
  <1>5. ASSUME NEW t \in SG, NEW p \in Pool,
               DescribeASG(t, p) \/ ListVNGs(t, p) \/ ListKarpenterInstances(t, p)
        PROVE  Frame(t)
    BY <1>5 DEF DescribeASG, ListVNGs, ListKarpenterInstances, Turn
  <1>6. ASSUME NEW t \in SG, NEW p \in Pool, FirstCallFails(t, p) PROVE Frame(t)
    BY <1>6 DEF FirstCallFails
  <1>7. ASSUME NEW t \in SG, ReadTemplate(t) \/ CreateVersion(t) \/ RollASG(t) \/ UpdateLaunchSpec(t)
                             \/ DescribeVngInstances(t) \/ DescribeInstances(t)
        PROVE  Frame(t)
    BY <1>7 DEF ReadTemplate, CreateVersion, RollASG, UpdateLaunchSpec, DescribeVngInstances,
                DescribeInstances
  <1>8. ASSUME NEW t \in SG, NEW i \in Instance, ModifyInstance(t, i) PROVE Frame(t)
    BY <1>8 DEF ModifyInstance
  <1>9. ASSUME NEW t \in SG, Ends(t) PROVE Frame(t)
    <2>1. /\ UNCHANGED <<spec, object, csg, phase, edits>> /\ Return(t)
          /\ \E rest \in SUBSET todo[t] : todo' = [todo EXCEPT ![t] = rest]
          /\ \A s \in SG \ {t} : gaveUp'[s] = gaveUp[s]
      BY <1>9, PoolEnds
    <2> QED
      BY <2>1 DEF Return
  <1>10. ASSUME NEW t \in SG, EditSpec(t)
         PROVE  edits' # 0 /\ \A s \in SG \ {t} : SameRun(s)
    BY <1>10 DEF EditSpec
  <1>11. ASSUME NEW i \in Instance, Launch(i) \/ ShutDown(i) \/ Terminate(i)
         PROVE  UNCHANGED <<spec, edits>> /\ \A s \in SG : SameRun(s)
    BY <1>11 DEF Launch, ShutDown, Terminate
  <1>12. Restart => UNCHANGED <<spec, edits>>
    BY DEF Restart
  <1> HIDE DEF SameRun, Frame
  <1>13. ASSUME NEW t \in SG, Own(t), ~ EditSpec(t) PROVE Frame(t)
    BY <1>1, <1>2, <1>3, <1>4, <1>5, <1>6, <1>7, <1>8, <1>9, <1>13 DEF Own
  <1>14. \/ \E t \in SG : Own(t)
         \/ \E i \in Instance : Launch(i) \/ ShutDown(i) \/ Terminate(i)
         \/ Restart
    BY Steps DEF Own
  <1>15. ASSUME NEW t \in SG, Own(t)
         PROVE  /\ \A s \in SG : SameRun(s) \/ Own(s)
                /\ edits' = 0 => edits = 0 /\ spec' = spec
    BY <1>10, <1>13, <1>15 DEF Frame
  <1> QED
    BY <1>11, <1>12, <1>13, <1>14, <1>15 DEF Frame

-----------------------------------------------------------------------------
(* A deletion keeps what it has detached.                                  *)

\* Pools no reconcile has written, and those a deletion is through with, stay
\* off whatever step is made.
LEMMA OffKept ==
  ASSUME TypeOK, KindInv, FreshInv, SpecInv, OwnInv, Next, NEW s \in SG, Detaching(s),
         NEW p \in Pool, Off(s, p), Foreign(s, p) \/ phase[s] = "delete" \/ ~csg[s]
  PROVE  Off(s, p)'
  <1>1. pc[s] \in {"create", "spec"} =>
           /\ KindOf[pool[s]] # "karpenter" /\ pc[s] \in Locked \cap Working
           /\ edits = 0 => pool[s] \in spec[s]
    BY DEF SpecInv, KindInv, Working, Locked
  <1>2. pc[s] \in {"create", "spec"} /\ pool[s] = p => s \notin wanted[s]
    BY <1>1 DEF Detaching, Deleting, Deleted, Foreign
  <1> QED
    BY <1>2, OffStays

LEMMA ForeignKept ==
  ASSUME TypeOK, KindInv, FreshInv, SpecInv, OwnInv, Next, NEW s \in SG, Detaching(s),
         NEW p \in Pool, Foreign(s, p)'
  PROVE  Off(s, p)'
  <1>1. Foreign(s, p)
    BY OwnSteps DEF Foreign
  <1> QED
    BY <1>1, OffKept DEF Detaching

LEMMA OthersDetaching ==
  ASSUME TypeOK, KindInv, FreshInv, OneWriterPerPool, SpecInv, OwnInv, Next,
         NEW s \in SG, Detaching(s), SameRun(s)
  PROVE  Detaching(s)'
  <1>1. \A p \in Pool : Foreign(s, p)' => Off(s, p)'
    BY ForeignKept
  <1>2. spec[s] \subseteq Pool
    BY DEF TypeOK, ObjectsOK
  <1>3. ASSUME phase[s] = "delete" PROVE Deleting(s)'
    <2>1. Deleting(s)
      BY <1>3 DEF Detaching
    <2>2. \A p \in Pool : Off(s, p) => Off(s, p)'
      BY <1>3, OffKept
    <2>3. \A p \in Pool : Underway(s, p) => Underway(s, p)'
      BY DEF Underway, SameRun
    <2>4. pc[s] \in Locked /\ ~gaveUp[s] =>
             \A p \in spec[s] \ todo[s] : Off(s, p)' \/ Underway(s, p)'
      BY <1>2, <2>1, <2>2, <2>3 DEF Deleting
    <2>5. ASSUME pc[s] = "roll" PROVE s \notin Latest(pool[s])'
      <3>1. pool[s] \in Pool /\ pool'[s] = pool[s] /\ lt \in [Pool -> Seq(SUBSET Group)]
        BY DEF TypeOK, CallsOK, CloudOK, SameRun
      <3>2. lt'[pool[s]] = lt[pool[s]]
        <4>1. ASSUME NEW t \in SG, Writes(t) PROVE lt'[pool[s]] = lt[pool[s]]
          <5>1. t # s /\ pc[t] \in Working /\ pc[s] \in Working
            BY <2>5, <4>1 DEF Writes, SameRun, Working
          <5>2. pool[t] # pool[s]
            BY <5>1 DEF OneWriterPerPool
          <5> QED
            BY <3>1, <4>1, <5>2 DEF Writes, WritesVersion, RollsVersion, WritesSpec
        <4> QED
          BY <4>1, PoolWrites
      <3> QED
        BY <2>1, <2>5, <3>1, <3>2 DEF Deleting, Latest
    <2> QED
      BY <2>1, <2>4, <2>5 DEF Deleting, SameRun
  <1>4. ASSUME ~csg[s] PROVE Deleted(s)'
    <2>1. Deleted(s)
      BY <1>4 DEF Detaching
    <2>2. ~gaveUp[s] => \A p \in spec[s] : Off(s, p)'
      BY <1>2, <1>4, <2>1, OffKept DEF Deleted
    <2> QED
      BY <2>1, <2>2 DEF Deleted, SameRun
  <1> QED
    BY <1>1, <1>3, <1>4 DEF Detaching, SameRun

LEMMA RestartDetaching ==
  ASSUME TypeOK, KindInv, FreshInv, SpecInv, OwnInv, Next, Restart, NEW s \in SG, Detaching(s)
  PROVE  Detaching(s)'
  <1>1. /\ pc'[s] = "idle" /\ phase'[s] = "attach"
        /\ UNCHANGED <<spec, object, csg, lt, asg, vng, gaveUp>>
    BY DEF Restart, object_vars, cloud_vars
  <1>2. \A p \in Pool : Foreign(s, p)' => Off(s, p)'
    BY ForeignKept
  <1>3. ~csg[s] => Deleted(s)'
    BY <1>1 DEF Detaching, Deleted, Off, Locked
  <1> QED
    BY <1>1, <1>2, <1>3 DEF Detaching

\* The own steps of a SecurityGroup.
LEMMA OwnDetaching ==
  ASSUME TypeOK, KindInv, FreshInv, SpecInv, OwnInv, Next,
         NEW s \in SG, Detaching(s), Own(s)
  PROVE  Detaching(s)'
  <1> USE DEF object_vars, cloud_vars, call_vars, run_vars
  <1>0. /\ pc \in [SG -> Step] /\ pool \in [SG -> Pool] /\ wanted \in [SG -> SUBSET Group]
        /\ phase \in [SG -> {"attach", "detach", "delete"}] /\ todo \in [SG -> SUBSET Pool]
        /\ object \in [SG -> {"live", "deleting", "gone"}] /\ csg \in [SG -> BOOLEAN]
        /\ gaveUp \in [SG -> BOOLEAN]
        /\ spec[s] \subseteq Pool /\ vng \in [Pool -> SUBSET Group]
    BY DEF TypeOK, ObjectsOK, CloudOK, RunsOK, CallsOK
  <1> USE <1>0
  <1>1. \A p \in Pool : Foreign(s, p)' => Off(s, p)'
    BY ForeignKept
  <1>2. \A p \in Pool : Off(s, p) /\ (phase[s] = "delete" \/ ~csg[s]) => Off(s, p)'
    BY OffKept
  <1>3. ASSUME phase'[s] = "delete" => Deleting(s)', ~csg'[s] => Deleted(s)'
        PROVE  Detaching(s)'
    BY <1>1, <1>3 DEF Detaching
  <1>4. /\ phase[s] = "delete" => Deleting(s) /\ object[s] # "live"
        /\ ~csg[s] => Deleted(s)
    BY DEF Detaching, SpecInv
  <1>5. ~ EditSpec(s) => spec' = spec
    BY OwnSteps
  <1>6. \A p \in Pool : Foreign(s, p) => Off(s, p)
    BY DEF Detaching
  <1>7. \A p \in Pool : Underway(s, p) /\ UNCHANGED <<pc, pool>> => Underway(s, p)'
    BY DEF Underway
  <1>8. CASE EditSpec(s)
    <2>1. object[s] = "live" /\ UNCHANGED <<phase, csg>>
      BY <1>8 DEF EditSpec
    <2> QED
      BY <1>3, <1>4, <2>1 DEF Deleted
  <1>9. CASE Reconcile(s)
    <2>1. /\ pc[s] = "idle" /\ pc'[s] = "lock" /\ UNCHANGED <<spec, object, csg, gaveUp>>
          /\ object[s] = "deleting" => phase'[s] = "delete"
          /\ object[s] # "gone"
      BY <1>9 DEF Reconcile
    <2> QED
      BY <1>2, <1>3, <1>4, <2>1 DEF Deleting, Deleted, Locked
  <1>10. CASE Lock(s)
    <2>1. /\ pc[s] = "lock" /\ pc'[s] = "next" /\ UNCHANGED <<phase, object, csg, spec>>
          /\ todo'[s] = IF phase[s] = "delete" /\ ~csg[s] THEN {} ELSE seen[s]
          /\ gaveUp'[s] = (gaveUp[s] /\ ~csg[s])
      BY <1>10 DEF Lock
    <2>2. ~csg[s] => phase[s] = "delete"
      BY <1>4, <2>1 DEF Deleted
    <2>3. phase[s] = "delete" => seen[s] = spec[s]
      BY <2>1 DEF SpecInv
    <2>4. phase'[s] = "delete" => Deleting(s)'
      BY <1>2, <1>4, <2>1, <2>3 DEF Deleting, Deleted
    <2>5. ~csg'[s] => Deleted(s)'
      BY <1>2, <1>4, <2>1, <2>2 DEF Deleted, Working
    <2> QED
      BY <1>3, <2>4, <2>5
  <1>11. CASE ThenDetachRemoved(s)
    BY <1>3, <1>4, <1>11 DEF ThenDetachRemoved, Deleted
  <1>12. CASE Finish(s) \/ DeleteFails(s)
    <2>1. /\ pc[s] = "next" /\ pc'[s] = "unlock"
          /\ UNCHANGED <<phase, object, todo, gaveUp, spec>>
          /\ csg[s] /\ ~csg'[s] => phase[s] = "delete" /\ todo[s] = {}
          /\ ~csg[s] => ~csg'[s]
      BY <1>12 DEF Finish, DeleteFails
    <2>2. phase[s] = "delete" /\ ~gaveUp[s] => \A p \in spec[s] \ todo[s] : Off(s, p)'
      BY <1>2, <1>4, <2>1 DEF Deleting, Underway, Locked
    <2>3. phase'[s] = "delete" => Deleting(s)'
      BY <2>1, <2>2 DEF Deleting
    <2>4. CASE csg[s] /\ ~csg'[s]
      BY <1>4, <2>1, <2>2, <2>3, <2>4, <1>3 DEF Deleted, Working
    <2>5. CASE ~csg[s]
      BY <1>2, <1>3, <1>4, <2>1, <2>3, <2>5 DEF Deleted, Working, Locked
    <2> QED
      BY <1>3, <2>3, <2>4, <2>5
  <1>13. CASE Unlock(s) \/ Save(s) \/ SaveFails(s) \/ GroupNotReady(s)
    <2>1. CASE Unlock(s)
      BY <1>2, <1>3, <1>4, <2>1 DEF Unlock, Deleting, Deleted, Locked
    <2>2. CASE Save(s) \/ SaveFails(s)
      <3>1. /\ pc'[s] = "idle" /\ phase'[s] = "attach" /\ UNCHANGED <<csg, spec, gaveUp>>
            /\ object[s] # "live" => object'[s] # "live"
        BY <2>2 DEF Save, SaveFails, End
      <3> QED
        BY <1>2, <1>3, <1>4, <3>1 DEF Deleted, Locked
    <2>3. CASE GroupNotReady(s)
      BY <1>3, <1>4, <2>3 DEF GroupNotReady, Deleted
    <2> QED
      BY <1>13, <2>1, <2>2, <2>3
  <1>14. CASE DeleteSG(s) \/ DeleteGroup(s)
    <2>1. CASE DeleteSG(s)
      BY <1>2, <1>3, <1>4, <1>7, <2>1 DEF DeleteSG, Deleting, Deleted, Locked, Latest
    <2>2. CASE DeleteGroup(s)
      BY <1>2, <1>3, <1>4, <1>7, <2>2 DEF DeleteGroup, Deleting, Deleted, Locked, Latest
    <2> QED
      BY <1>14, <2>1, <2>2
  <1>15. ASSUME NEW p \in Pool, DescribeASG(s, p) \/ ListVNGs(s, p) \/ ListKarpenterInstances(s, p)
         PROVE  Detaching(s)'
    <2>1. /\ Turn(s, p) /\ UNCHANGED <<phase, object, csg, gaveUp, spec>>
          /\ pc'[s] # "lock" /\ pc'[s] # "create" /\ pc'[s] # "roll"
      BY <1>15 DEF DescribeASG, ListVNGs, ListKarpenterInstances
    <2>2. csg[s]
      BY <1>4, <2>1 DEF Deleted, Turn, Locked
    <2>3. ASSUME phase[s] = "delete" PROVE Off(s, p)' \/ Underway(s, p)'
      <3>1. CASE DescribeASG(s, p)
        BY <2>1, <3>1 DEF DescribeASG, Turn, Underway
      <3>2. CASE ListKarpenterInstances(s, p)
        BY <1>2, <1>6, <2>3, <3>2 DEF ListKarpenterInstances, Foreign
      <3>3. CASE ListVNGs(s, p)
        <4>1. wanted'[s] = vng[p] \ {s} /\ pool'[s] = p /\ vng' = vng /\ KindOf[p] = "vng"
          BY <2>3, <3>3 DEF ListVNGs, Turn, Wanted, WithoutGroup, LaunchSpec
        <4>2. CASE s \in vng[p]
          BY <3>3, <4>1, <4>2 DEF ListVNGs, LaunchSpec, Underway
        <4>3. CASE s \notin vng[p]
          BY <4>1, <4>3 DEF Off
        <4> QED
          BY <4>2, <4>3
      <3> QED
        BY <1>15, <3>1, <3>2, <3>3
    <2>4. ASSUME phase[s] = "delete", pc'[s] = "spec" PROVE s \notin wanted'[s]
      BY <1>15, <2>4 DEF DescribeASG, ListVNGs, ListKarpenterInstances, Wanted, WithoutGroup
    <2>5. ASSUME phase[s] = "delete", ~gaveUp[s], NEW q \in spec[s] \ todo'[s], q # p
          PROVE  Off(s, q)'
      <3>1. q \notin todo[s] /\ pc[s] = "next"
        BY <2>1, <2>5 DEF Turn
      <3>2. Off(s, q)
        BY <1>4, <2>5, <3>1 DEF Deleting, Underway, Locked
      <3> QED
        BY <1>2, <2>5, <3>2
    <2> QED
      BY <1>3, <1>4, <2>1, <2>2, <2>3, <2>4, <2>5 DEF Deleting
  <1>16. CASE ReadTemplate(s)
    <2>1. /\ pc[s] = "template" /\ UNCHANGED <<phase, object, csg, pool, todo, gaveUp, spec>>
          /\ phase[s] = "delete" => pc'[s] = "create" /\ s \notin wanted'[s]
      BY <1>16 DEF ReadTemplate, Wanted, WithoutGroup
    <2>2. csg[s]
      BY <1>4, <2>1 DEF Deleted, Locked, Working
    <2>3. ASSUME phase[s] = "delete", ~gaveUp[s], NEW p \in spec[s] \ todo[s]
          PROVE  Off(s, p)' \/ Underway(s, p)'
      BY <1>2, <1>4, <2>1, <2>3 DEF Deleting, Underway, Locked
    <2> QED
      BY <1>3, <2>1, <2>2, <2>3 DEF Deleting
  <1>17. CASE CreateVersion(s) \/ RollASG(s) \/ UpdateLaunchSpec(s)
    <2>1. /\ pc[s] \in {"create", "roll", "spec"}
          /\ UNCHANGED <<phase, object, csg, pool, todo, wanted, gaveUp, spec>>
      BY <1>17 DEF CreateVersion, RollASG, UpdateLaunchSpec
    <2>2. csg[s]
      BY <1>4, <2>1 DEF Deleted, Locked, Working
    <2>3. lt \in [Pool -> Seq(SUBSET Group)] /\ asg \in [Pool -> Nat \ {0}] /\ pool[s] \in Pool
      BY DEF TypeOK, CloudOK
    <2>4. ASSUME phase[s] = "delete" PROVE Deleting(s)'
      <3>1. ~gaveUp[s] => \A p \in spec[s] \ todo[s] : p # pool[s] => Off(s, p)'
        BY <1>2, <1>4, <2>1, <2>4 DEF Deleting, Underway, Locked
      <3>2. CASE CreateVersion(s)
        <4>1. pc[s] = "create" /\ pc'[s] = "roll" /\ Latest(pool[s])' = wanted[s]
          BY <2>1, <2>3, <3>2 DEF CreateVersion, NewVersion, Latest
        <4> QED
          BY <1>4, <2>1, <2>4, <3>1, <4>1 DEF Deleting, Underway
      <3>3. CASE RollASG(s)
        <4>1. pc[s] = "roll" /\ pc'[s] = "instances" /\ lt' = lt
          BY <3>3 DEF RollASG
        <4>2. KindOf[pool[s]] = "asg" /\ s \notin Latest(pool[s])
          BY <1>4, <2>4, <4>1 DEF Deleting, KindInv
        <4>3. asg'[pool[s]] = Len(lt[pool[s]]) /\ Len(lt[pool[s]]) \in Nat
          BY <2>3, <3>3, <4>1, RollsToLatest DEF RollASG
        <4>4. Off(s, pool[s])'
          BY <2>1, <4>1, <4>2, <4>3 DEF Off, Latest
        <4> QED
          BY <2>1, <3>1, <4>1, <4>4 DEF Deleting
      <3>4. CASE UpdateLaunchSpec(s)
        <4>1. pc[s] = "spec" /\ pc'[s] = "running" /\ vng' = [vng EXCEPT ![pool[s]] = wanted[s]]
          BY <3>4 DEF UpdateLaunchSpec, NewLaunchSpec
        <4>2. KindOf[pool[s]] = "vng" /\ s \notin wanted[s]
          BY <1>4, <2>4, <4>1 DEF Deleting, KindInv
        <4>3. Off(s, pool[s])'
          BY <2>1, <2>3, <4>1, <4>2 DEF Off
        <4> QED
          BY <2>1, <3>1, <4>1, <4>3 DEF Deleting
      <3> QED
        BY <1>17, <3>2, <3>3, <3>4
    <2> QED
      BY <1>3, <2>1, <2>2, <2>4
  <1>18. ASSUME pc[s] \in {"running", "instances", "modify"},
                pc'[s] \in {"instances", "modify", "next"},
                phase[s] = "delete" => todo'[s] = todo[s] /\ gaveUp'[s] = gaveUp[s],
                UNCHANGED <<phase, object, csg, spec>>
         PROVE  Detaching(s)'
    <2>1. csg[s]
      BY <1>4, <1>18 DEF Deleted, Locked, Working
    <2>2. ASSUME phase[s] = "delete", ~gaveUp[s], NEW p \in spec[s] \ todo[s] PROVE Off(s, p)'
      BY <1>2, <1>4, <1>18, <2>2 DEF Deleting, Underway, Locked
    <2> QED
      BY <1>3, <1>18, <2>1, <2>2 DEF Deleting
  <1>19. CASE DescribeVngInstances(s) \/ DescribeInstances(s)
    BY <1>18, <1>19 DEF DescribeVngInstances, DescribeInstances
  <1>20. ASSUME NEW i \in Instance, ModifyInstance(s, i)
         PROVE  Detaching(s)'
    BY <1>18, <1>20 DEF ModifyInstance
  <1>21. ASSUME csg[s], pc'[s] = "next", phase[s] = "delete" => gaveUp'[s], UNCHANGED <<phase, csg>>
         PROVE  Detaching(s)'
    BY <1>3, <1>21 DEF Deleting
  <1>22. CASE Ends(s)
    <2>1. /\ pc[s] \in Working /\ pc'[s] = "next" /\ UNCHANGED <<phase, object, csg, spec>>
          /\ phase[s] = "delete" => EndsWell(s)
      BY <1>22, PoolEnds DEF Return
    <2>2. csg[s]
      BY <1>4, <2>1 DEF Deleted, Locked, Working
    <2>3. CASE phase[s] = "delete" /\ pc[s] \in {"instances", "modify"} /\ UNCHANGED <<todo, gaveUp>>
      BY <1>18, <2>1, <2>3
    <2>4. CASE phase[s] = "delete" => gaveUp'[s]
      BY <1>21, <2>1, <2>2, <2>4
    <2> QED
      BY <2>1, <2>3, <2>4 DEF EndsWell
  <1>23. ASSUME NEW p \in Pool, FirstCallFails(s, p) PROVE Detaching(s)'
    <2>1. /\ pc[s] = "next" /\ todo[s] # {} /\ pc' = pc /\ UNCHANGED <<phase, csg>>
          /\ phase[s] = "delete" => gaveUp'[s]
      BY <1>23 DEF FirstCallFails
    <2>2. csg[s]
      BY <1>4, <2>1 DEF Deleted, Locked
    <2> QED
      BY <1>21, <2>1, <2>2
  <1> QED
    BY <1>8, <1>9, <1>10, <1>11, <1>12, <1>13, <1>14, <1>15, <1>16, <1>17, <1>19, <1>20, <1>22, <1>23
    DEF Own

-----------------------------------------------------------------------------
(* The theorem.                                                            *)

LEMMA NextDetachInv ==
  Inv /\ OneWriterPerPool /\ DetachInv /\ [Next]_vars => DetachInv'
  <1> SUFFICES ASSUME Inv, OneWriterPerPool, DetachInv, [Next]_vars
               PROVE  DetachInv'
    OBVIOUS
  <1>1. CASE Next
    <2>1. TypeOK /\ KindInv /\ FreshInv /\ SpecInv /\ OwnInv
      BY DEF Inv, DetachInv
    <2>2. SpecInv'
      BY <1>1, <2>1, SpecInvStep
    <2>3. OwnInv'
      BY <1>1, <2>1, OwnInvStep
    <2>4. \A s \in SG : Detaching(s)'
      BY <1>1, <2>1, OwnSteps, OthersDetaching, OwnDetaching, RestartDetaching DEF DetachInv
    <2> QED
      BY <2>2, <2>3, <2>4 DEF DetachInv
  <1>2. CASE UNCHANGED vars
    BY <1>2 DEF DetachInv, SpecInv, OwnInv, Detaching, Foreign, Off, Deleting, Deleted, Underway, Latest,
                vars, object_vars, cloud_vars, call_vars, run_vars
  <1> QED
    BY <1>1, <1>2

\* A deletion deletes the Crossplane SecurityGroup only when no pool it
\* references launches with its group any more, or a failed detach was logged;
\* and no other reconcile, late call or restart puts the group back.
THEOREM DetachedHolds == ASSUME SingleCluster PROVE Spec => []DetachedBeforeDeleted
  <1>1. Init => DetachInv
    BY InitDetachInv
  <1>2. Inv => OneWriterPerPool
    BY LockExcludes DEF Inv
  <1>3. Inv /\ DetachInv /\ [Next]_vars => DetachInv'
    BY <1>2, NextDetachInv
  <1>4. Inv /\ DetachInv => DetachedBeforeDeleted
    <2> SUFFICES ASSUME TypeOK, NEW s \in SG, Detaching(s), NEW p \in Pool,
                        ~csg[s], ~gaveUp[s], p \in spec[s] \/ edits = 0
                 PROVE  s \notin LaunchGroups(p)
      BY DEF Inv, DetachInv, DetachedBeforeDeleted
    <2>1. Off(s, p)
      BY DEF Detaching, Deleted, Foreign
    <2>2. asg[p] \in asg[p]..Len(lt[p])
      BY DEF TypeOK, CloudOK
    <2> QED
      BY <2>1, <2>2 DEF Off, LaunchGroups
  <1> QED
    BY <1>1, <1>3, <1>4, Invariance, PTL DEF Spec

=============================================================================
