-------------------------- MODULE DryRunPlanProofs --------------------------
(***************************************************************************)
(* Proofs about DryRunPlan, for all lists of Clusters and SecurityGroups,  *)
(* worker counts and bounds: no target is lost, the phases are apart, the  *)
(* plan holds what the last attempts wrote, and its exit code tells        *)
(* whether it is complete.                                                 *)
(***************************************************************************)
EXTENDS DryRunPlan, FiniteSetTheorems, TLAPS

\* What is listed of a kind.
Listed(k) == IF k = "Cluster" THEN Clusters ELSE SecurityGroups

Untouched(s) == doing[s] = "no" /\ results[s] = None

\* Where a target is between the list and its outcome.
QueueInv ==
    /\ step \notin {"check", "select"} => left = {} /\ Busy = {}
    /\ step = "select" => offered # None /\ offered \notin left
    /\ step # "select" => offered = None
    /\ left \cup Busy \subseteq Listed(kind)
    /\ offered # None => offered \in Listed(kind) /\ Untouched(offered)
    /\ \A s \in left : Untouched(s)
    /\ step \in {"sync", "list"} => \A s \in Listed(kind) : Untouched(s)
    /\ step = "sync" => kind = "Cluster" /\ targets = {}
    /\ kind = "Cluster" => \A s \in SecurityGroups : Untouched(s)
    /\ \A s \in Busy : results[s] = None
    /\ \A s \in targets : results[s] # None \/ s \in left \cup Busy \/ s = offered

\* What a source wrote in its last attempt is what the plan has of it.
WrittenBy(s) ==
    /\ \A o \in Object :
         IF objects[o][s] = None
           THEN \A verb \in Verb : <<verb, o>> \notin did[s]
           ELSE /\ objects[o][s].created <=> <<"create", o>> \in did[s]
                /\ objects[o][s].deleted <=> <<"delete", o>> \in did[s]
    /\ \A c \in Change : s \in cloud[c] <=> <<"cloud", c>> \in did[s]
    /\ writeErrors[s] # None <=> failed[s]

\* An outcome is that of the last attempt.
OutcomeInv ==
    \A s \in Source :
        /\ doing[s] = "no" => did[s] = {} /\ ~failed[s]
        /\ results[s] = "skipped" => doing[s] = "no"
        /\ results[s] = "ok" => doing[s] = "done" /\ ~failed[s]

ExitInv ==
    /\ step # "printed" => exit = None
    /\ CleanExit

-----------------------------------------------------------------------------
(* Types.                                                                  *)

MainOK ==
    /\ expired \in BOOLEAN
    /\ step \in {"sync", "list", "check", "select", "print", "printed"}
    /\ kind \in {"Cluster", "SecurityGroup"}
    /\ left \subseteq Source
    /\ offered \in Source \cup {None}
    /\ exit \in {None, 0, 1, 2}
    /\ targets \subseteq Source

WorkOK ==
    /\ present \in [Object -> {"absent", "live", "deleting"}]
    /\ doing \in [Source -> {"no", "running", "done"}]
    /\ attempt \in [Source -> {1, 2}]
    /\ budget \in 0..MaxWrites /\ faults \in 0..MaxFaults
    /\ returned \in [Source -> Error \cup {None}]
    /\ did \in [Source -> SUBSET ((Verb \X Object) \cup ({"cloud"} \X Change))]
    /\ failed \in [Source -> BOOLEAN]

PlanOK ==
    /\ objects \in [Object -> [Source -> Write \cup {None}]]
    /\ cloud \in [Change -> SUBSET Source]
    /\ results \in [Source \cup {Run} -> Status \cup {None}]
    /\ writeErrors \in [Source -> Error \cup {None}]

LEMMA TypeOKParts == TypeOK <=> MainOK /\ WorkOK /\ PlanOK
  BY DEF TypeOK, MainOK, WorkOK, PlanOK

LEMMA ErrorFacts ==
  /\ \A k \in {"conflict", "notfound", "exists", "unavailable", "other", "soon"} :
         \A o \in Object \cup {None} : Err(k, o) \in Error
  /\ \A o \in Object, verb \in Verb : Refusals(o, verb) \subseteq Error
  <1>1. \A k \in {"conflict", "notfound", "exists", "unavailable", "other", "soon"} :
            \A o \in Object \cup {None} : Err(k, o) \in Error
    BY DEF Err, Error
  <1>2. ASSUME NEW o \in Object, NEW verb \in Verb PROVE Refusals(o, verb) \subseteq Error
    <2>1. Refusals(o, verb) \subseteq {Err("other", None), Err("exists", o), Err("notfound", o), Err("conflict", o)}
      BY DEF Refusals
    <2> QED
      BY <1>1, <2>1
  <1> QED
    BY <1>1, <1>2

LEMMA RecordedFacts ==
  ASSUME PlanOK, NEW s \in Source, NEW o \in Object, NEW verb \in Verb,
         NEW content \in {"same", "changed"}
  PROVE  /\ WriteFor(s, o) \in Write
         /\ Recorded(s, o, verb, content) \in Write
         /\ Recorded(s, o, verb, content).created <=> WriteFor(s, o).created \/ verb = "create"
         /\ Recorded(s, o, verb, content).deleted <=> WriteFor(s, o).deleted \/ verb = "delete"
  <1>1. WriteFor(s, o) \in Write
    BY DEF WriteFor, PlanOK, NewWrite, Write
  <1> QED
    BY <1>1 DEF Recorded, Write, Verb

LEMMA InitTypeOK == Init => TypeOK
  <1> SUFFICES ASSUME Init PROVE MainOK /\ WorkOK /\ PlanOK
    BY TypeOKParts
  <1>1. MainOK
    BY DEF Init, MainOK
  <1>2. WorkOK
    BY ConstantsAssumption DEF Init, WorkOK
  <1>3. PlanOK
    BY DEF Init, PlanOK
  <1> QED
    BY <1>1, <1>2, <1>3

LEMMA MainOKStep == TypeOK /\ [Next]_vars => MainOK'
  <1> SUFFICES ASSUME TypeOK, [Next]_vars PROVE MainOK'
    OBVIOUS
  <1> USE DEF MainOK, main, work, plan
  <1>0. MainOK
    BY TypeOKParts
  <1>1. CASE UNCHANGED vars
    BY <1>0, <1>1 DEF vars
  <1>2. CASE Sync
    BY <1>0, <1>2 DEF Sync, Fails
  <1>3. CASE List
    BY <1>0, <1>3 DEF List, Fails, Source
  <1>4. CASE Check
    <2>1. step' \in {step, "select"} /\ offered' \in left \cup {offered} /\ left' \subseteq left
      BY <1>4 DEF Check
    <2> QED
      BY <1>0, <1>4, <2>1 DEF Check
  <1>5. CASE Hand \/ NotHanded \/ CloseAndWait
    BY <1>0, <1>5 DEF Hand, NotHanded, CloseAndWait
  <1>6. CASE Report
    BY <1>0, <1>6 DEF Report, ExitCode
  <1>7. CASE Expire
    BY <1>0, <1>7 DEF Expire
  <1>8. ASSUME NEW s \in Source, Reconcile(s) PROVE MainOK'
    BY <1>0, <1>8 DEF Reconcile, Step, Stop, Again, Finish
  <1> QED
    BY <1>1, <1>2, <1>3, <1>4, <1>5, <1>6, <1>7, <1>8 DEF Next, Main

LEMMA WorkOKStep == TypeOK /\ [Next]_vars => WorkOK'
  <1> SUFFICES ASSUME TypeOK, [Next]_vars PROVE WorkOK'
    OBVIOUS
  <1> USE ConstantsAssumption DEF WorkOK, main, work, plan
  <1>0. WorkOK /\ MainOK
    BY TypeOKParts
  <1>1. CASE UNCHANGED vars
    BY <1>0, <1>1 DEF vars
  <1>2. CASE Sync \/ List \/ Check \/ NotHanded \/ CloseAndWait \/ Report \/ Expire
    BY <1>0, <1>2 DEF Sync, List, Check, NotHanded, CloseAndWait, Report, Expire
  <1>3. CASE Hand
    BY <1>0, <1>3 DEF Hand, MainOK
  <1>4. ASSUME NEW s \in Source, NEW o \in Object, NEW verb \in Verb,
               Accepted(s, o, verb), Step(s)
        PROVE  WorkOK'
    BY <1>0, <1>4 DEF Accepted, Step
  <1>5. ASSUME NEW s \in Source, NEW o \in Object, NEW verb \in Verb,
               Refused(s, o, verb), Step(s)
        PROVE  WorkOK'
    <2>1. PICK e \in Error : /\ returned' \in {returned, [returned EXCEPT ![s] = IF @ = None THEN e ELSE @]}
                             /\ failed' \in {failed, [failed EXCEPT ![s] = TRUE]}
      BY <1>5, ErrorFacts DEF Refused
    <2>2. returned' \in [Source -> Error \cup {None}]
      BY <1>0, <2>1
    <2>3. failed' \in [Source -> BOOLEAN]
      BY <1>0, <2>1
    <2> QED
      BY <1>0, <1>5, <2>2, <2>3 DEF Refused, Step
  <1>6. ASSUME NEW s \in Source, NEW c \in Change, CloudWrite(s, c), Step(s)
        PROVE  WorkOK'
    <2>1. /\ returned' \in {returned, [returned EXCEPT ![s] = IF @ = None THEN Err("other", None) ELSE @]}
          /\ failed' \in {failed, [failed EXCEPT ![s] = TRUE]}
          /\ did' \in {did, [did EXCEPT ![s] = @ \cup {<<"cloud", c>>}]}
          /\ faults' \in 0..MaxFaults
      BY <1>0, <1>6 DEF CloudWrite
    <2>2. returned' \in [Source -> Error \cup {None}]
      BY <1>0, <2>1, ErrorFacts
    <2>3. failed' \in [Source -> BOOLEAN]
      BY <1>0, <2>1
    <2>4. did' \in [Source -> SUBSET ((Verb \X Object) \cup ({"cloud"} \X Change))]
      BY <1>0, <2>1
    <2> QED
      BY <1>0, <1>6, <2>1, <2>2, <2>3, <2>4 DEF Step
  <1>7. ASSUME NEW s \in Source, Stop(s) PROVE WorkOK'
    <2>1. PICK e \in Error : returned' = [returned EXCEPT ![s] = e]
      BY <1>7, ErrorFacts DEF Stop
    <2> QED
      BY <1>0, <1>7, <2>1 DEF Stop
  <1>8. ASSUME NEW s \in Source, Again(s) PROVE WorkOK'
    BY <1>0, <1>8 DEF Again
  <1>9. ASSUME NEW s \in Source, Finish(s) PROVE WorkOK'
    BY <1>0, <1>9 DEF Finish
  <1>10. ASSUME NEW s \in Source, Step(s) PROVE WorkOK'
    BY <1>4, <1>5, <1>6, <1>10 DEF Step, Verb
  <1> QED
    BY <1>1, <1>2, <1>3, <1>7, <1>8, <1>9, <1>10 DEF Next, Main, Reconcile

LEMMA PlanOKStep == TypeOK /\ [Next]_vars => PlanOK'
  <1> SUFFICES ASSUME TypeOK, [Next]_vars PROVE PlanOK'
    OBVIOUS
  <1> USE DEF PlanOK, main, work, plan
  <1>0. PlanOK /\ MainOK /\ WorkOK
    BY TypeOKParts
  <1>1. CASE UNCHANGED vars
    BY <1>0, <1>1 DEF vars
  <1>2. CASE Sync \/ List
    BY <1>0, <1>2 DEF Sync, List, Fails, SetResult, Status
  <1>3. CASE Check
    <2>1. PICK t \in left : results' \in {results, [results EXCEPT ![t] = "skipped"], [results EXCEPT ![t] = "error"]}
      BY <1>3 DEF Check, SetResult
    <2> QED
      BY <1>0, <1>3, <2>1 DEF Check, MainOK, Status
  <1>4. CASE NotHanded
    BY <1>0, <1>4 DEF NotHanded, SetResult, Status
  <1>5. CASE Hand \/ CloseAndWait \/ Report \/ Expire
    BY <1>0, <1>5 DEF Hand, CloseAndWait, Report, Expire
  <1>6. ASSUME NEW s \in Source, NEW o \in Object, NEW verb \in Verb,
               Accepted(s, o, verb), Step(s)
        PROVE  PlanOK'
    <2>1. PICK content \in {"same", "changed"} :
             objects' = [objects EXCEPT ![o][s] = Recorded(s, o, verb, content)]
      BY <1>6 DEF Accepted
    <2>2. Recorded(s, o, verb, content) \in Write
      BY <1>0, RecordedFacts
    <2>3. objects' \in [Object -> [Source -> Write \cup {None}]]
      BY <1>0, <2>1, <2>2
    <2> QED
      BY <1>0, <1>6, <2>3 DEF Accepted, Step
  <1>7. ASSUME NEW s \in Source, NEW o \in Object, NEW verb \in Verb,
               Refused(s, o, verb), Step(s)
        PROVE  PlanOK'
    <2>1. PICK e \in Error : \/ UNCHANGED writeErrors
                             \/ writeErrors' = [writeErrors EXCEPT ![s] = IF @ = None THEN e ELSE @]
      BY <1>7, ErrorFacts DEF Refused, RecordWriteError
    <2> QED
      BY <1>0, <1>7, <2>1 DEF Refused, Step
  <1>8. ASSUME NEW s \in Source, NEW c \in Change, CloudWrite(s, c), Step(s)
        PROVE  PlanOK'
    BY <1>0, <1>8, ErrorFacts DEF CloudWrite, Step, RecordWriteError
  <1>9. ASSUME NEW s \in Source, Stop(s) PROVE PlanOK'
    BY <1>0, <1>9 DEF Stop
  <1>10. ASSUME NEW s \in Source, Again(s) PROVE PlanOK'
    BY <1>0, <1>10 DEF Again, Forget
  <1>11. ASSUME NEW s \in Source, Finish(s) PROVE PlanOK'
    <2>1. Outcome(ReconcileOnce(s)) \in Status
      BY DEF Outcome, Status
    <2> QED
      BY <1>0, <1>11, <2>1 DEF Finish, SetResult
  <1>12. ASSUME NEW s \in Source, Step(s) PROVE PlanOK'
    BY <1>6, <1>7, <1>8, <1>12, ConstantsAssumption DEF Step
  <1> QED
    BY <1>1, <1>2, <1>3, <1>4, <1>5, <1>9, <1>10, <1>11, <1>12 DEF Next, Main, Reconcile

LEMMA TypeOKStep == TypeOK /\ [Next]_vars => TypeOK'
  <1> SUFFICES ASSUME TypeOK, [Next]_vars PROVE (MainOK /\ WorkOK /\ PlanOK)'
    BY TypeOKParts, PTL
  <1> QED
    BY MainOKStep, WorkOKStep, PlanOKStep

\* Every reachable state is well typed: a result is one of the four outcomes, and
\* the main goroutine offers only what was listed.
THEOREM TypeCorrect == Spec => []TypeOK
  BY InitTypeOK, TypeOKStep, PTL DEF Spec

-----------------------------------------------------------------------------
(* The queue.                                                              *)

LEMMA InitQueueInv == Init => QueueInv
  BY DEF Init, QueueInv, Busy, Listed, Untouched, Source

LEMMA QueueInvStep == TypeOK /\ QueueInv /\ [Next]_vars => QueueInv'
  <1> SUFFICES ASSUME TypeOK, QueueInv, [Next]_vars PROVE QueueInv'
    OBVIOUS
  <1>0. MainOK /\ WorkOK /\ PlanOK
    BY TypeOKParts
  <1> USE <1>0, ConstantsAssumption
      DEF QueueInv, MainOK, WorkOK, PlanOK, Busy, Listed, Untouched, Source, main, work, plan
  <1>1. CASE UNCHANGED vars
    BY <1>1 DEF vars
  <1>2. CASE Sync
    BY <1>2 DEF Sync, Fails, SetResult
  <1>3. CASE List
    BY <1>3 DEF List, Fails, SetResult
  <1>4. CASE Check
    <2>1. PICK t \in left :
             /\ left' = left \ {t}
             /\ \/ /\ step' = step /\ offered' = offered
                   /\ \E status \in Status : results' = [results EXCEPT ![t] = status]
                \/ step' = "select" /\ offered' = t /\ results' = results
      BY <1>4 DEF Check, SetResult, Status
    <2>2. step = "check" /\ UNCHANGED <<kind, targets, doing>>
      BY <1>4 DEF Check
    <2> QED
      BY <2>1, <2>2
  <1>5. CASE Hand
    BY <1>5 DEF Hand
  <1>6. CASE NotHanded
    <2>1. step = "select" /\ offered \in Source /\ offered \notin left /\ offered \notin Busy
      BY <1>6 DEF NotHanded
    <2>2. /\ results' = [results EXCEPT ![offered] = "error"] /\ offered' = None /\ step' = "check"
          /\ UNCHANGED <<kind, left, targets, doing>>
      BY <1>6 DEF NotHanded, SetResult
    <2>3. \A s \in Source : IF s = offered THEN results'[s] = "error" ELSE results'[s] = results[s]
      BY <2>1, <2>2
    <2> QED
      BY <2>1, <2>2, <2>3 DEF Status
  <1>7. CASE CloseAndWait
    BY <1>7 DEF CloseAndWait
  <1>8. CASE Report \/ Expire
    BY <1>8 DEF Report, Expire
  <1>9. ASSUME NEW s \in Source, Step(s) \/ Stop(s) \/ Again(s) PROVE QueueInv'
    BY <1>9 DEF Step, Stop, Again
  <1>10. ASSUME NEW s \in Source, Finish(s) PROVE QueueInv'
    <2>1. Outcome(ReconcileOnce(s)) # None
      BY DEF Outcome, Status
    <2> QED
      BY <1>10, <2>1 DEF Finish, SetResult
  <1> QED
    BY <1>1, <1>2, <1>3, <1>4, <1>5, <1>6, <1>7, <1>8, <1>9, <1>10 DEF Next, Main, Reconcile

LEMMA QueueHolds == Spec => [](TypeOK /\ QueueInv)
  BY InitTypeOK, TypeOKStep, InitQueueInv, QueueInvStep, PTL DEF Spec

\* A printed plan has an outcome for every target, for all worker counts and
\* however the context ends: between the list and its outcome a target is left,
\* offered, or with a worker.
THEOREM NoTargetLost == Spec => []EveryTargetReported
  <1>1. TypeOK /\ QueueInv => EveryTargetReported
    BY ConstantsAssumption DEF TypeOK, QueueInv, EveryTargetReported
  <1> QED
    BY <1>1, QueueHolds, PTL

\* No worker runs when SecurityGroups are listed or the plan is printed.
THEOREM PhasesHold == Spec => []PhasesApart
  <1>1. TypeOK /\ QueueInv => PhasesApart
    BY DEF QueueInv, PhasesApart, Listed
  <1> QED
    BY <1>1, QueueHolds, PTL

-----------------------------------------------------------------------------
(* The plan.                                                               *)

LEMMA InitWritten == Init => \A s \in Source : WrittenBy(s)
  BY DEF Init, WrittenBy

\* A step keeps what it does not write to.
LEMMA WrittenKept ==
  ASSUME NEW s \in Source, WrittenBy(s),
         \A o \in Object : objects'[o][s] = objects[o][s],
         \A c \in Change : s \in cloud'[c] <=> s \in cloud[c],
         writeErrors'[s] = writeErrors[s], did'[s] = did[s], failed'[s] = failed[s]
  PROVE  WrittenBy(s)'
  BY DEF WrittenBy

LEMMA AcceptedWritten ==
  ASSUME TypeOK, NEW s \in Source, NEW o \in Object, NEW verb \in Verb,
         \A t \in Source : WrittenBy(t), Accepted(s, o, verb)
  PROVE  \A t \in Source : WrittenBy(t)'
  <1>0. WorkOK /\ PlanOK
    BY TypeOKParts
  <1> USE <1>0 DEF WorkOK, PlanOK
  <1>1. PICK content \in {"same", "changed"} :
           objects' = [objects EXCEPT ![o][s] = Recorded(s, o, verb, content)]
    BY DEF Accepted
  <1> DEFINE w == Recorded(s, o, verb, content)
  <1>2. /\ did' = [did EXCEPT ![s] = @ \cup {<<verb, o>>}]
        /\ UNCHANGED <<cloud, writeErrors, failed>>
    BY DEF Accepted
  <1>3. ASSUME NEW t \in Source, t # s PROVE WrittenBy(t)'
    BY <1>1, <1>2, <1>3, WrittenKept
  <1>4. WrittenBy(s)'
    <2>1. w # None /\ (w.created <=> WriteFor(s, o).created \/ verb = "create")
                   /\ (w.deleted <=> WriteFor(s, o).deleted \/ verb = "delete")
      BY RecordedFacts, ConstantsAssumption
    <2>2. /\ WriteFor(s, o).created <=> <<"create", o>> \in did[s]
          /\ WriteFor(s, o).deleted <=> <<"delete", o>> \in did[s]
      BY DEF WrittenBy, WriteFor, NewWrite, Verb
    <2>3. objects'[o][s] = w /\ \A x \in Object : x # o => objects'[x][s] = objects[x][s]
      BY <1>1
    <2>4. did'[s] = did[s] \cup {<<verb, o>>}
      BY <1>2
    <2>5. ASSUME NEW x \in Object
          PROVE  IF objects'[x][s] = None
                   THEN \A v \in Verb : <<v, x>> \notin did'[s]
                   ELSE /\ objects'[x][s].created <=> <<"create", x>> \in did'[s]
                        /\ objects'[x][s].deleted <=> <<"delete", x>> \in did'[s]
      <3>1. CASE x = o
        BY <2>1, <2>2, <2>3, <2>4, <3>1
      <3>2. CASE x # o
        BY <2>3, <2>4, <3>2 DEF WrittenBy
      <3> QED
        BY <3>1, <3>2
    <2>6. \A c \in Change : s \in cloud'[c] <=> <<"cloud", c>> \in did'[s]
      BY <1>2, <2>4 DEF WrittenBy, Verb
    <2> QED
      BY <1>2, <2>5, <2>6 DEF WrittenBy
  <1> QED
    BY <1>3, <1>4

\* A refused write is told from the others only by its error.
LEMMA RefusedWritten ==
  ASSUME TypeOK, NEW s \in Source, \A t \in Source : WrittenBy(t),
         UNCHANGED <<objects, cloud, did>>,
         \/ UNCHANGED <<writeErrors, failed>>
         \/ /\ \E e \in Error : RecordWriteError(s, e)
            /\ failed' = [failed EXCEPT ![s] = TRUE]
  PROVE  \A t \in Source : WrittenBy(t)'
  <1>0. WorkOK /\ PlanOK
    BY TypeOKParts
  <1>1. CASE UNCHANGED <<writeErrors, failed>>
    BY <1>1, WrittenKept
  <1>2. ASSUME NEW e \in Error, RecordWriteError(s, e), failed' = [failed EXCEPT ![s] = TRUE]
        PROVE  \A t \in Source : WrittenBy(t)'
    <2>1. ASSUME NEW t \in Source, t # s PROVE WrittenBy(t)'
      BY <1>0, <1>2, <2>1, WrittenKept DEF RecordWriteError, PlanOK, WorkOK
    <2>2. writeErrors'[s] # None /\ failed'[s]
      BY <1>0, <1>2, ConstantsAssumption DEF RecordWriteError, PlanOK, WorkOK
    <2>3. WrittenBy(s)'
      BY <2>2 DEF WrittenBy
    <2> QED
      BY <2>1, <2>3
  <1> QED
    BY <1>1, <1>2

LEMMA WrittenStep ==
  TypeOK /\ (\A s \in Source : WrittenBy(s)) /\ [Next]_vars => (\A s \in Source : WrittenBy(s))'
  <1> SUFFICES ASSUME TypeOK, \A s \in Source : WrittenBy(s), [Next]_vars
               PROVE  \A s \in Source : WrittenBy(s)'
    OBVIOUS
  <1>0. WorkOK /\ PlanOK
    BY TypeOKParts
  <1> USE DEF main, work, plan
  <1>1. ASSUME UNCHANGED <<objects, cloud, writeErrors, did, failed>>
        PROVE  \A s \in Source : WrittenBy(s)'
    BY <1>1, WrittenKept
  <1>2. CASE UNCHANGED vars
    BY <1>1, <1>2 DEF vars
  <1>3. CASE Main \/ Expire
    BY <1>1, <1>3 DEF Main, Sync, List, Check, Hand, NotHanded, CloseAndWait, Report, Expire
  <1>4. ASSUME NEW s \in Source, Stop(s) \/ Finish(s) PROVE \A t \in Source : WrittenBy(t)'
    BY <1>1, <1>4 DEF Stop, Finish
  <1>5. ASSUME NEW s \in Source, Again(s) PROVE \A t \in Source : WrittenBy(t)'
    <2> USE <1>0 DEF WorkOK, PlanOK
    <2>1. ASSUME NEW t \in Source, t # s PROVE WrittenBy(t)'
      BY <1>5, <2>1, WrittenKept DEF Again, Forget
    <2>2. /\ \A o \in Object : objects'[o][s] = None
          /\ \A c \in Change : s \notin cloud'[c]
          /\ writeErrors'[s] = None /\ did'[s] = {} /\ ~failed'[s]
      BY <1>5 DEF Again, Forget
    <2>3. WrittenBy(s)'
      BY <2>2 DEF WrittenBy
    <2> QED
      BY <2>1, <2>3
  <1>6. ASSUME NEW s \in Source, NEW o \in Object, NEW verb \in Verb, Refused(s, o, verb)
        PROVE  \A t \in Source : WrittenBy(t)'
    BY <1>6, RefusedWritten, ErrorFacts DEF Refused
  <1>7. ASSUME NEW s \in Source, NEW c \in Change, CloudWrite(s, c)
        PROVE  \A t \in Source : WrittenBy(t)'
    <2>1. CASE UNCHANGED <<objects, cloud, did>>
      BY <1>7, <2>1, RefusedWritten, ErrorFacts DEF CloudWrite
    <2>2. CASE /\ cloud' = [cloud EXCEPT ![c] = @ \cup {s}]
               /\ did' = [did EXCEPT ![s] = @ \cup {<<"cloud", c>>}]
               /\ UNCHANGED <<objects, writeErrors, failed>>
      <3> USE <1>0 DEF WorkOK, PlanOK
      <3>1. ASSUME NEW t \in Source, t # s PROVE WrittenBy(t)'
        BY <2>2, <3>1, WrittenKept
      <3>2. WrittenBy(s)'
        BY <2>2 DEF WrittenBy, Verb
      <3> QED
        BY <3>1, <3>2
    <2> QED
      BY <1>7, <2>1, <2>2 DEF CloudWrite
  <1>8. ASSUME NEW s \in Source, Step(s) PROVE \A t \in Source : WrittenBy(t)'
    BY <1>6, <1>7, <1>8, AcceptedWritten, ConstantsAssumption DEF Step
  <1> QED
    BY <1>2, <1>3, <1>4, <1>5, <1>8 DEF Next, Reconcile

LEMMA WrittenHolds == Spec => []((\A s \in Source : WrittenBy(s)) /\ TypeOK /\ QueueInv)
  BY InitTypeOK, TypeOKStep, InitQueueInv, QueueInvStep, InitWritten, WrittenStep, PTL DEF Spec

\* Whatever conflicts end an attempt, and whatever other sources do meanwhile,
\* the plan holds what the last attempt of a source wrote, and its errors.
THEOREM LastAttemptHolds == Spec => []LastAttemptOnly
  <1>1. (\A s \in Source : WrittenBy(s)) => LastAttemptOnly
    BY DEF WrittenBy, LastAttemptOnly
  <1> QED
    BY <1>1, WrittenHolds, PTL

\* A reconcile under way has no outcome yet, and writes nothing of another
\* source.
LEMMA RunsBeforeOutcome ==
  ASSUME TypeOK, QueueInv, NEW s \in Source, Reconcile(s)
  PROVE  /\ results[s] = None
         /\ \A t \in Source : t # s =>
               /\ results'[t] = results[t]
               /\ doing'[t] = doing[t]
               /\ \A o \in Object : objects'[o][t] = objects[o][t]
               /\ \A c \in Change : t \in cloud'[c] <=> t \in cloud[c]
               /\ writeErrors'[t] = writeErrors[t]
  <1>0. WorkOK /\ PlanOK
    BY TypeOKParts
  <1> USE <1>0 DEF WorkOK, PlanOK, main, plan, work, RecordWriteError
  <1>1. results[s] = None
    BY DEF QueueInv, Busy, Reconcile, Step, Stop, Again, Finish
  <1> SUFFICES ASSUME NEW t \in Source, t # s
               PROVE  /\ results'[t] = results[t]
                      /\ doing'[t] = doing[t]
                      /\ \A o \in Object : objects'[o][t] = objects[o][t]
                      /\ \A c \in Change : t \in cloud'[c] <=> t \in cloud[c]
                      /\ writeErrors'[t] = writeErrors[t]
    BY <1>1
  <1>2. CASE Stop(s) \/ Finish(s)
    BY <1>2 DEF Stop, Finish, SetResult
  <1>3. CASE Again(s)
    BY <1>3 DEF Again, Forget
  <1>4. CASE Step(s)
    <2>1. UNCHANGED <<results, doing>>
      BY <1>4 DEF Step
    <2>2. ASSUME NEW o \in Object, NEW verb \in Verb, Accepted(s, o, verb) \/ Refused(s, o, verb)
          PROVE  /\ \A x \in Object : objects'[x][t] = objects[x][t]
                 /\ cloud' = cloud
                 /\ writeErrors'[t] = writeErrors[t]
      BY <2>2 DEF Accepted, Refused
    <2>3. ASSUME NEW c \in Change, CloudWrite(s, c)
          PROVE  /\ objects' = objects
                 /\ \A x \in Change : t \in cloud'[x] <=> t \in cloud[x]
                 /\ writeErrors'[t] = writeErrors[t]
      BY <2>3 DEF CloudWrite
    <2> QED
      BY <1>4, <2>1, <2>2, <2>3, ConstantsAssumption DEF Step
  <1> QED
    BY <1>2, <1>3, <1>4 DEF Reconcile

\* A target comes to one outcome, and nothing of it in the plan changes after.
THEOREM OutcomeIsFinal == Spec => OutcomeFinal
  <1>1. TypeOK /\ QueueInv /\ [Next]_vars => [OutcomeFinalStep]_vars
    <2> SUFFICES ASSUME TypeOK, QueueInv, Next PROVE OutcomeFinalStep
      OBVIOUS
    <2>0. MainOK /\ WorkOK /\ PlanOK
      BY TypeOKParts
    <2> USE <2>0 DEF MainOK, WorkOK, PlanOK, main, plan, work
    <2>1. CASE \E s \in Source : Reconcile(s)
      BY <2>1, RunsBeforeOutcome DEF OutcomeFinalStep
    <2>2. CASE Sync \/ List
      BY <2>2, ConstantsAssumption DEF Sync, List, Fails, SetResult, OutcomeFinalStep
    <2>3. CASE Check
      <3>1. PICK t \in left : results' \in {results, [results EXCEPT ![t] = "skipped"],
                                            [results EXCEPT ![t] = "error"]}
        BY <2>3 DEF Check, SetResult
      <3>2. results[t] = None
        BY <3>1 DEF QueueInv, Untouched
      <3> QED
        BY <2>3, <3>1, <3>2 DEF Check, OutcomeFinalStep
    <2>4. CASE Hand \/ NotHanded
      <3>1. offered \in Source /\ results[offered] = None
        BY <2>4 DEF Hand, NotHanded, QueueInv, Untouched
      <3> QED
        BY <2>4, <3>1 DEF Hand, NotHanded, SetResult, OutcomeFinalStep
    <2>5. CASE CloseAndWait \/ Report \/ Expire
      BY <2>5 DEF CloseAndWait, Report, Expire, OutcomeFinalStep
    <2> QED
      BY <2>1, <2>2, <2>3, <2>4, <2>5 DEF Next, Main
  <1> QED
    BY <1>1, QueueHolds, PTL DEF Spec, OutcomeFinal

-----------------------------------------------------------------------------
(* The exit code.                                                          *)

LEMMA OutcomeInvStep ==
  TypeOK /\ QueueInv /\ (\A s \in Source : WrittenBy(s)) /\ OutcomeInv /\ [Next]_vars => OutcomeInv'
  <1> SUFFICES ASSUME TypeOK, QueueInv, \A s \in Source : WrittenBy(s), OutcomeInv, [Next]_vars
               PROVE  OutcomeInv'
    OBVIOUS
  <1>0. MainOK /\ WorkOK /\ PlanOK
    BY TypeOKParts
  <1> USE <1>0, ConstantsAssumption DEF OutcomeInv, MainOK, WorkOK, PlanOK, main, work, plan
  <1>1. ASSUME UNCHANGED <<results, doing, did, failed>> PROVE OutcomeInv'
    BY <1>1
  <1>2. CASE UNCHANGED vars \/ Report \/ Expire \/ CloseAndWait
    BY <1>1, <1>2 DEF vars, Report, Expire, CloseAndWait
  <1>3. CASE Sync \/ List
    BY <1>3 DEF Sync, List, Fails, SetResult, Source
  <1>4. CASE Check
    <2>1. PICK t \in left : results' \in {results, [results EXCEPT ![t] = "skipped"], [results EXCEPT ![t] = "error"]}
      BY <1>4 DEF Check, SetResult
    <2>2. doing[t] = "no"
      BY <2>1 DEF QueueInv, Untouched
    <2> QED
      BY <1>4, <2>1, <2>2 DEF Check
  <1>5. CASE Hand
    <2>1. offered \in Source /\ results[offered] = None
      BY <1>5 DEF Hand, QueueInv, Untouched
    <2> QED
      BY <1>5, <2>1 DEF Hand, Status
  <1>6. CASE NotHanded
    BY <1>6 DEF NotHanded, SetResult
  <1>7. ASSUME NEW s \in Source, Step(s) \/ Stop(s) \/ Again(s) PROVE OutcomeInv'
    <2>1. doing[s] = "running" /\ UNCHANGED <<results, doing>>
      BY <1>7 DEF Step, Stop, Again
    <2>2. results[s] = None
      BY <2>1 DEF QueueInv, Busy
    <2>3. \A t \in Source : t # s => did'[t] = did[t] /\ failed'[t] = failed[t]
      BY <1>7 DEF Step, Stop, Again, Accepted, Refused, CloudWrite
    <2> QED
      BY <2>1, <2>2, <2>3 DEF Status
  <1>8. ASSUME NEW s \in Source, Finish(s) PROVE OutcomeInv'
    <2>1. Outcome(ReconcileOnce(s)) # "skipped"
      BY DEF Outcome
    <2>2. ASSUME Outcome(ReconcileOnce(s)) = "ok" PROVE ~failed[s]
      <3>1. ReconcileOnce(s) = None
        BY <2>2 DEF Outcome
      <3>2. writeErrors[s] = None
        BY <3>1 DEF ReconcileOnce
      <3> QED
        BY <3>2 DEF WrittenBy
    <2>3. /\ results' = [results EXCEPT ![s] = Outcome(ReconcileOnce(s))]
          /\ doing' = [doing EXCEPT ![s] = "done"]
          /\ UNCHANGED <<did, failed>>
      BY <1>8 DEF Finish, SetResult
    <2> QED
      BY <2>1, <2>2, <2>3
  <1> QED
    BY <1>2, <1>3, <1>4, <1>5, <1>6, <1>7, <1>8 DEF Next, Main, Reconcile

\* What is counted as zero is not there.
LEMMA NothingCounted ==
  ASSUME NEW S, NEW T, IsFiniteSet(S), T \subseteq S, Cardinality(T) = 0
  PROVE  T = {}
  BY FS_Subset, FS_EmptySet

\* The exit codes of a plan that is complete.
LEMMA ExitTells ==
  ASSUME TypeOK, ExitCode(Summary) \in {0, 2}
  PROVE  /\ \A s \in Source : results[s] \notin {"pending", "error"}
         /\ ExitCode(Summary) = 0 =>
              /\ \A o \in Object, s \in Source : objects[o][s] = None \/ ~Describe(o, objects[o][s])
              /\ \A c \in Change : cloud[c] = {}
  <1> DEFINE pending == {s \in Source \cup {Run} : results[s] = "pending"}
             errors  == {s \in Source \cup {Run} : results[s] = "error"}
             changes == {o \in Object : \E s \in Source : objects[o][s] # None /\ Describe(o, objects[o][s])}
             calls   == {c \in Change : cloud[c] # {}}
  <1>1. IsFiniteSet(Source \cup {Run}) /\ IsFiniteSet(Object) /\ IsFiniteSet(Change)
    BY ConstantsAssumption, FS_AddElement
  <1>2. /\ Cardinality(pending) \in Nat /\ Cardinality(errors) \in Nat
        /\ Cardinality(changes) \in Nat /\ Cardinality(calls) \in Nat
    BY <1>1, FS_Subset, FS_CardinalityType
  <1>3. /\ Summary.pending = Cardinality(pending) /\ Summary.errors = Cardinality(errors)
        /\ Summary.changes = Cardinality(changes) /\ Summary.cloud = Cardinality(calls)
    BY DEF Summary
  <1> HIDE DEF pending, errors, changes, calls
  <1>4. Cardinality(pending) = 0 /\ Cardinality(errors) = 0
    BY <1>2, <1>3 DEF ExitCode
  <1>5. ExitCode(Summary) = 0 => Cardinality(changes) = 0 /\ Cardinality(calls) = 0
    BY <1>2, <1>3, <1>4 DEF ExitCode
  <1>6. pending = {} /\ errors = {}
    BY <1>1, <1>4, NothingCounted DEF pending, errors
  <1>7. ExitCode(Summary) = 0 => changes = {} /\ calls = {}
    BY <1>1, <1>5, NothingCounted DEF changes, calls
  <1> QED
    BY <1>6, <1>7 DEF pending, errors, changes, calls

LEMMA ReportIsClean ==
  ASSUME TypeOK, QueueInv, \A s \in Source : WrittenBy(s), OutcomeInv, Report
  PROVE  CleanExit'
  <1>0. MainOK /\ PlanOK
    BY TypeOKParts
  <1>1. /\ UNCHANGED <<present, plan, targets, did, failed>> /\ step = "print"
        /\ exit' = IF results[Run] = "error" THEN 1 ELSE ExitCode(Summary)
    BY DEF Report, work
  <1> SUFFICES ASSUME exit' \in {0, 2}
      PROVE /\ \A s \in targets : results[s] \in {"ok", "skipped"} /\ ~failed[s]
            /\ exit' = 0 => \A s \in targets :
                 /\ \A o \in Object : <<"create", o>> \notin did[s]
                 /\ \A o \in Object : <<"delete", o>> \in did[s] => present[o] = "deleting"
                 /\ \A c \in Change : <<"cloud", c>> \notin did[s]
    BY <1>1 DEF CleanExit, plan
  <1>2. exit' = ExitCode(Summary)
    BY <1>1
  <1>3. \A s \in targets : s \in Source /\ results[s] # None /\ results[s] \in Status \cup {None}
    BY <1>0, <1>1, ConstantsAssumption DEF MainOK, PlanOK, QueueInv
  <1>4. \A s \in targets : results[s] \in {"ok", "skipped"} /\ ~failed[s]
    BY <1>2, <1>3, ExitTells DEF Status, OutcomeInv
  <1>5. ASSUME exit' = 0, NEW s \in targets
        PROVE  /\ \A o \in Object : <<"create", o>> \notin did[s]
               /\ \A o \in Object : <<"delete", o>> \in did[s] => present[o] = "deleting"
               /\ \A c \in Change : <<"cloud", c>> \notin did[s]
    <2>1. WrittenBy(s) /\ s \in Source
      BY <1>3
    <2>2. \A o \in Object : objects[o][s] = None \/ ~Describe(o, objects[o][s])
      BY <1>2, <1>5, <2>1, ExitTells
    <2>3. \A c \in Change : cloud[c] = {}
      BY <1>2, <1>5, ExitTells
    <2>4. ASSUME NEW o \in Object
          PROVE  /\ <<"create", o>> \notin did[s]
                 /\ <<"delete", o>> \in did[s] => present[o] = "deleting"
      BY <2>1, <2>2 DEF WrittenBy, Describe, Verb
    <2> QED
      BY <2>1, <2>3, <2>4 DEF WrittenBy
  <1> QED
    BY <1>4, <1>5

LEMMA ExitInvStep ==
  TypeOK /\ QueueInv /\ (\A s \in Source : WrittenBy(s)) /\ OutcomeInv /\ ExitInv /\ [Next]_vars => ExitInv'
  <1> SUFFICES ASSUME TypeOK, QueueInv, \A s \in Source : WrittenBy(s), OutcomeInv, ExitInv, [Next]_vars
               PROVE  ExitInv'
    OBVIOUS
  <1> USE DEF main, work, plan
  <1>1. CASE step = "printed"
    <2>1. UNCHANGED vars
      <3>1. \A s \in Source : ~Reconcile(s)
        BY <1>1 DEF QueueInv, Busy, Reconcile, Step, Stop, Again, Finish
      <3>2. ~Main /\ ~Expire
        BY <1>1 DEF Main, Sync, List, Check, Hand, NotHanded, CloseAndWait, Report, Expire
      <3> QED
        BY <3>1, <3>2 DEF Next
    <2> QED
      BY <2>1 DEF vars, ExitInv, CleanExit
  <1>2. CASE Report
    BY <1>2, ReportIsClean DEF ExitInv, Report
  <1>3. CASE step # "printed" /\ ~Report
    <2>1. exit' = exit
      <3>1. CASE UNCHANGED vars
        BY <3>1 DEF vars
      <3>2. CASE Main \/ Expire
        BY <1>3, <3>2 DEF Main, Sync, List, Check, Hand, NotHanded, CloseAndWait, Expire
      <3>3. ASSUME NEW s \in Source, Reconcile(s) PROVE exit' = exit
        BY <3>3 DEF Reconcile, Step, Stop, Again, Finish
      <3> QED
        BY <3>1, <3>2, <3>3 DEF Next
    <2> QED
      BY <1>3, <2>1, ConstantsAssumption DEF ExitInv, CleanExit
  <1> QED
    BY <1>1, <1>2, <1>3

\* Exit codes 0 and 2 are those of a complete plan: every target went through,
\* the API server refused no write, and 0 says that nothing would be created,
\* deleted or changed in the cloud.
THEOREM CleanExitHolds == Spec => []CleanExit
  <1>1. Init => OutcomeInv /\ ExitInv
    BY ConstantsAssumption DEF Init, OutcomeInv, ExitInv, CleanExit, Source, Status
  <1>2. ExitInv => CleanExit
    BY DEF ExitInv
  <1> QED
    BY InitTypeOK, TypeOKStep, InitQueueInv, QueueInvStep, InitWritten, WrittenStep,
       OutcomeInvStep, ExitInvStep, <1>1, <1>2, PTL
    DEF Spec

=============================================================================
