----------------------------- MODULE DryRunPlan -----------------------------
(***************************************************************************)
(* The one-shot plan of --dry-run --once: every Cluster and then every     *)
(* SecurityGroup is reconciled by a pool of workers against a client that  *)
(* sends writes as dry runs and records them; the plan is then printed and *)
(* summed up in the exit code.                                             *)
(*                                                                         *)
(* A reconcile is any program that makes finitely many writes and returns  *)
(* or ignores their errors, so what is shown holds of both reconcilers.    *)
(* One source is reconciled by one worker at a time, so the number of busy *)
(* workers stands for the workers.                                         *)
(***************************************************************************)
EXTENDS Integers, FiniteSets

CONSTANTS
    Clusters, SecurityGroups,    \* what is listed
    Paused,                      \* SecurityGroups with the pause annotation
    ClusterWorkers, GroupWorkers,
    Named,                       \* --cluster is set, and filters the lists
    Object, Change,              \* what reconciles write to, in the cluster and in the cloud
    WritesTo,                    \* the objects the reconcile of a source creates or writes to
    None,
    MaxWrites,                   \* bound on the writes of all reconciles
    MaxFaults                    \* bound on refused writes and reconciles that stop early

Source == Clusters \cup SecurityGroups
Run    == "Plan/run"             \* the source of an error of Once itself

\* What a reconcile returns other than success; "soon" is no error but a
\* RequeueAfter within the hour.
Error  == [kind: {"conflict", "notfound", "exists", "unavailable", "other", "soon"},
           of: Object \cup {None}]
Write  == [created: BOOLEAN, deleted: BOOLEAN, main: {"same", "changed"}, status: {"same", "changed"}]
Verb   == {"create", "update", "status", "delete"}
Status == {"ok", "skipped", "pending", "error"}

ASSUME ConstantsAssumption ==
    /\ Clusters \cap SecurityGroups = {}
    /\ IsFiniteSet(Source) /\ IsFiniteSet(Object) /\ IsFiniteSet(Change)
    /\ Paused \subseteq SecurityGroups
    /\ WritesTo \in [Source -> SUBSET Object]
    /\ Run \notin Source
    /\ \A x \in Source \cup Error \cup Write \cup Status \cup {0, 1, 2} : x # None
    /\ ClusterWorkers \in Int /\ GroupWorkers \in Int
    /\ MaxWrites \in Nat /\ MaxFaults \in Nat

VARIABLES
    present,      \* an object in the API server: "absent", "live" or "deleting"
    expired,      \* the context of the run has ended
    step,         \* where the main goroutine is
    kind,         \* the list being worked on
    left,         \* targets not handed to a worker yet; the cache lists in any order
    offered,      \* the target that the select offers to the workers
    doing,        \* a source: "no", "running" or "done"
    attempt,      \* 1, or 2 after a conflict
    budget,       \* writes that may still be made
    faults,       \* faults that may still happen
    returned,     \* what the reconcile will return: None or an Error
    objects,      \* Plan.objects
    cloud,        \* Plan.cloud
    results,      \* Plan.results
    writeErrors,  \* Plan.writeErrors
    exit,         \* the exit code, once printed
    targets,      \* history: the targets listed so far
    did,          \* history: what the last attempt of a source wrote
    failed        \* history: whether one of its writes met an error it does not expect

plan == <<objects, cloud, results, writeErrors>>
main == <<expired, step, kind, left, offered, exit, targets>>
work == <<doing, attempt, budget, faults, returned, did, failed>>
vars == <<present, plan, main, work>>

TypeOK ==
    /\ present \in [Object -> {"absent", "live", "deleting"}]
    /\ expired \in BOOLEAN
    /\ step \in {"sync", "list", "check", "select", "print", "printed"}
    /\ kind \in {"Cluster", "SecurityGroup"}
    /\ left \subseteq Source
    /\ offered \in Source \cup {None}
    /\ doing \in [Source -> {"no", "running", "done"}]
    /\ attempt \in [Source -> {1, 2}]
    /\ budget \in 0..MaxWrites /\ faults \in 0..MaxFaults
    /\ returned \in [Source -> Error \cup {None}]
    /\ objects \in [Object -> [Source -> Write \cup {None}]]
    /\ cloud \in [Change -> SUBSET Source]
    /\ results \in [Source \cup {Run} -> Status \cup {None}]
    /\ writeErrors \in [Source -> Error \cup {None}]
    /\ exit \in {None, 0, 1, 2}
    /\ targets \subseteq Source
    /\ did \in [Source -> SUBSET ((Verb \X Object) \cup ({"cloud"} \X Change))]
    /\ failed \in [Source -> BOOLEAN]

Init ==
    /\ present \in [Object -> {"absent", "live", "deleting"}]
    /\ expired = FALSE
    /\ step = "sync"
    /\ kind = "Cluster"
    /\ left = {}
    /\ offered = None
    /\ doing = [s \in Source |-> "no"]
    /\ attempt = [s \in Source |-> 1]
    /\ budget = MaxWrites
    /\ faults = MaxFaults
    /\ returned = [s \in Source |-> None]
    /\ objects = [o \in Object |-> [s \in Source |-> None]]
    /\ cloud = [c \in Change |-> {}]
    /\ results = [s \in Source \cup {Run} |-> None]
    /\ writeErrors = [s \in Source |-> None]
    /\ exit = None
    /\ targets = {}
    /\ did = [s \in Source |-> {}]
    /\ failed = [s \in Source |-> FALSE]

-----------------------------------------------------------------------------
(* The plan                                                                *)

NewWrite == [created |-> FALSE, deleted |-> FALSE, main |-> "same", status |-> "same"]

\* The write of s to o so far.
WriteFor(s, o) == IF objects[o][s] = None THEN NewWrite ELSE objects[o][s]

\* A verb recorded: the parts of an object are kept apart, so that an update
\* leaves the status another write gave it, and the other way round.
Recorded(s, o, verb, content) ==
    LET w == WriteFor(s, o)
    IN CASE verb = "create" -> [w EXCEPT !.created = TRUE, !.main = "changed"]
         [] verb = "update" -> [w EXCEPT !.main = content]
         [] verb = "status" -> [w EXCEPT !.status = content]
         [] verb = "delete" -> [w EXCEPT !.deleted = TRUE]

\* What a create or a delete expects to meet is no error of the plan; only the
\* first error of a source is kept.
Expected(verb, e) ==
    \/ verb = "create" /\ e.kind = "exists"
    \/ verb = "delete" /\ e.kind = "notfound"

RecordWriteError(s, e) ==
    writeErrors' = [writeErrors EXCEPT ![s] = IF @ = None THEN e ELSE @]

\* Faulty variant: the objects that s wrote to are forgotten, with what others wrote.
ForgetWholeObjects(s) ==
    /\ objects' = [o \in Object |-> IF objects[o][s] = None THEN objects[o] ELSE [t \in Source |-> None]]
    /\ cloud' = [c \in Change |-> cloud[c] \ {s}]
    /\ writeErrors' = [writeErrors EXCEPT ![s] = None]

\* forget: what s recorded is dropped, before its reconcile runs again.
Forget(s) ==
    /\ objects' = [o \in Object |-> [objects[o] EXCEPT ![s] = None]]
    /\ cloud' = [c \in Change |-> cloud[c] \ {s}]
    /\ writeErrors' = [writeErrors EXCEPT ![s] = None]

\* Plan.created: whichever source creates it.
CreatedInPlan(o) == \E s \in Source : objects[o][s] # None /\ objects[o][s].created

SetResult(s, status) == results' = [results EXCEPT ![s] = status]

\* Whether a write changes its object: the delete of an object that is being
\* deleted already does not.
Describe(o, w) ==
    \/ w.deleted /\ present[o] # "deleting"
    \/ w.created
    \/ w.main # "same" \/ w.status # "same"

Summary ==
    [changes |-> Cardinality({o \in Object :
                     \E s \in Source : objects[o][s] # None /\ Describe(o, objects[o][s])}),
     cloud   |-> Cardinality({c \in Change : cloud[c] # {}}),
     pending |-> Cardinality({s \in Source \cup {Run} : results[s] = "pending"}),
     errors  |-> Cardinality({s \in Source \cup {Run} : results[s] = "error"})]

ExitCode(sum) ==
    CASE sum.errors + sum.pending > 0 -> 1
      [] sum.errors + sum.pending = 0 /\ sum.changes + sum.cloud > 0 -> 2
      [] OTHER -> 0

-----------------------------------------------------------------------------
(* The main goroutine                                                      *)

Err(k, o) == [kind |-> k, of |-> o]

Busy == {s \in Source : doing[s] = "running"}

\* Faulty variant: the loop that starts them begins at one.
WorkersOneLess(k) == (IF k = "Cluster" THEN ClusterWorkers ELSE GroupWorkers) - 1

\* At least one worker, whatever the caller asks for.
WorkersOf(k) == LET n == IF k = "Cluster" THEN ClusterWorkers ELSE GroupWorkers
                IN IF n > 1 THEN n ELSE 1

Fails == /\ SetResult(Run, "error")
         /\ step' = "print"

\* The cache is synced, or the context ended first.
Sync ==
    /\ step = "sync"
    /\ \/ /\ step' = "list"
          /\ UNCHANGED results
       \/ expired /\ Fails
    /\ UNCHANGED <<present, objects, cloud, writeErrors, expired, kind, left, offered, exit, targets, work>>

\* The objects of a kind that the filter accepts become targets.  A list, a
\* filter or the read of a referenced pool may fail; so does a --cluster that
\* no Cluster matches.
List ==
    /\ step = "list"
    /\ \/ LET listed == IF kind = "Cluster" THEN Clusters ELSE SecurityGroups
          IN \E accepted \in IF Named THEN SUBSET listed ELSE {listed} :
               IF Named /\ kind = "Cluster" /\ accepted = {}
                 THEN Fails /\ UNCHANGED <<left, targets>>
                 ELSE /\ left' = accepted
                      /\ targets' = targets \cup accepted
                      /\ step' = "check"
                      /\ UNCHANGED results
       \/ Fails /\ UNCHANGED <<left, targets>>
    /\ UNCHANGED <<present, objects, cloud, writeErrors, expired, kind, offered, exit, work>>

\* The next target: a paused one is skipped, one met after the end of the
\* context is an error, another is offered to the workers.
Check ==
    /\ step = "check"
    /\ \E t \in left :
         /\ left' = left \ {t}
         /\ CASE t \in Paused -> SetResult(t, "skipped") /\ UNCHANGED <<step, offered>>
              [] t \notin Paused /\ expired -> SetResult(t, "error") /\ UNCHANGED <<step, offered>>
              [] OTHER -> step' = "select" /\ offered' = t /\ UNCHANGED results
    /\ UNCHANGED <<present, objects, cloud, writeErrors, expired, kind, exit, targets, work>>

\* A worker that is free receives the target.  When the context has ended too,
\* the select takes either case.
Hand ==
    /\ step = "select"
    /\ Cardinality(Busy) < WorkersOf(kind)
    /\ doing' = [doing EXCEPT ![offered] = "running"]
    /\ step' = "check" /\ offered' = None
    /\ UNCHANGED <<present, plan, expired, kind, left, exit, targets, attempt, budget, faults, returned, did, failed>>

\* Faulty variant: the loop goes on without a word about the target.
NotHandedNorReported ==
    /\ step = "select" /\ expired
    /\ step' = "check" /\ offered' = None
    /\ UNCHANGED <<present, plan, expired, kind, left, exit, targets, work>>

\* Faulty variant: the target that is reported is offered again.
NotHandedYet ==
    /\ step = "select" /\ expired
    /\ SetResult(offered, "error")
    /\ UNCHANGED <<present, objects, cloud, writeErrors, main, work>>

NotHanded ==
    /\ step = "select" /\ expired
    /\ SetResult(offered, "error")
    /\ step' = "check" /\ offered' = None
    /\ UNCHANGED <<present, objects, cloud, writeErrors, expired, kind, left, exit, targets, work>>

\* Faulty variant: nothing waits for the workers.
CloseOnly ==
    /\ step = "check" /\ left = {}
    /\ IF kind = "Cluster"
         THEN kind' = "SecurityGroup" /\ step' = "list"
         ELSE step' = "print" /\ UNCHANGED kind
    /\ UNCHANGED <<present, plan, expired, left, offered, exit, targets, work>>

\* The queue is closed and the workers are waited for.
CloseAndWait ==
    /\ step = "check" /\ left = {}
    /\ Busy = {}
    /\ IF kind = "Cluster"
         THEN kind' = "SecurityGroup" /\ step' = "list"
         ELSE step' = "print" /\ UNCHANGED kind
    /\ UNCHANGED <<present, plan, expired, left, offered, exit, targets, work>>

Report ==
    /\ step = "print"
    /\ step' = "printed"
    /\ exit' = IF results[Run] = "error" THEN 1 ELSE ExitCode(Summary)
    /\ UNCHANGED <<present, plan, expired, kind, left, offered, targets, work>>

\* The timeout, or a signal.
Expire ==
    /\ ~expired /\ step # "printed"
    /\ expired' = TRUE
    /\ UNCHANGED <<present, plan, step, kind, left, offered, exit, targets, work>>

-----------------------------------------------------------------------------
(* The recording client, used by a reconcile                               *)

\* A reconcile writes to what the cache shows, or to what it created itself.
Knows(s, o) == present[o] # "absent" \/ <<"create", o>> \in did[s]

\* The API server accepts a dry-run write; nothing is stored.
Accepted(s, o, verb) ==
    /\ verb = "create" <=> present[o] = "absent"
    /\ \E content \in {"same", "changed"} :
         objects' = [objects EXCEPT ![o][s] = Recorded(s, o, verb, content)]
    /\ did' = [did EXCEPT ![s] = @ \cup {<<verb, o>>}]
    /\ UNCHANGED <<cloud, writeErrors, faults, returned, failed>>

\* What the server answers to a write it does not accept; the read of the
\* current object fails the same way.
Refusals(o, verb) ==
    {Err("other", None)} \cup
    CASE verb = "create" /\ present[o] # "absent" -> {Err("exists", o)}
      [] verb # "create" /\ present[o] = "absent" -> {Err("notfound", o)}
      [] verb \in {"update", "status"} /\ present[o] # "absent" -> {Err("conflict", o)}
      [] OTHER -> {}

\* The error goes into the plan whether or not the reconcile returns it.
Refused(s, o, verb) ==
    /\ verb # "create" => Knows(s, o)
    /\ faults > 0 /\ faults' = faults - 1
    /\ \E e \in Refusals(o, verb) :
         /\ IF Expected(verb, e)
              THEN UNCHANGED <<writeErrors, failed>>
              ELSE /\ RecordWriteError(s, e)
                   /\ failed' = [failed EXCEPT ![s] = TRUE]
         /\ returned' \in {returned, [returned EXCEPT ![s] = IF @ = None THEN e ELSE @]}
    /\ UNCHANGED <<objects, cloud, did>>

\* A write to AWS or Spot: not sent, recorded once per change.  The read that
\* a new launch template version or an instance needs may fail.
CloudWrite(s, c) ==
    \/ /\ cloud' = [cloud EXCEPT ![c] = @ \cup {s}]
       /\ did' = [did EXCEPT ![s] = @ \cup {<<"cloud", c>>}]
       /\ UNCHANGED <<objects, writeErrors, faults, returned, failed>>
    \/ /\ faults > 0 /\ faults' = faults - 1
       /\ RecordWriteError(s, Err("other", None))
       /\ failed' = [failed EXCEPT ![s] = TRUE]
       /\ returned' \in {returned,
                         [returned EXCEPT ![s] = IF @ = None THEN Err("other", None) ELSE @]}
       /\ UNCHANGED <<objects, cloud, did>>

Step(s) ==
    /\ doing[s] = "running" /\ budget > 0
    /\ \/ \E o \in WritesTo[s], verb \in Verb :
            Accepted(s, o, verb) \/ Refused(s, o, verb)
       \/ s \in SecurityGroups /\ \E c \in Change : CloudWrite(s, c)
    /\ budget' = budget - 1
    /\ UNCHANGED <<present, results, main, doing, attempt>>

\* A reconcile stops on something other than a write: the Crossplane
\* SecurityGroup is not ready, a read fails (what it created is not stored),
\* it panics, or it asks to run again soon.  Its deferred writes follow.
Stop(s) ==
    /\ doing[s] = "running" /\ returned[s] = None
    /\ faults > 0 /\ faults' = faults - 1
    /\ \E e \in {Err("other", None), Err("soon", None)}
                \cup (IF s \in SecurityGroups THEN {Err("unavailable", None)} ELSE {})
                \cup {Err("notfound", o) : o \in {o \in Object : <<"create", o>> \in did[s]}} :
         returned' = [returned EXCEPT ![s] = e]
    /\ UNCHANGED <<present, plan, main, doing, attempt, budget, did, failed>>

-----------------------------------------------------------------------------
(* A worker                                                                *)

\* Faulty variant: only what the reconcile returns counts.
ReconcileOnceAsReturned(s) == returned[s]

\* reconcileOnce: an ignored write error counts when the reconcile has none.
ReconcileOnce(s) ==
    IF returned[s] \in {None, Err("soon", None)} /\ writeErrors[s] # None
      THEN writeErrors[s] ELSE returned[s]

\* Faulty variant: the status is the kind of the error.
OutcomeByKind(e) == IF e = None THEN "ok" ELSE e.kind

\* What the real controller would retry soon is pending.
Outcome(e) ==
    CASE e = None -> "ok"
      [] e # None /\ \/ e.kind \in {"unavailable", "soon"}
                     \/ e.kind = "notfound" /\ CreatedInPlan(e.of) -> "pending"
      [] OTHER -> "error"

IsConflict(e) == e # None /\ e.kind = "conflict"

\* A first attempt that met a conflict is forgotten and made again.
Again(s) ==
    /\ doing[s] = "running"
    /\ attempt[s] = 1 /\ IsConflict(ReconcileOnce(s))
    /\ Forget(s)
    /\ attempt' = [attempt EXCEPT ![s] = 2]
    /\ returned' = [returned EXCEPT ![s] = None]
    /\ did' = [did EXCEPT ![s] = {}]
    /\ failed' = [failed EXCEPT ![s] = FALSE]
    /\ UNCHANGED <<present, results, main, doing, budget, faults>>

Finish(s) ==
    /\ doing[s] = "running"
    /\ attempt[s] = 2 \/ ~IsConflict(ReconcileOnce(s))
    /\ SetResult(s, Outcome(ReconcileOnce(s)))
    /\ doing' = [doing EXCEPT ![s] = "done"]
    /\ returned' = [returned EXCEPT ![s] = None]
    /\ attempt' = [attempt EXCEPT ![s] = 1]
    /\ UNCHANGED <<present, objects, cloud, writeErrors, main, budget, faults, did, failed>>

Reconcile(s) == Step(s) \/ Stop(s) \/ Again(s) \/ Finish(s)

Main == Sync \/ List \/ Check \/ Hand \/ NotHanded \/ CloseAndWait \/ Report

Next == Main \/ Expire \/ \E s \in Source : Reconcile(s)

Spec == Init /\ [][Next]_vars

\* The goroutines run.  Reconciles end: they make finitely many calls, each
\* with the context of the run.  The wait for the cache ends with that context
\* or before; nothing is assumed of when the context ends.
FairSpec == Spec /\ WF_vars(Main) /\ \A s \in Source : WF_vars(Reconcile(s))

-----------------------------------------------------------------------------
(* Properties                                                              *)

\* A printed plan has an outcome for every target, whatever the workers, the
\* panics and the end of the context did: none is lost between the list, the
\* queue and the workers (once.go:148-165).
EveryTargetReported ==
    step = "printed" => \A s \in targets : results[s] # None

\* A source that is done has in the plan what its last attempt wrote and
\* nothing of an attempt that a conflict ended, and no other source's attempt
\* took any of it away (plan.go:209-232).
LastAttemptOnly ==
    \A s \in Source : doing[s] = "done" =>
        /\ \A o \in Object :
             IF objects[o][s] = None
               THEN \A verb \in Verb : <<verb, o>> \notin did[s]
               ELSE /\ objects[o][s].created <=> <<"create", o>> \in did[s]
                    /\ objects[o][s].deleted <=> <<"delete", o>> \in did[s]
        /\ \A c \in Change : s \in cloud[c] <=> <<"cloud", c>> \in did[s]
        /\ writeErrors[s] # None <=> failed[s]

\* A target comes to one outcome, and with it the plan is done with it: it is
\* handed to no worker afterwards, not even when its hand-over met the end of the
\* context, and no other source's attempt, nor the main goroutine, changes its
\* outcome or what the plan has of it (once.go:148-165).
OutcomeFinalStep ==
    \A s \in Source : results[s] # None =>
        /\ results'[s] = results[s]
        /\ doing'[s] = doing[s]
        /\ \A o \in Object : objects'[o][s] = objects[o][s]
        /\ \A c \in Change : s \in cloud'[c] <=> s \in cloud[c]
        /\ writeErrors'[s] = writeErrors[s]

OutcomeFinal == [][OutcomeFinalStep]_vars

\* Exit codes 0 and 2 tell that the plan is complete: no target failed, waits or
\* was left out, and the API server refused no write, not even one whose error
\* the reconciler ignores; 0 tells that nothing would be created, deleted or
\* changed in the cloud (README.md:73-75).
CleanExit ==
    exit \in {0, 2} =>
        /\ \A s \in targets : results[s] \in {"ok", "skipped"} /\ ~failed[s]
        /\ exit = 0 => \A s \in targets :
             /\ \A o \in Object : <<"create", o>> \notin did[s]
             /\ \A o \in Object : <<"delete", o>> \in did[s] => present[o] = "deleting"
             /\ \A c \in Change : <<"cloud", c>> \notin did[s]

\* The SecurityGroups are reconciled after the Clusters, and the plan is printed
\* after all: a worker still running would write to a plan that was read
\* (once.go:164-165).
PhasesApart ==
    Busy # {} => /\ step \notin {"print", "printed", "list"}
                 /\ Busy \subseteq (IF kind = "Cluster" THEN Clusters ELSE SecurityGroups)

\* The run ends, also with a worker count of 0, and when the context ends while
\* a target waits for a worker.
Finishes == <>(step = "printed")

=============================================================================
