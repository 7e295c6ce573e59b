----------------------------- MODULE PoolGroups -----------------------------
(***************************************************************************)
(* What the reconciles of SecurityGroups promise together about the groups *)
(* of machine pools, without the calls it takes: a pool has a newest       *)
(* configuration and the one it launches instances with; a SecurityGroup   *)
(* adds and removes its own group in the newest, which is then put to use, *)
(* and vouches for a pool from the end of an attach until it lets go.      *)
(* PoolAttachment implements it.                                           *)
(***************************************************************************)
CONSTANTS
    SG,    \* SecurityGroups, and the groups they own
    Pool

VARIABLES
    latest,    \* the groups in the newest configuration of a pool
    launch,    \* the groups a pool launches instances with
    held       \* the pools a SecurityGroup vouches for

vars == <<latest, launch, held>>

TypeOK ==
    /\ latest \in [Pool -> SUBSET SG]
    /\ launch \in [Pool -> SUBSET SG]
    /\ held \in [SG -> SUBSET Pool]

Init ==
    /\ latest = [p \in Pool |-> {}]
    /\ launch = [p \in Pool |-> {}]
    /\ held = [s \in SG |-> {}]

\* The newest configuration of p becomes gs; Ocean puts it to use at once.
Configure(p, gs) ==
    /\ latest' = [latest EXCEPT ![p] = gs]
    /\ launch' \in {launch, [launch EXCEPT ![p] = gs]}
    /\ UNCHANGED held

Add(s, p) == Configure(p, latest[p] \cup {s})

\* Only a SecurityGroup that has let go takes its group out.
Remove(s, p) ==
    /\ p \notin held[s]
    /\ Configure(p, latest[p] \ {s})

\* An Auto Scaling group is moved to the newest version of its template, and
\* to no other.
UseLatest(p) ==
    /\ launch' = [launch EXCEPT ![p] = latest[p]]
    /\ UNCHANGED <<latest, held>>

\* An attach returns nil.
Vouch(s, p) ==
    /\ s \in latest[p] /\ s \in launch[p]
    /\ held' = [held EXCEPT ![s] = @ \cup {p}]
    /\ UNCHANGED <<latest, launch>>

\* A detach begins, or a deletion gives the group up.
LetGo(s) ==
    /\ \E rest \in SUBSET held[s] : held' = [held EXCEPT ![s] = rest]
    /\ UNCHANGED <<latest, launch>>

\* The group itself is deleted; a configuration may go on naming it, which
\* means nothing from then on.
DeleteGroup(s) ==
    /\ held[s] = {}
    /\ latest' = [p \in Pool |-> latest[p] \ {s}]
    /\ launch' = [p \in Pool |-> launch[p] \ {s}]
    /\ UNCHANGED held

Next == \/ \E s \in SG : \/ \E p \in Pool : Add(s, p) \/ Remove(s, p) \/ Vouch(s, p)
                        \/ LetGo(s)
                        \/ DeleteGroup(s)
        \/ \E p \in Pool : UseLatest(p)

Spec == Init /\ [][Next]_vars

\* A pool that is vouched for launches its instances with the group, and goes
\* on doing so when the newest configuration is put to use.
Kept == \A s \in SG : \A p \in held[s] : s \in latest[p] /\ s \in launch[p]

=============================================================================
