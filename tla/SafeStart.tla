------------------------------ MODULE SafeStart ------------------------------
(***************************************************************************)
(* The start of the provider (cmd/provider/main.go from line 215, the      *)
(* zz_setup.go of both scopes, SetupGated and Setup of every controller):  *)
(* with the permission to watch CustomResourceDefinitions, every set-up    *)
(* waits behind a gate until its kinds are there; without it, main does    *)
(* them all at once. External: crossplane-runtime's gate and CRD watcher,  *)
(* controller-runtime's manager, and the kubelet that restarts the process.*)
(***************************************************************************)
EXTENDS Naturals, Sequences, FiniteSets

CONSTANTS
    Setups,    \* the set-ups, in main's order (see Registry)
    Kinds,     \* the kinds they wait for and watch
    Grants,    \* what may be permitted on CustomResourceDefinitions
    Installed, \* the kinds that may be installed at first
    MaxKinds,  \* bound on the CRDs there at a time
    MaxFaults, \* bound on failed calls and kills
    MaxEdits   \* bound on changes of CRDs and permissions

Rows == 1..Len(Setups)
Gates(r) == Setups[r].gates
Built(r) == Setups[r].controllers
Controllers == UNION {{<<r, i>> : i \in DOMAIN Built(r)} : r \in Rows}
Name(c) == Built(c[1])[c[2]].name
Watches(c) == Built(c[1])[c[2]].watches

ASSUME SafeStartAssumption ==
    /\ Len(Setups) \in Nat
    /\ DOMAIN Setups = Rows
    /\ \A r \in Rows : /\ Gates(r) \subseteq Kinds
                       /\ DOMAIN Built(r) = 1..Len(Built(r))
                       /\ Len(Built(r)) \in Nat
    /\ Installed \subseteq SUBSET Kinds
    /\ MaxKinds \in Nat
    /\ MaxFaults \in Nat
    /\ MaxEdits \in Nat

\* The verbs canWatchCRD asks about, in its order.
Verbs == <<"get", "list", "watch">>
VerbSet == {"get", "list", "watch"}

VARIABLES
    crd,       \* each kind's CRD; "unready": not established, or terminating
    allowed,   \* the verbs on CRDs the provider has
    proc,      \* the phase of the process
    verb,      \* the verb canWatchCRD asks about
    gated,     \* SetupGated, or Setup?
    next,      \* the set-up main is at
    job,       \* the controller each set-up builds next; 0: not begun
    satisfied, \* the kinds the gate holds for established
    watching,  \* does the CRD watcher run?
    added,     \* the controllers handed to the manager
    synced,    \* those of them that run
    failed,    \* the set-ups whose error was logged
    faults,
    edits,
    seen       \* history: the kinds reported to the gate as established

world == <<crd, allowed, edits>>
main == <<proc, verb, gated, next>>
gate == <<satisfied, watching, seen>>
manager == <<added, synced>>
vars == <<world, main, job, gate, manager, failed, faults>>

Init ==
    /\ \E there \in Installed :
          crd = [k \in Kinds |-> IF k \in there THEN "established" ELSE "absent"]
    /\ allowed \in Grants
    /\ proc = "down"
    /\ verb = 1
    /\ gated = FALSE
    /\ next = 1
    /\ job = [r \in Rows |-> 0]
    /\ satisfied = {}
    /\ watching = FALSE
    /\ seen = {}
    /\ added = {}
    /\ synced = {}
    /\ failed = {}
    /\ faults = 0
    /\ edits = 0

\* The process ends, and everything it held in memory with it.
Exit ==
    /\ proc' = "down"
    /\ verb' = 1
    /\ gated' = FALSE
    /\ next' = 1
    /\ job' = [r \in Rows |-> 0]
    /\ satisfied' = {}
    /\ watching' = FALSE
    /\ seen' = {}
    /\ added' = {}
    /\ synced' = {}
    /\ failed' = {}

Established(k) == crd[k] = "established"

-----------------------------------------------------------------------------
(***************************************************************************)
(* main                                                                    *)
(***************************************************************************)

Boot ==
    /\ proc = "down"
    /\ proc' = "check"
    /\ UNCHANGED <<world, verb, gated, next, job, gate, manager, failed, faults>>

\* Mutant of Check: the first verb answers for all.
CheckOnce ==
    /\ proc = "check"
    /\ gated' = (Verbs[verb] \in allowed)
    /\ proc' = "setup"
    /\ UNCHANGED <<world, verb, next, job, gate, manager, failed, faults>>

\* Mutant of Check: the loop does not end after the last verb.
CheckPast ==
    /\ proc = "check"
    /\ IF Verbs[verb] \notin allowed
       THEN proc' = "setup" /\ UNCHANGED <<verb, gated>>
       ELSE verb' = verb + 1 /\ UNCHANGED <<proc, gated>>
    /\ UNCHANGED <<world, next, job, gate, manager, failed, faults>>

\* One turn of the loop of canWatchCRD.
Check ==
    /\ proc = "check"
    /\ IF Verbs[verb] \notin allowed
       THEN proc' = "setup" /\ UNCHANGED <<verb, gated>>
       ELSE IF verb < Len(Verbs)
       THEN verb' = verb + 1 /\ UNCHANGED <<proc, gated>>
       ELSE proc' = "setup" /\ gated' = TRUE /\ UNCHANGED verb
    /\ UNCHANGED <<world, next, job, gate, manager, failed, faults>>

\* Mutant of Release: what was released is released again.
ReleaseAgain(kinds, rows) ==
    [r \in Rows |-> IF /\ r \in rows
                       /\ job[r] \notin DOMAIN Built(r)
                       /\ Gates(r) \subseteq kinds THEN 1 ELSE job[r]]

\* Mutant of Release: one of the kinds is enough.
ReleaseEarly(kinds, rows) ==
    [r \in Rows |-> IF /\ r \in rows
                       /\ job[r] = 0
                       /\ Gates(r) \cap kinds # {} THEN 1 ELSE job[r]]

\* The gate: a set-up whose kinds are all there is begun, once.
Release(kinds, rows) ==
    [r \in Rows |-> IF /\ r \in rows
                       /\ job[r] = 0
                       /\ Gates(r) \subseteq kinds THEN 1 ELSE job[r]]

\* SetupGated hands its Setup to the gate and cannot fail.
Register ==
    /\ proc = "setup" /\ gated
    /\ next \in Rows
    /\ next' = next + 1
    /\ job' = Release(satisfied, 1..next)
    /\ UNCHANGED <<world, proc, verb, gated, gate, manager, failed, faults>>

\* Without the gate main calls Setup, and goes on when it has returned.
Call ==
    /\ proc = "setup" /\ ~gated
    /\ next \in Rows
    /\ job[next] = 0
    /\ job' = [job EXCEPT ![next] = 1]
    /\ UNCHANGED <<world, main, gate, manager, failed, faults>>

Return ==
    /\ proc = "setup" /\ ~gated
    /\ next \in Rows
    /\ job[next] > Len(Built(next))
    /\ next' = next + 1
    /\ UNCHANGED <<world, proc, verb, gated, job, gate, manager, failed, faults>>

Start ==
    /\ proc = "setup"
    /\ next \notin Rows
    /\ proc' = "run"
    /\ UNCHANGED <<world, verb, gated, next, job, gate, manager, failed, faults>>

-----------------------------------------------------------------------------
(***************************************************************************)
(* Setup of one row, in main or in a goroutine the gate has started        *)
(***************************************************************************)

Building(r) == job[r] \in DOMAIN Built(r)
Taken(r) == Name(<<r, job[r]>>) \in {Name(c) : c \in added}

Build(r) ==
    /\ Building(r)
    /\ ~Taken(r)
    /\ added' = added \cup {<<r, job[r]>>}
    /\ job' = [job EXCEPT ![r] = @ + 1]
    /\ UNCHANGED <<world, main, gate, synced, failed, faults>>

\* main ends with the error of a Setup; behind the gate it is logged.
Fails(r) ==
    IF gated
    THEN /\ failed' = failed \cup {r}
         /\ job' = [job EXCEPT ![r] = Len(Built(r)) + 1]
         /\ UNCHANGED <<main, gate, manager>>
    ELSE Exit

\* The manager refuses a name that is taken in the process, or a call fails.
BuildFails(r) ==
    /\ Building(r)
    /\ Taken(r) \/ faults < MaxFaults
    /\ faults' = IF Taken(r) THEN faults ELSE faults + 1
    /\ Fails(r)
    /\ UNCHANGED world

-----------------------------------------------------------------------------
(***************************************************************************)
(* The CRD watcher and the manager (external)                              *)
(***************************************************************************)

Waiting(c) == proc = "run" /\ c \in added \ synced

\* A controller runs once it has listed every kind it watches.
Sync(c) ==
    /\ Waiting(c)
    /\ \A k \in Watches(c) : crd[k] # "absent"
    /\ synced' = synced \cup {c}
    /\ UNCHANGED <<world, main, job, gate, added, failed, faults>>

\* A controller that cannot list them ends the manager, and main with it.
Timeout(c) ==
    /\ Waiting(c)
    /\ \E k \in Watches(c) : ~Established(k)
    /\ Exit
    /\ UNCHANGED <<world, faults>>

CanWatch == {"list", "watch"} \subseteq allowed
AwaitsCRDs == proc = "run" /\ gated /\ ~watching

SyncWatcher ==
    /\ AwaitsCRDs
    /\ CanWatch
    /\ watching' = TRUE
    /\ UNCHANGED <<world, main, job, satisfied, seen, manager, failed, faults>>

WatcherTimeout ==
    /\ AwaitsCRDs
    /\ ~CanWatch
    /\ Exit
    /\ UNCHANGED <<world, faults>>

\* The gate is told that a kind is established or is not. A CRD that has
\* gone altogether is not reported.
WatchCRD(k) ==
    /\ watching
    /\ CanWatch
    /\ crd[k] # "absent"
    /\ Established(k) # (k \in satisfied)
    /\ satisfied' = IF Established(k) THEN satisfied \cup {k} ELSE satisfied \ {k}
    /\ seen' = IF Established(k) THEN seen \cup {k} ELSE seen
    /\ job' = Release(satisfied', Rows)
    /\ UNCHANGED <<world, main, watching, manager, failed, faults>>

\* A call of main fails, or the process is killed.
Kill ==
    /\ proc # "down"
    /\ faults < MaxFaults
    /\ faults' = faults + 1
    /\ Exit
    /\ UNCHANGED world

-----------------------------------------------------------------------------
(***************************************************************************)
(* The cluster                                                             *)
(***************************************************************************)

Edit ==
    /\ edits < MaxEdits
    /\ edits' = edits + 1
    /\ UNCHANGED <<main, job, gate, manager, failed, faults>>

Steps == {<<"absent", "unready">>, <<"unready", "established">>,
          <<"established", "unready">>, <<"unready", "absent">>}

\* A CRD is applied, becomes established, is deleted, and goes.
ChangeCRD(k, state) ==
    /\ Edit
    /\ <<crd[k], state>> \in Steps
    /\ state = "unready" => Cardinality({j \in Kinds \ {k} : crd[j] # "absent"}) < MaxKinds
    /\ crd' = [crd EXCEPT ![k] = state]
    /\ UNCHANGED allowed

Permit(verbs) ==
    /\ Edit
    /\ allowed # verbs
    /\ allowed' = verbs
    /\ UNCHANGED crd

-----------------------------------------------------------------------------
Main == Boot \/ Check \/ Register \/ Call \/ Return \/ Start

Next ==
    \/ Main
    \/ \E r \in Rows : Build(r) \/ BuildFails(r)
    \/ \E c \in added : Sync(c) \/ Timeout(c)
    \/ SyncWatcher \/ WatcherTimeout
    \/ \E k \in Kinds : WatchCRD(k)
    \/ Kill
    \/ \E k \in Kinds, state \in {"absent", "unready", "established"} : ChangeCRD(k, state)
    \/ \E verbs \in Grants : Permit(verbs)

Spec == Init /\ [][Next]_vars

\* The process goes on and is restarted, goroutines and the watcher get
\* their turn, and caches sync or time out.
FairSpec ==
    /\ Spec
    /\ WF_vars(Main)
    /\ \A r \in Rows : WF_vars(Build(r))
    /\ \A c \in Controllers : WF_vars(c \in added /\ Sync(c)) /\ WF_vars(c \in added /\ Timeout(c))
    /\ WF_vars(SyncWatcher)
    /\ WF_vars(WatcherTimeout)
    /\ \A k \in Kinds : WF_vars(WatchCRD(k))

-----------------------------------------------------------------------------
(***************************************************************************)
(* Properties                                                              *)
(***************************************************************************)

\* Every variable has its type.
TypeOK ==
    /\ crd \in [Kinds -> {"absent", "unready", "established"}]
    /\ allowed \in Grants
    /\ proc \in {"down", "check", "setup", "run"}
    /\ verb \in 1..Len(Verbs)
    /\ gated \in BOOLEAN
    /\ next \in 1..(Len(Setups) + 1)
    /\ job \in [Rows -> Nat]
    /\ \A r \in Rows : job[r] <= Len(Built(r)) + 1
    /\ satisfied \in SUBSET Kinds
    /\ watching \in BOOLEAN
    /\ added \in SUBSET Controllers
    /\ synced \in SUBSET added
    /\ failed \in SUBSET Rows
    /\ faults \in 0..MaxFaults
    /\ edits \in 0..MaxEdits
    /\ seen \in SUBSET Kinds

\* No set-up asks for a name that is taken: no two controllers of the
\* provider share one, and a kind that comes, goes and comes back does not
\* have its controller built again. Behind the gate such an error would only
\* be logged, and the kind never be reconciled.
NamesAreFree == \A r \in Rows : Building(r) => ~Taken(r)

\* What the gate has begun is behind kinds it has seen, whatever it holds of
\* them now, and what the manager has is behind the step of its set-up; a
\* process that is not past canWatchCRD has begun nothing.
Gatekeeping ==
    /\ satisfied \subseteq seen
    /\ \A r \in Rows : gated /\ job[r] > 0 => Gates(r) \subseteq seen
    /\ \A c \in added : c[2] < job[c[1]]
    /\ proc \in {"down", "check"} => \A r \in Rows : job[r] = 0
    /\ watching => proc = "run"

\* What the two properties take of the set-ups: no name is there twice, and
\* every gate names what its controllers watch.
DistinctNames == \A b, c \in Controllers : Name(b) = Name(c) => b = c
GatesCover == \A c \in Controllers : Watches(c) \subseteq Gates(c[1])

\* A gated provider is not stopped by a kind that is not installed: a
\* controller that times out watches a kind that the gate has seen
\* established and that has gone since.
OnlyLostKindsStop ==
    [][\A c \in added :
          Timeout(c) /\ gated => \E k \in Watches(c) : k \in seen /\ ~Established(k)]_vars

\* In the end every controller whose gate's kinds are there runs, unless the
\* error of its set-up was logged: with the permission to watch CRDs whatever
\* other kinds are missing, and without it if none is.
Serves ==
    \A c \in Controllers :
        <>[](/\ \A k \in Gates(c[1]) : Established(k)
             /\ \/ VerbSet \subseteq allowed
                \/ ~gated /\ \A k \in Kinds : Established(k)
             => c \in synced \/ c[1] \in failed)

=============================================================================
