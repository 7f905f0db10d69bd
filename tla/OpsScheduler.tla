---------------------------- MODULE OpsScheduler ----------------------------
(***************************************************************************)
(* The ops-scheduler: replicas of internal/ops/scheduler.go share the rows *)
(* of scheduled_tasks.  A pass leases every due task at once, then runs    *)
(* them one after the other; a run is cut off at its timeout.              *)
(*                                                                         *)
(* Time is counted in units; rows hold how long ago a lease was taken and  *)
(* how long it is until a task is due, so that nothing grows.              *)
(***************************************************************************)
EXTENDS Integers

CONSTANTS
    Schedulers,   \* replicas of cmd/ops-scheduler
    Tasks,
    NoTask,
    Handlers,     \* Handlers[s]: the tasks registered in s (its release)
    Interval,     \* interval_seconds of each task
    Timeout,      \* of each task; Lease unless the task sets one
    Lease,        \* Options.Lease
    MaxFaults     \* bound of the model: stops, lost replies, failed completions

ASSUME SchedulerConstants ==
    /\ NoTask \notin Tasks
    /\ Handlers \in [Schedulers -> SUBSET Tasks]
    /\ Interval \in [Tasks -> Nat \ {0}]
    /\ Timeout \in [Tasks -> Nat \ {0}]
    /\ Lease \in Nat \ {0}
    /\ MaxFaults \in Nat

VARIABLES
    rows,     \* tasks with a row; all are enabled
    leased,   \* running_since is not NULL
    age,      \* time since running_since, up to just past the lease
    due,      \* time until next_run_at, 0 when it has come
    up,       \* the replica runs
    todo,     \* the names its pass has leased and not yet executed
    cur,      \* the task it executes
    spent,    \* time it has executed it
    since,    \* time since the pass claimed its names, up to past the lease
    faults,   \* faults so far (bound)
    late,     \* history: tasks some replica kept past its lease
    lost      \* history: leases whose replica has stopped, never heard of them
              \* or failed to clear them

table == <<rows, leased, age, due>>
pass  == <<todo, cur, spent, since>>
vars  == <<table, up, pass, faults, late, lost>>

Expired == Lease + 1
Mine(s) == todo[s] \cup ({cur[s]} \ {NoTask})

Init ==
    /\ rows = {}
    /\ leased = [t \in Tasks |-> FALSE]
    /\ age = [t \in Tasks |-> 0]
    /\ due = [t \in Tasks |-> 0]
    /\ up = [s \in Schedulers |-> FALSE]
    /\ todo = [s \in Schedulers |-> {}]
    /\ cur = [s \in Schedulers |-> NoTask]
    /\ spent = [s \in Schedulers |-> 0]
    /\ since = [s \in Schedulers |-> 0]
    /\ faults = 0
    /\ late = {}
    /\ lost = {}

Fault == faults < MaxFaults /\ faults' = faults + 1

(* Run seeds a row for each of its tasks; ON CONFLICT DO NOTHING.          *)
Run(s) ==
    /\ ~ up[s]
    /\ up' = [up EXCEPT ![s] = TRUE]
    /\ rows' = rows \cup Handlers[s]
    /\ UNCHANGED <<leased, age, due, pass, faults, late, lost>>

(* A slip: running_since is not looked at.                                 *)
ClaimableUnleased(t) == t \in rows /\ due[t] = 0

(* A slip: a lease never expires.                                          *)
ClaimableForever(t) == t \in rows /\ due[t] = 0 /\ ~ leased[t]

Claimable(t) ==
    /\ t \in rows
    /\ due[t] = 0
    /\ ~ leased[t] \/ age[t] > Lease

(* A pass, at once after the start or at a tick: its UPDATE leases all due *)
(* tasks; nothing due, nothing changed.                                    *)
Due == {t \in Tasks : Claimable(t)}

LeaseDue(s) ==
    /\ up[s] /\ Mine(s) = {} /\ Due # {}
    /\ leased' = [t \in Tasks |-> leased[t] \/ t \in Due]
    /\ age' = [t \in Tasks |-> IF t \in Due THEN 0 ELSE age[t]]
    /\ UNCHANGED <<rows, due, up, cur, spent, late>>

ClaimDue(s) ==
    /\ LeaseDue(s)
    /\ todo' = [todo EXCEPT ![s] = Due]
    /\ since' = [since EXCEPT ![s] = 0]
    /\ lost' = lost \ Due
    /\ UNCHANGED faults

(* The UPDATE commits and its reply is lost: the pass ends with an error,  *)
(* and nobody runs what it has leased.                                     *)
ClaimReplyLost(s) ==
    /\ LeaseDue(s) /\ Fault
    /\ lost' = lost \cup Due
    /\ UNCHANGED <<todo, since>>

(* A slip: the outcome is recorded, but the lease is not cleared.          *)
CompleteKeepingLease(t) ==
    /\ due' = [due EXCEPT ![t] = Interval[t]]
    /\ UNCHANGED <<leased, age, lost>>

(* A slip: the next run lies an interval in the past.                      *)
CompleteBackwards(t) ==
    /\ leased' = [leased EXCEPT ![t] = FALSE]
    /\ age' = [age EXCEPT ![t] = 0]
    /\ due' = [due EXCEPT ![t] = 0 - Interval[t]]
    /\ lost' = lost \ {t}

(* Complete clears the lease, whoever holds it, and schedules the next run.*)
Complete(t) ==
    /\ leased' = [leased EXCEPT ![t] = FALSE]
    /\ age' = [age EXCEPT ![t] = 0]
    /\ due' = [due EXCEPT ![t] = Interval[t]]
    /\ lost' = lost \ {t}

(* execute, up to the handler's Run.                                       *)
Execute(s) ==
    /\ cur[s] = NoTask
    /\ \E t \in todo[s] \cap Handlers[s] :
        /\ todo' = [todo EXCEPT ![s] = @ \ {t}]
        /\ cur' = [cur EXCEPT ![s] = t]
    /\ UNCHANGED <<table, up, spent, since, faults, late, lost>>

(* A row of a task this release does not know is completed, not run.       *)
Skip(s) ==
    /\ cur[s] = NoTask
    /\ \E t \in todo[s] \ Handlers[s] :
        /\ todo' = [todo EXCEPT ![s] = @ \ {t}]
        /\ Complete(t)
    /\ UNCHANGED <<rows, up, cur, spent, since, faults, late>>

Returned(s) ==
    /\ cur[s] # NoTask
    /\ cur' = [cur EXCEPT ![s] = NoTask]
    /\ spent' = [spent EXCEPT ![s] = 0]
    /\ UNCHANGED <<rows, up, todo, since, late>>

(* The handler returns, with or without an error, and that is recorded.    *)
RunReturns(s) ==
    /\ Returned(s)
    /\ Complete(cur[s])
    /\ UNCHANGED faults

(* Complete fails, which is only logged: the lease runs out.               *)
CompleteFails(s) ==
    /\ Returned(s)
    /\ Fault
    /\ lost' = lost \cup {cur[s]}
    /\ UNCHANGED <<leased, age, due>>

(* The replica crashes, or is told to stop: then what is left of the pass  *)
(* fails on the cancelled context, and so does every Complete.             *)
Stop(s) ==
    /\ up[s]
    /\ Fault
    /\ up' = [up EXCEPT ![s] = FALSE]
    /\ lost' = lost \cup Mine(s)
    /\ todo' = [todo EXCEPT ![s] = {}]
    /\ cur' = [cur EXCEPT ![s] = NoTask]
    /\ spent' = [spent EXCEPT ![s] = 0]
    /\ UNCHANGED <<table, since, late>>

(* Time passes while runs last, which is no longer than their timeout; a   *)
(* unit is long against the statements between two runs.                   *)
Tick ==
    /\ \A s \in Schedulers : todo[s] # {} => cur[s] # NoTask
    /\ \A s \in Schedulers : cur[s] # NoTask => spent[s] < Timeout[cur[s]]
    /\ age' = [t \in Tasks |-> IF leased[t] /\ age[t] < Expired THEN age[t] + 1 ELSE age[t]]
    /\ due' = [t \in Tasks |-> IF t \in rows /\ due[t] > 0 THEN due[t] - 1 ELSE due[t]]
    /\ spent' = [s \in Schedulers |-> IF cur[s] # NoTask THEN spent[s] + 1 ELSE spent[s]]
    /\ since' = [s \in Schedulers |->
                    IF Mine(s) # {} /\ since[s] < Expired THEN since[s] + 1 ELSE since[s]]
    /\ late' = late \cup {t \in Tasks : \E s \in Schedulers :
                              since'[s] = Expired /\ t \in Mine(s)}
    /\ UNCHANGED <<rows, leased, up, todo, cur, faults, lost>>

Step(s) ==
    \/ Run(s)
    \/ ClaimDue(s)
    \/ Execute(s)
    \/ Skip(s)
    \/ RunReturns(s)

Next ==
    \/ \E s \in Schedulers : Step(s) \/ ClaimReplyLost(s) \/ CompleteFails(s) \/ Stop(s)
    \/ Tick

Spec == Init /\ [][Next]_vars

(* A replica is restarted, claims at every tick and goes through its list; *)
(* its runs return, at the latest at their timeout; time goes on.          *)
FairSpec == Spec /\ WF_vars(Tick) /\ \A s \in Schedulers : WF_vars(Step(s))

-----------------------------------------------------------------------------
(* Properties.                                                             *)

(* Every variable keeps its type.                                          *)
TypeOK ==
    /\ rows \subseteq Tasks
    /\ leased \in [Tasks -> BOOLEAN]
    /\ age \in [Tasks -> 0 .. Expired]
    /\ due \in [Tasks -> Nat]
    /\ up \in [Schedulers -> BOOLEAN]
    /\ todo \in [Schedulers -> SUBSET Tasks]
    /\ cur \in [Schedulers -> Tasks \cup {NoTask}]
    /\ spent \in [Schedulers -> Nat]
    /\ since \in [Schedulers -> 0 .. Expired]
    /\ faults \in 0 .. MaxFaults
    /\ late \subseteq Tasks
    /\ lost \subseteq Tasks

(* A task is in the hands of one replica, for which its row is leased and  *)
(* due, unless a replica has kept it past the lease it had taken.          *)
OneHolder ==
    \A t \in Tasks \ late, s \in Schedulers : t \in Mine(s) =>
        /\ leased[t] /\ age[t] = since[s] /\ due[t] = 0
        /\ \A r \in Schedulers \ {s} : t \notin Mine(r)

(* running_since is set for a replica that has the task, or for one that   *)
(* has stopped, was not told of it or failed to record its run: then it    *)
(* runs out.                                                               *)
LeaseHasHolder ==
    \A t \in Tasks \ late : leased[t] => t \in lost \/ \E s \in Schedulers : t \in Mine(s)

(* A task that is due is run, whatever replica stops on the way, if every  *)
(* replica knows it.                                                       *)
DueTasksRun ==
    \A t \in Tasks :
        (\A s \in Schedulers : t \in Handlers[s]) =>
            (t \in rows /\ due[t] = 0 ~> \E s \in Schedulers : cur[s] = t)

-----------------------------------------------------------------------------
(* scheduled_tasks.go: ClaimDue leases what is "due and not already        *)
(* running", "safe across concurrent schedulers": a task is not executed   *)
(* by two replicas at once.  But a task waits its turn in the pass that    *)
(* has leased it, and its lease runs on.                                   *)
NotRunTwice ==
    \A s, r \in Schedulers : s # r /\ cur[s] = cur[r] => cur[s] = NoTask
=============================================================================
