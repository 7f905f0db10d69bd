------------------------- MODULE OpsSchedulerProofs -------------------------
(***************************************************************************)
(* Proofs about OpsScheduler, for any replicas, tasks, releases, intervals *)
(* and timeouts.  The invariant OneHolder is made inductive by two facts:  *)
(* a replica that has kept a task past its lease is known to be late, and  *)
(* the task a replica executes is no longer on its list.                   *)
(***************************************************************************)
EXTENDS OpsScheduler, TLAPS

LateIsKnown ==
    \A s \in Schedulers : since[s] = Expired => Mine(s) \subseteq late

CurIsOffTheList == \A s \in Schedulers : cur[s] \notin todo[s]

IInv == TypeOK /\ LateIsKnown /\ CurIsOffTheList /\ OneHolder /\ LeaseHasHolder

(* The initial states satisfy the invariant.                               *)
LEMMA InitIInv == Init => IInv
  BY SchedulerConstants DEF Init, IInv, TypeOK, LateIsKnown, CurIsOffTheList,
     OneHolder, LeaseHasHolder, Mine, Expired

(* Every step keeps the types.                                             *)
LEMMA TypesKept == TypeOK /\ [Next]_vars => TypeOK'
<1> SUFFICES ASSUME TypeOK, [Next]_vars PROVE TypeOK'
  OBVIOUS
<1> USE SchedulerConstants DEF TypeOK, Expired
<1>1. ASSUME NEW s \in Schedulers, Run(s) PROVE TypeOK'
  BY <1>1 DEF Run, pass
<1>2. ASSUME NEW s \in Schedulers, ClaimDue(s) PROVE TypeOK'
  BY <1>2 DEF ClaimDue, LeaseDue, Due
<1>a. ASSUME NEW s \in Schedulers, ClaimReplyLost(s) PROVE TypeOK'
  BY <1>a DEF ClaimReplyLost, LeaseDue, Due, Fault
<1>3. ASSUME NEW s \in Schedulers, Execute(s) PROVE TypeOK'
  BY <1>3 DEF Execute, table
<1>4. ASSUME NEW s \in Schedulers, Skip(s) PROVE TypeOK'
  BY <1>4 DEF Skip, Complete
<1>5. ASSUME NEW s \in Schedulers, RunReturns(s) PROVE TypeOK'
  BY <1>5 DEF RunReturns, Returned, Complete
<1>6. ASSUME NEW s \in Schedulers, CompleteFails(s) PROVE TypeOK'
  BY <1>6 DEF CompleteFails, Returned, Fault
<1>7. ASSUME NEW s \in Schedulers, Stop(s) PROVE TypeOK'
  BY <1>7 DEF Stop, Fault, table, Mine
<1>8. ASSUME Tick PROVE TypeOK'
  BY <1>8 DEF Tick, Mine
<1>9. CASE UNCHANGED vars
  BY <1>9 DEF vars, table, pass
<1> QED
  BY <1>1, <1>2, <1>a, <1>3, <1>4, <1>5, <1>6, <1>7, <1>8, <1>9 DEF Next, Step

(* Every step keeps the two facts about a replica's own list.              *)
LEMMA ListsKept ==
    TypeOK /\ LateIsKnown /\ CurIsOffTheList /\ [Next]_vars
        => LateIsKnown' /\ CurIsOffTheList'
<1> SUFFICES ASSUME TypeOK, LateIsKnown, CurIsOffTheList, [Next]_vars
             PROVE LateIsKnown' /\ CurIsOffTheList'
  OBVIOUS
<1> USE SchedulerConstants DEF TypeOK, LateIsKnown, CurIsOffTheList, Mine, Expired
<1>1. ASSUME NEW s \in Schedulers, Run(s) PROVE LateIsKnown' /\ CurIsOffTheList'
  BY <1>1 DEF Run, pass
<1>2. ASSUME NEW s \in Schedulers, ClaimDue(s) PROVE LateIsKnown' /\ CurIsOffTheList'
  BY <1>2 DEF ClaimDue, LeaseDue, Due
<1>a. ASSUME NEW s \in Schedulers, ClaimReplyLost(s) PROVE LateIsKnown' /\ CurIsOffTheList'
  BY <1>a DEF ClaimReplyLost, LeaseDue
<1>3. ASSUME NEW s \in Schedulers, Execute(s) PROVE LateIsKnown' /\ CurIsOffTheList'
  BY <1>3 DEF Execute, table
<1>4. ASSUME NEW s \in Schedulers, Skip(s) PROVE LateIsKnown' /\ CurIsOffTheList'
  BY <1>4 DEF Skip, Complete
<1>5. ASSUME NEW s \in Schedulers, Returned(s) PROVE LateIsKnown' /\ CurIsOffTheList'
  BY <1>5 DEF Returned
<1>6. ASSUME NEW s \in Schedulers, Stop(s) PROVE LateIsKnown' /\ CurIsOffTheList'
  BY <1>6 DEF Stop, Fault, table
<1>7. ASSUME Tick PROVE LateIsKnown' /\ CurIsOffTheList'
  BY <1>7 DEF Tick
<1>8. CASE UNCHANGED vars
  BY <1>8 DEF vars, table, pass
<1> QED
  BY <1>1, <1>2, <1>a, <1>3, <1>4, <1>5, <1>6, <1>7, <1>8
     DEF Next, Step, RunReturns, CompleteFails

(* Every step keeps the holder of a task unique.                           *)
LEMMA HolderKept == IInv /\ [Next]_vars => OneHolder'
<1> SUFFICES ASSUME IInv, [Next]_vars,
                    NEW t \in Tasks, t \notin late',
                    NEW s \in Schedulers, t \in Mine(s)'
             PROVE /\ leased'[t] /\ age'[t] = since'[s] /\ due'[t] = 0
                   /\ \A r \in Schedulers \ {s} : t \notin Mine(r)'
  BY DEF OneHolder
<1> DEFINE Good == /\ leased'[t] /\ age'[t] = since'[s] /\ due'[t] = 0
                   /\ \A r \in Schedulers \ {s} : t \notin Mine(r)'
<1> USE SchedulerConstants DEF IInv, TypeOK, OneHolder, Mine
<1>1. ASSUME NEW q \in Schedulers, Run(q) PROVE Good
  BY <1>1 DEF Run, pass
<1>2. ASSUME NEW q \in Schedulers, ClaimDue(q) PROVE Good
  <2> DEFINE names == Due
  <2>1. t \in names => \A r \in Schedulers : t \notin Mine(r)
    BY <1>2 DEF ClaimDue, LeaseDue, Due, Claimable, LateIsKnown, Expired
  <2>2. \A r \in Schedulers \ {q} : Mine(r)' = Mine(r) /\ since'[r] = since[r]
    BY <1>2 DEF ClaimDue, LeaseDue, Due
  <2>3. Mine(q)' = names /\ since'[q] = 0
    BY <1>2 DEF ClaimDue, LeaseDue, Due
  <2>4. CASE t \in names
    BY <1>2, <2>1, <2>2, <2>3, <2>4 DEF ClaimDue, LeaseDue, Due, Claimable
  <2>5. CASE t \notin names
    <3>1. s # q /\ t \in Mine(s)
      BY <2>2, <2>3, <2>5
    <3>2. leased'[t] = leased[t] /\ age'[t] = age[t] /\ due' = due /\ late' = late
      BY <1>2, <2>5 DEF ClaimDue, LeaseDue
    <3> QED
      BY <2>2, <2>3, <2>5, <3>1, <3>2
  <2> QED
    BY <2>4, <2>5
<1>a. ASSUME NEW q \in Schedulers, ClaimReplyLost(q) PROVE Good
  <2>1. \A r \in Schedulers : Mine(r)' = Mine(r) /\ since'[r] = since[r]
    BY <1>a DEF ClaimReplyLost, LeaseDue
  <2>2. t \notin Due
    BY <1>a, <2>1 DEF ClaimReplyLost, LeaseDue, Due, Claimable, LateIsKnown, Expired
  <2>3. leased'[t] = leased[t] /\ age'[t] = age[t] /\ due' = due /\ late' = late
    BY <1>a, <2>2 DEF ClaimReplyLost, LeaseDue
  <2> QED
    BY <2>1, <2>3
<1>3. ASSUME NEW q \in Schedulers, Execute(q) PROVE Good
  BY <1>3 DEF Execute, table
<1>4. ASSUME NEW q \in Schedulers, Skip(q) PROVE Good
  BY <1>4 DEF Skip, Complete, CurIsOffTheList
<1>5. ASSUME NEW q \in Schedulers, RunReturns(q) PROVE Good
  BY <1>5 DEF RunReturns, Returned, Complete, CurIsOffTheList
<1>6. ASSUME NEW q \in Schedulers, CompleteFails(q) PROVE Good
  BY <1>6 DEF CompleteFails, Returned
<1>7. ASSUME NEW q \in Schedulers, Stop(q) PROVE Good
  BY <1>7 DEF Stop, table
<1>8. ASSUME Tick PROVE Good
  BY <1>8 DEF Tick, Expired
<1>9. CASE UNCHANGED vars
  BY <1>9 DEF vars, table, pass
<1> QED
  BY <1>1, <1>2, <1>a, <1>3, <1>4, <1>5, <1>6, <1>7, <1>8, <1>9 DEF Next, Step

(* Every step leaves a lease with a holder, or counts it as lost.          *)
LEMMA LeasesKept == IInv /\ [Next]_vars => LeaseHasHolder'
<1> SUFFICES ASSUME IInv, [Next]_vars, NEW t \in Tasks, t \notin late', leased'[t]
             PROVE t \in lost' \/ \E s \in Schedulers : t \in Mine(s)'
  BY DEF LeaseHasHolder
<1> DEFINE Good == t \in lost' \/ \E s \in Schedulers : t \in Mine(s)'
<1> USE SchedulerConstants DEF IInv, TypeOK, LeaseHasHolder, Mine
<1>1. ASSUME NEW q \in Schedulers, Run(q) PROVE Good
  BY <1>1 DEF Run, pass
<1>2. ASSUME NEW q \in Schedulers, ClaimDue(q) PROVE Good
  BY <1>2 DEF ClaimDue, LeaseDue
<1>a. ASSUME NEW q \in Schedulers, ClaimReplyLost(q) PROVE Good
  BY <1>a DEF ClaimReplyLost, LeaseDue
<1>3. ASSUME NEW q \in Schedulers, Execute(q) PROVE Good
  BY <1>3 DEF Execute, table
<1>4. ASSUME NEW q \in Schedulers, Skip(q) PROVE Good
  BY <1>4 DEF Skip, Complete
<1>5. ASSUME NEW q \in Schedulers, RunReturns(q) PROVE Good
  BY <1>5 DEF RunReturns, Returned, Complete
<1>6. ASSUME NEW q \in Schedulers, CompleteFails(q) PROVE Good
  BY <1>6 DEF CompleteFails, Returned
<1>7. ASSUME NEW q \in Schedulers, Stop(q) PROVE Good
  BY <1>7 DEF Stop, table
<1>8. ASSUME Tick PROVE Good
  BY <1>8 DEF Tick
<1>9. CASE UNCHANGED vars
  BY <1>9 DEF vars, table, pass
<1> QED
  BY <1>1, <1>2, <1>a, <1>3, <1>4, <1>5, <1>6, <1>7, <1>8, <1>9 DEF Next, Step

(* The invariant holds of every behaviour.                                 *)
THEOREM Invariant == Spec => []IInv
<1>1. IInv /\ [Next]_vars => IInv'
  BY TypesKept, ListsKept, HolderKept, LeasesKept DEF IInv
<1> QED
  BY InitIInv, <1>1, PTL DEF Spec

(* TypeOK holds of scheduled_tasks and the replicas at any size.           *)
THEOREM TypeCorrect == Spec => []TypeOK
  BY Invariant, PTL DEF IInv

(* ClaimDue's lease excludes: as long as no replica has kept a task past   *)
(* its lease, one replica at most has it.                                  *)
THEOREM TasksHaveOneHolder == Spec => []OneHolder
  BY Invariant, PTL DEF IInv

(* A set running_since belongs to a replica or is on its way to expiring.  *)
THEOREM LeasesHaveHolders == Spec => []LeaseHasHolder
  BY Invariant, PTL DEF IInv

(* Two replicas execute a task at once only if one of them has kept it     *)
(* past its lease: what NotRunTwice says holds of every other task.        *)
THEOREM RunTwiceOnlyWhenLate ==
    Spec => [](\A s, r \in Schedulers :
                  s # r /\ cur[s] = cur[r] => cur[s] = NoTask \/ cur[s] \in late)
<1>1. IInv => \A s, r \in Schedulers :
                  s # r /\ cur[s] = cur[r] => cur[s] = NoTask \/ cur[s] \in late
  BY DEF IInv, OneHolder, TypeOK, Mine
<1> QED
  BY Invariant, <1>1, PTL
=============================================================================
