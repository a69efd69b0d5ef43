----------------------------- MODULE WorkerPool -----------------------------
(***************************************************************************)
(* run_in_background of app/extensions.py: the thread pool for backups and *)
(* restores, created by the first request that needs it.  A pool is        *)
(* concurrent.futures.ThreadPoolExecutor: a queue and so many workers.     *)
(***************************************************************************)
EXTENDS Naturals, Sequences, FiniteSets

CONSTANTS
    Jobs,       \* each requested, run and, once it has ended, requested again
    Workers,    \* WORKER_THREADS
    MaxPools    \* bound on the pools, at least the number of first requests

ASSUME WorkerPoolAssumption == IsFiniteSet(Jobs) /\ Workers \in Nat \ {0} /\ MaxPools \in Nat \ {0}

VARIABLES
    executor,   \* the pool that _executor names, or 0
    pools,      \* pools created so far
    queue,      \* queue[p] : the jobs that wait in pool p
    working,    \* working[p] : the jobs that run in pool p
    asked,      \* asked[j] : where the request of j is
    racers,     \* history: the jobs whose request found no pool
    settled     \* history: the jobs last requested when no pool was being created any more

poolVars == <<executor, pools, queue, working, asked, racers, settled>>
history == <<racers, settled>>

Running == UNION {working[p] : p \in 1 .. MaxPools}
Steps(j, from, to) == asked[j] = from /\ asked' = [asked EXCEPT ![j] = to]

\* Mutated form: a pool for every request.
AlwaysNew == TRUE

NoExecutor == executor = 0

Creating == \E j \in Jobs : asked[j] = "create"

Look(j) ==
    /\ \/ NoExecutor /\ Steps(j, "none", "create")
       \/ ~NoExecutor /\ Steps(j, "none", "submit")
    /\ racers' = IF executor = 0 THEN racers \cup {j} ELSE racers
    /\ settled' = IF executor = 0 \/ Creating THEN settled \ {j} ELSE settled \cup {j}
    /\ UNCHANGED <<executor, pools, queue, working>>

Create(j) ==
    /\ pools < MaxPools /\ Steps(j, "create", "submit")
    /\ pools' = pools + 1 /\ executor' = pools + 1
    /\ UNCHANGED <<queue, working, history>>

Queued(job, waiting) == Append(waiting, job)

Submit(j) ==
    /\ Steps(j, "submit", "pending")
    /\ queue' = [queue EXCEPT ![executor] = Queued(j, @)]
    /\ UNCHANGED <<executor, pools, working, history>>

Take(p) ==
    /\ queue[p] # <<>> /\ Cardinality(working[p]) < Workers
    /\ working' = [working EXCEPT ![p] = @ \cup {Head(queue[p])}]
    /\ queue' = [queue EXCEPT ![p] = Tail(@)]
    /\ UNCHANGED <<executor, pools, asked, history>>

\* The job returns, or raises and is logged: its worker is free again.
Finish(j) ==
    /\ j \in Running /\ Steps(j, "pending", "none")
    /\ working' = [p \in 1 .. MaxPools |-> working[p] \ {j}]
    /\ UNCHANGED <<executor, pools, queue, history>>

PoolInit ==
    /\ executor = 0 /\ pools = 0
    /\ queue = [p \in 1 .. MaxPools |-> <<>>] /\ working = [p \in 1 .. MaxPools |-> {}]
    /\ asked = [j \in Jobs |-> "none"] /\ racers = {} /\ settled = {}

PoolNext ==
    \/ \E j \in Jobs : Look(j) \/ Create(j) \/ Submit(j) \/ Finish(j)
    \/ \E p \in 1 .. MaxPools : Take(p)

PoolSpec == PoolInit /\ [][PoolNext]_poolVars

----------------------------------------------------------------------------
(* Properties *)

\* The requests that raced before there was a pool may leave a pool each, but no
\* later request adds one; and of the jobs requested once that race was over no
\* more than WORKER_THREADS ever run at a time, whatever the other pools do.
PoolsKeepTheirBound ==
    /\ pools <= Cardinality(racers)
    /\ Cardinality(Running \cap settled) <= Workers
=============================================================================
