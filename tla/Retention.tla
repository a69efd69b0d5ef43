------------------------------ MODULE Retention ------------------------------
(***************************************************************************)
(* The retention policy of one schedule, select_backups_to_delete of       *)
(* app/services/storage_service.py, applied again and again while time     *)
(* passes and backups are taken.  Time is a count of ticks; days, weeks    *)
(* and months are blocks of ticks, weeks and months out of step.  A backup *)
(* is a number, in the order of created_at (the clock is never set back).  *)
(***************************************************************************)
EXTENDS Integers, Sequences, FiniteSets

CONSTANTS
    MaxTaken,       \* bound: backups taken in one behaviour
    Horizon,        \* bound: the clock
    TicksPerDay, DaysPerWeek, DaysPerMonth,
    Policies        \* the policies a schedule may have

ASSUME CalendarAssumption ==
    /\ MaxTaken \in Nat /\ Horizon \in Nat
    /\ {TicksPerDay, DaysPerWeek, DaysPerMonth} \subseteq Nat \ {0}
ASSUME PolicyAssumption ==
    Policies \subseteq [days : Nat, daily : Nat, weekly : Nat, monthly : Nat]

VARIABLES
    now,
    created,        \* created[b] : when the b-th backup was taken
    remaining,      \* the backups that have not been deleted
    policy          \* the schedule's policy

policyVars == <<now, created, remaining, policy>>

Taken == 1..Len(created)

\* Mutated form: days are counted back from now.
DaysAgo == [b \in Taken |-> (now - created[b]) \div TicksPerDay]

\* bucket_of: the day, week or month of each backup.
Day   == [b \in Taken |-> created[b] \div TicksPerDay]
Week  == [b \in Taken |-> Day[b] \div DaysPerWeek]
Month == [b \in Taken |-> Day[b] \div DaysPerMonth]

----------------------------------------------------------------------------
(* select_backups_to_delete *)

NewestOf(S) == CHOOSE b \in S : \A c \in S : c <= b

\* Mutated form: the limit counts one bucket too many.
VisitOneMore(acc, b, S, limit, bucket) ==
    IF b \notin S \/ bucket[b] \in acc.seen \/ Cardinality(acc.seen) > limit THEN acc
    ELSE [seen |-> acc.seen \cup {bucket[b]}, keep |-> acc.keep \cup {b}]

Visit(acc, b, S, limit, bucket) ==
    IF b \notin S \/ bucket[b] \in acc.seen \/ Cardinality(acc.seen) >= limit THEN acc
    ELSE [seen |-> acc.seen \cup {bucket[b]}, keep |-> acc.keep \cup {b}]

\* ORDER BY created_at DESC, id DESC
NewestFirst(i) == Len(created) + 1 - i

\* keep_newest_per_bucket: the first backup of each of the first limit buckets
\* met.  A limit of 0 keeps nothing: the rule is off.
KeepNewestPerBucket(S, limit, bucket) ==
    LET after[i \in 0 .. Len(created)] ==
            IF i = 0 THEN [seen |-> {}, keep |-> {}]
            ELSE Visit(after[i - 1], NewestFirst(i), S, limit, bucket)
    IN after[Len(created)].keep

Young(b) == policy.days # 0 /\ created[b] >= now - policy.days * TicksPerDay

NoPolicy == policy.days = 0 /\ policy.daily = 0 /\ policy.weekly = 0 /\ policy.monthly = 0

\* Mutated form: nothing is set aside as the newest.
KeepByRulesOnly(S) ==
    KeepNewestPerBucket(S, policy.daily, Day)
    \cup KeepNewestPerBucket(S, policy.weekly, Week)
    \cup KeepNewestPerBucket(S, policy.monthly, Month)
    \cup {b \in S : Young(b)}

Keep(S) ==
    {NewestOf(S)}
    \cup KeepNewestPerBucket(S, policy.daily, Day)
    \cup KeepNewestPerBucket(S, policy.weekly, Week)
    \cup KeepNewestPerBucket(S, policy.monthly, Month)
    \cup {b \in S : Young(b)}

ToDelete(S) == IF S = {} \/ NoPolicy THEN {} ELSE S \ Keep(S)

----------------------------------------------------------------------------

Pass ==
    /\ now < Horizon
    /\ now' = now + 1
    /\ UNCHANGED <<created, remaining, policy>>

\* A scheduled backup succeeds.
Take ==
    /\ Len(created) < MaxTaken
    /\ created' = Append(created, now)
    /\ remaining' = remaining \cup {Len(created) + 1}
    /\ UNCHANGED <<now, policy>>

\* apply_retention: after a scheduled run, or from the clean-up script.
ApplyRetention ==
    /\ remaining' = remaining \ ToDelete(remaining)
    /\ UNCHANGED <<now, created, policy>>

PolicyInit ==
    /\ now = 0 /\ created = <<>> /\ remaining = {}
    /\ policy \in Policies

PolicyNext == Pass \/ Take \/ ApplyRetention

PolicySpec == PolicyInit /\ [][PolicyNext]_policyVars

----------------------------------------------------------------------------
(* Properties *)

PolicyTypeOK ==
    /\ now \in 0..Horizon
    /\ created \in Seq(0..Horizon) /\ Len(created) <= MaxTaken
    /\ remaining \subseteq Taken
    /\ policy \in Policies

\* A rule with a limit keeps b when b is the newest of its bucket and fewer than
\* limit buckets hold newer backups.
RuleKeeps(b, S, limit, bucket) ==
    /\ \A c \in S : bucket[c] = bucket[b] => c <= b
    /\ Cardinality({bucket[c] : c \in {c \in S : c > b}}) < limit

\* "A backup survives if ANY rule keeps it" (lines 97-98), and the newest always.
Survives(b, S) ==
    \/ NoPolicy
    \/ \A c \in S : c <= b
    \/ RuleKeeps(b, S, policy.daily, Day)
    \/ RuleKeeps(b, S, policy.weekly, Week)
    \/ RuleKeeps(b, S, policy.monthly, Month)
    \/ Young(b)

\* The selection deletes exactly what no rule keeps.
DeletesWhatNoRuleKeeps == ToDelete(remaining) = {b \in remaining : ~Survives(b, remaining)}

\* However often and whenever retention has been applied, what it leaves now is
\* what one application to the whole history would leave: an earlier
\* application never removed the daily, weekly or monthly backup that a later
\* one has to keep.
EarlierRunsLoseNothing == remaining \ ToDelete(remaining) = Taken \ ToDelete(Taken)

\* The newest backup ever taken has not been deleted.
NewestIsStored == created # <<>> => Len(created) \in remaining

=============================================================================
