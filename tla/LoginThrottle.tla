---------------------------- MODULE LoginThrottle ----------------------------
(***************************************************************************)
(* The throttle of failed logins: authenticate of                          *)
(* app/services/auth_service.py, called by the threads of the web server.  *)
(* The password is checked between two uses of the lock.  Times are ages:  *)
(* an entry as old as the window no longer counts.                         *)
(***************************************************************************)
EXTENDS Naturals, Sequences, FiniteSets

CONSTANTS
    Threads,        \* requests that run at once
    Keys,           \* user name and address
    MaxAttempts,    \* LOGIN_MAX_ATTEMPTS
    Window          \* LOGIN_WINDOW_SECONDS, in ticks

ASSUME LoginThrottleAssumption == MaxAttempts \in Nat \ {0} /\ Window \in Nat \ {0} /\ IsFiniteSet(Threads)

VARIABLES
    failures,   \* failures[k] : the ages of the failures remembered for k
    login,      \* login[t] : the login that t works on, or NoLogin
    guesses     \* guesses[k] : the ages of the wrong passwords tried since the
                \* last login

throttleVars == <<failures, login, guesses>>

NoLogin == [stage |-> "idle"]
Older(ages) == [i \in DOMAIN ages |-> IF ages[i] < Window THEN ages[i] + 1 ELSE Window]

\* The entries that are younger than the limit, in their order.
Keep(kept, age, limit) == IF age < limit THEN Append(kept, age) ELSE kept
Within(ages, limit) ==
    LET kept[i \in 0 .. Len(ages)] == IF i = 0 THEN <<>> ELSE Keep(kept[i - 1], ages[i], limit)
    IN kept[Len(ages)]

\* Mutated form: entries are dropped a tick too early.
RecentAndShort(ages) == Within(ages, Window - 1)

Recent(ages) == Within(ages, Window)

\* Mutated form: a refused login counts as another failure.
Extended(ages) == Append(Recent(ages), 0)

AfterRefusal(ages) == Recent(ages)

\* The first use of the lock.
Check(t, k) ==
    /\ login[t] = NoLogin
    /\ \/ /\ Len(Recent(failures[k])) >= MaxAttempts
          /\ failures' = [failures EXCEPT ![k] = AfterRefusal(@)]
          /\ UNCHANGED login
       \/ /\ Len(Recent(failures[k])) < MaxAttempts
          /\ failures' = [failures EXCEPT ![k] = Recent(@)]
          /\ login' = [login EXCEPT ![t] = [stage |-> "verify", key |-> k, right |-> FALSE]]
    /\ UNCHANGED guesses

\* get_by_username and check_password_hash
Verify(t) ==
    /\ login[t].stage = "verify"
    /\ \E right \in BOOLEAN :
          /\ login' = [login EXCEPT ![t] = [@ EXCEPT !.stage = "record", !.right = right]]
          /\ guesses' = [guesses EXCEPT ![login[t].key] = IF right THEN @ ELSE Append(@, 0)]
    /\ UNCHANGED failures

\* The second use of the lock.
Record(t) ==
    /\ login[t].stage = "record"
    /\ failures' = [failures EXCEPT ![login[t].key] = IF login[t].right THEN <<>> ELSE Append(@, 0)]
    /\ guesses' = [guesses EXCEPT ![login[t].key] = IF login[t].right THEN <<>> ELSE @]
    /\ login' = [login EXCEPT ![t] = NoLogin]

Tick ==
    /\ failures' = [k \in Keys |-> Older(failures[k])]
    /\ guesses' = [k \in Keys |-> Within(Older(guesses[k]), Window)]
    /\ UNCHANGED login

ThrottleInit ==
    /\ failures = [k \in Keys |-> <<>>] /\ guesses = [k \in Keys |-> <<>>]
    /\ login = [t \in Threads |-> NoLogin]

ThrottleNext == Tick \/ \E t \in Threads : Verify(t) \/ Record(t) \/ \E k \in Keys : Check(t, k)

ThrottleSpec == ThrottleInit /\ [][ThrottleNext]_throttleVars

\* Time goes on.
FairThrottleSpec == ThrottleSpec /\ WF_throttleVars(Tick)

----------------------------------------------------------------------------
(* Properties *)

\* In no window of time are more wrong passwords tried for a key than the limit,
\* but for those of the threads that were past the check together.
FewGuesses == \A k \in Keys : Len(guesses[k]) < MaxAttempts + Cardinality(Threads)

Blocked(k) == Len(Recent(failures[k])) >= MaxAttempts

\* A block ends by itself, also for those who go on trying.
BlockEnds == \A k \in Keys : Blocked(k) ~> ~Blocked(k)
=============================================================================
