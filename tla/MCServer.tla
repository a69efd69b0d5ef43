------------------------------ MODULE MCServer ------------------------------
(***************************************************************************)
(* Four small components that threads and processes of the server share:   *)
(* users, failed logins, secrets and the worker pool.  None of them reads  *)
(* what another writes, so each behaviour exercises one of them.           *)
(***************************************************************************)
EXTENDS UserAdmin, LoginThrottle, SecretFile, WorkerPool

CONSTANTS
    Parts,              \* the components exercised
    c1, c2, t1, t2, k1, k2, server, script, j1, j2, j3

VARIABLE part

serverVars == <<vars, throttleVars, secretVars, poolVars, part>>

ServerInit == part \in Parts /\ Init /\ ThrottleInit /\ SecretInit /\ PoolInit

Users(step) == part = "users" /\ step /\ UNCHANGED <<throttleVars, secretVars, poolVars, part>>
Logins(step) == part = "logins" /\ step /\ UNCHANGED <<vars, secretVars, poolVars, part>>
Secrets(step) == part = "secrets" /\ step /\ UNCHANGED <<vars, throttleVars, poolVars, part>>
Pool(step) == part = "pool" /\ step /\ UNCHANGED <<vars, throttleVars, secretVars, part>>

ServerNext == Users(Next) \/ Logins(ThrottleNext) \/ Secrets(SecretNext) \/ Pool(PoolNext)

\* The fairness of FairThrottleSpec.
ServerSpec == ServerInit /\ [][ServerNext]_serverVars /\ WF_serverVars(Logins(Tick))
=============================================================================
