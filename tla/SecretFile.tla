----------------------------- MODULE SecretFile -----------------------------
(***************************************************************************)
(* The secrets that DBSafe makes for itself: _load_secret and build_config *)
(* of config/config.py, used by every process (the server and the scripts  *)
(* all build a configuration), and what is encrypted under them: backups,  *)
(* and the passwords of connections.                                       *)
(***************************************************************************)
EXTENDS Naturals

CONSTANTS
    Processes,
    MaxSecrets,     \* bound on the secrets ever made
    StartTogether        \* may processes start at the same time?

ASSUME SecretFileAssumption == MaxSecrets \in Nat /\ StartTogether \in BOOLEAN

VARIABLES
    file,       \* what the file holds: a secret, Empty or Missing
    stage,      \* stage[p] : where p is
    secret,     \* secret[p] : the secret p has in hand
    made,       \* secrets made so far
    items       \* the secrets under which something is stored

secretVars == <<file, stage, secret, made, items>>

Missing == 0
Empty == MaxSecrets + 1
Goes(p, from, to) == stage[p] = from /\ stage' = [stage EXCEPT ![p] = to]

\* The environment gives no key.
LoadSecret(p) ==
    /\ Goes(p, "off", "read")
    /\ StartTogether \/ \A q \in Processes : stage[q] \in {"off", "on"}
    /\ UNCHANGED <<file, secret, made, items>>

\* Mutated form: a new secret at every start.
NeverFound(value) == FALSE

Found(value) == value \notin {Missing, Empty}

Read(p) ==
    /\ stage[p] = "read"
    /\ \/ Found(file) /\ Goes(p, "read", "on") /\ secret' = [secret EXCEPT ![p] = file] /\ UNCHANGED made
       \/ /\ ~Found(file) /\ made < MaxSecrets /\ Goes(p, "read", "open")
          /\ secret' = [secret EXCEPT ![p] = made + 1] /\ made' = made + 1
    /\ UNCHANGED <<file, items>>

\* write_text: the file is opened, which empties it, and written.
Open(p) == Goes(p, "open", "write") /\ file' = Empty /\ UNCHANGED <<secret, made, items>>

WriteText(p) == Goes(p, "write", "on") /\ file' = secret[p] /\ UNCHANGED <<secret, made, items>>

\* encrypt_file or encrypt_secret
Encrypt(p) ==
    /\ stage[p] = "on" /\ items' = items \cup {secret[p]}
    /\ UNCHANGED <<file, stage, secret, made>>

\* The process ends or is killed, at whatever point.
Stop(p) ==
    /\ stage[p] # "off" /\ stage' = [stage EXCEPT ![p] = "off"]
    /\ secret' = [secret EXCEPT ![p] = Missing]
    /\ UNCHANGED <<file, made, items>>

SecretInit ==
    /\ file = Missing /\ made = 0 /\ items = {}
    /\ stage = [p \in Processes |-> "off"] /\ secret = [p \in Processes |-> Missing]

SecretNext == \E p \in Processes : LoadSecret(p) \/ Read(p) \/ Open(p) \/ WriteText(p) \/ Encrypt(p) \/ Stop(p)

SecretSpec == SecretInit /\ [][SecretNext]_secretVars

----------------------------------------------------------------------------
(* Properties *)

\* decrypt_file and decrypt_secret succeed with the key of the encryption.
Decrypts(key, item) == key = item

\* "Return the secret stored in path, creating it on first use": what has been
\* encrypted can be decrypted by every process that reads the file from now on.
Readable == (\A p \in Processes : stage[p] \in {"off", "on"}) => \A item \in items : Decrypts(file, item)

\* A file left empty by a crash is never taken for a key.
NoEmptyKey == Empty \notin items
=============================================================================
