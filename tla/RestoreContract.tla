--------------------------- MODULE RestoreContract ---------------------------
(***************************************************************************)
(* What restoring with a safety backup promises the owner of the target    *)
(* database: whatever happens, its content before a restore started to     *)
(* change it has been set aside, so there is a way back.                   *)
(***************************************************************************)
CONSTANTS
    Contents,       \* what a database can hold
    NoDatabase      \* the content of a database that does not exist

VARIABLES
    now,            \* the content of the target
    saved,          \* the contents set aside
    changing        \* is the target being changed?

ContractVars == <<now, saved, changing>>

ContractInit == now \in Contents /\ saved = {} /\ changing = FALSE

SetAside == /\ saved' = saved \cup {now}
            /\ UNCHANGED <<now, changing>>

\* An empty database may come to be where there was none.
Create == /\ ~changing /\ now = NoDatabase
          /\ now' \in Contents /\ UNCHANGED <<saved, changing>>

Open == /\ ~changing /\ now \in saved \cup {NoDatabase}
        /\ changing' = TRUE /\ now' \in Contents
        /\ UNCHANGED saved

Change == changing /\ now' \in Contents /\ UNCHANGED <<saved, changing>>

Close == /\ changing /\ changing' = FALSE
         /\ now' \in Contents /\ UNCHANGED saved

ContractNext == SetAside \/ Create \/ Open \/ Change \/ Close

ContractSpec == ContractInit /\ [][ContractNext]_ContractVars
=============================================================================
