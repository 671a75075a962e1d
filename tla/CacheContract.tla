----------------------------- MODULE CacheContract -----------------------------
(***************************************************************************)
(* What caching the pack sets promises the rest of the program, without    *)
(* connectors, channels or workers: a set of valid files that grows one    *)
(* file at a time, of which those promised are never taken back as long as *)
(* caching neither fails nor stops.                                        *)
(***************************************************************************)
CONSTANT Key

VARIABLES
    have,       \* the keys whose file is valid
    promised,   \* those the program may count on
    mode        \* whether the program is caching, about to fail, or stopped

contractVars == <<have, promised, mode>>

ContractInit ==
    /\ have \subseteq Key
    /\ promised = {}
    /\ mode = "caching"

(* A file becomes valid. *)
Gain(k) ==
    /\ mode # "stopped"
    /\ have' = have \cup {k}
    /\ UNCHANGED <<promised, mode>>

(* A valid file is lost, which may only happen to one not promised. *)
Lose(k) ==
    /\ mode # "stopped"
    /\ k \notin promised
    /\ have' = have \ {k}
    /\ UNCHANGED <<promised, mode>>

(* Valid files are promised; that may be the last thing caching does. *)
Promise(keys) ==
    /\ mode = "caching"
    /\ keys \subseteq have
    /\ promised' = promised \cup keys
    /\ mode' \in {"caching", "stopped"}
    /\ UNCHANGED have

(* A file that cannot be had: all promises are off, for good. *)
Fail ==
    /\ mode = "caching"
    /\ promised' = {}
    /\ mode' = "failing"
    /\ UNCHANGED have

(* Done, panicked or killed: the files stay. *)
Stop ==
    /\ mode # "stopped"
    /\ mode' = "stopped"
    /\ UNCHANGED <<have, promised>>

(* The next run starts from the files, or deletes them all. *)
Again ==
    /\ mode = "stopped"
    /\ have' \in {have, {}}
    /\ promised' = {}
    /\ mode' = "caching"

ContractNext ==
    \/ \E k \in Key : Gain(k) \/ Lose(k)
    \/ \E keys \in SUBSET Key : Promise(keys)
    \/ Fail
    \/ Stop
    \/ Again

ContractSpec == ContractInit /\ [][ContractNext]_contractVars
================================================================================
