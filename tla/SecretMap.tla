----------------------------- MODULE SecretMap -----------------------------
(***************************************************************************)
(* What the SecretStore trait promises whatever the backend: a map from a  *)
(* scope and a key to a value, of which one call changes one entry, and    *)
(* which a restart keeps or, in a volatile backend, replaces by what the   *)
(* process starts from.  SourceService is shown to implement this for the  *)
(* four backends.                                                          *)
(***************************************************************************)
CONSTANTS
  Scope, Key, Value,
  Missing    \* SecretError::SecretMissing

VARIABLES
  map,       \* what get returns for each scope and key
  start,     \* what the first process of a volatile backend reads
  volatile   \* the backend keeps its entries in the process

Init ==
  /\ map \in [Scope -> [Key -> Value \cup {Missing}]]
  /\ volatile \in BOOLEAN
  /\ volatile => map = start

\* set of the trait; delete is the entry going missing.
Set(sc, k, v) ==
  /\ map' = [map EXCEPT ![sc][k] = v]
  /\ UNCHANGED <<start, volatile>>

Delete(sc, k) == Set(sc, k, Missing)

Restart ==
  /\ map' = IF volatile THEN start ELSE map
  /\ UNCHANGED <<start, volatile>>

Next ==
  \/ \E sc \in Scope, k \in Key, v \in Value : Set(sc, k, v)
  \/ \E sc \in Scope, k \in Key : Delete(sc, k)
  \/ Restart

Spec == Init /\ [][Next]_<<map, start, volatile>>
=============================================================================
