------------------------- MODULE ReleasePointers -------------------------
(***************************************************************************)
(* What the two pointers of one row of CONTROL.DATASET promise: a version  *)
(* serves readers only after it was the candidate, a candidate is never    *)
(* replaced by another one, and a version that has served once comes back  *)
(* only as a rollback, while no newer candidate waits.                     *)
(***************************************************************************)
CONSTANTS Version, NoVersion, FirstVersion

VARIABLES
  serving,   \* the version ACTIVE_VERSION points to
  waiting,   \* the version CANDIDATE_VERSION points to, or NoVersion
  served     \* the versions that serve or have served

pointerVars == <<serving, waiting, served>>

PointerInit ==
  /\ serving = FirstVersion
  /\ waiting = NoVersion
  /\ served = {FirstVersion}

\* A version that never served becomes the candidate.
Nominate(v) ==
  /\ waiting = NoVersion
  /\ v \notin served
  /\ waiting' = v
  /\ UNCHANGED <<serving, served>>

\* The candidate takes over; both pointers move in one statement.
Promote ==
  /\ waiting # NoVersion
  /\ serving' = waiting
  /\ served' = served \cup {waiting}
  /\ waiting' = NoVersion

\* A version that served before comes back.
Return(v) ==
  /\ waiting = NoVersion
  /\ v \in served \ {serving}
  /\ serving' = v
  /\ UNCHANGED <<waiting, served>>

\* The dataset is decommissioned.
Withdraw ==
  /\ waiting' = NoVersion
  /\ UNCHANGED <<serving, served>>

PointerNext ==
  \/ \E v \in Version : Nominate(v) \/ Return(v)
  \/ Promote
  \/ Withdraw

PointerSpec == PointerInit /\ [][PointerNext]_pointerVars
=============================================================================
