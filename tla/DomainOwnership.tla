------------------------ MODULE DomainOwnership ------------------------
(***************************************************************************)
(* What "generated once, domain-owned" promises about each directory that  *)
(* the esf commands generate: one command at a time fills it, hands it to  *)
(* the domain when it ends, and no command ever touches it again.  Only    *)
(* the domain can give the name back, by deleting the directory.           *)
(* GeneratedOnce implements this module.                                   *)
(***************************************************************************)
CONSTANTS
  Directory,
  Command,
  Empty         \* a new directory

VARIABLES
  holder,       \* "nobody", the command that fills the directory, or "domain"
  text          \* its contents

ownershipVars == <<holder, text>>

OwnershipInit ==
  /\ holder = [u \in Directory |-> "nobody"]
  /\ text = [u \in Directory |-> Empty]

\* What is written is not restricted, only where.
WriteIn(u) == text' = [text EXCEPT ![u] = text'[u]]

Claim(c, u) ==
  /\ holder[u] = "nobody"
  /\ holder' = [holder EXCEPT ![u] = c]
  /\ WriteIn(u)

Fill(c, u) ==
  /\ holder[u] = c
  /\ holder' \in {holder, [holder EXCEPT ![u] = "domain"]}
  /\ WriteIn(u)

\* An engineer edits what the domain owns.
Edit(u) ==
  /\ holder[u] = "domain"
  /\ WriteIn(u)
  /\ UNCHANGED holder

Delete(u) ==
  /\ holder[u] = "domain"
  /\ holder' = [holder EXCEPT ![u] = "nobody"]
  /\ text' = [text EXCEPT ![u] = Empty]

OwnershipNext ==
  \E u \in Directory :
    \/ \E c \in Command : Claim(c, u) \/ Fill(c, u)
    \/ Edit(u) \/ Delete(u)

OwnershipSpec == OwnershipInit /\ [][OwnershipNext]_ownershipVars
=============================================================================
