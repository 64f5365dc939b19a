------------------------- MODULE MigrationLedger -------------------------
(***************************************************************************)
(* What apply-once deployment promises about one environment: a migration  *)
(* is new, then (perhaps) attempted, then settled, and never goes back.    *)
(* Its file is handed to Snowflake at most once, only while the migration  *)
(* is attempted.  ApplyOnceMigrations implements this module.              *)
(***************************************************************************)
EXTENDS Naturals

CONSTANT Path

VARIABLES
  standing,   \* "new", "attempted" or "settled", per migration path
  sent        \* how often the file of the path was handed to Snowflake

ledgerVars == <<standing, sent>>

LedgerTypeOK ==
  /\ standing \in [Path -> {"new", "attempted", "settled"}]
  /\ sent \in [Path -> 0..1]

LedgerInit ==
  /\ standing = [p \in Path |-> "new"]
  /\ sent = [p \in Path |-> 0]

\* A deployment announces that it is about to run the file.
Attempt(p) ==
  /\ standing[p] = "new"
  /\ standing' = [standing EXCEPT ![p] = "attempted"]
  /\ UNCHANGED sent

\* The announced file is handed over, once.  An engineer may already have
\* settled the announced attempt.
Send(p) ==
  /\ standing[p] # "new"
  /\ sent[p] = 0
  /\ sent' = [sent EXCEPT ![p] = 1]
  /\ UNCHANGED standing

\* Success, or an engineer's review of an attempt.
Settle(p) ==
  /\ standing[p] = "attempted"
  /\ standing' = [standing EXCEPT ![p] = "settled"]
  /\ UNCHANGED sent

\* First adoption of a populated environment settles whole manifests at once.
Adopt(adopted) ==
  /\ \A p \in Path : standing[p] = "new"
  /\ standing' = [p \in Path |-> IF p \in adopted THEN "settled" ELSE "new"]
  /\ UNCHANGED sent

LedgerNext ==
  \/ \E p \in Path : Attempt(p) \/ Send(p) \/ Settle(p)
  \/ \E adopted \in SUBSET Path : Adopt(adopted)

LedgerSpec == LedgerInit /\ [][LedgerNext]_ledgerVars
=============================================================================
