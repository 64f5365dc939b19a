------------------------- MODULE SilverPipelines -------------------------
(***************************************************************************)
(* The Silver objects of one version and the two procedures that write     *)
(* them: apply (pipeline_apply.py), which consumes the version's stream on *)
(* the Bronze table, and replay (pipeline_replay.py), which reads the      *)
(* Bronze table itself.  For the patterns append, scd1 and scd2.           *)
(*                                                                         *)
(* An event is what the source has said once: business key, idempotency    *)
(* key, time, place in the order, tracked columns.  Bronze may receive it  *)
(* late, and more than once; it is never removed from Bronze.              *)
(*                                                                         *)
(* Both procedures write in a transaction, and the two transactions may be *)
(* open at once: a replay by hand does not wait for a run of the task.     *)
(* Snowflake isolates them by READ COMMITTED.  An INSERT locks nothing and *)
(* sees what is committed and what its own transaction has written.  A     *)
(* DELETE or MERGE locks its table until the transaction ends, also when   *)
(* it finds no row there.  One reader at a time consumes a stream.  A      *)
(* version is replayed by one session.                                     *)
(***************************************************************************)
EXTENDS Integers, FiniteSets

CONSTANTS
  Event, Key, Id,
  KeyOf,       \* business key of an event
  IdOf,        \* idempotency key
  TimeOf,      \* source_timestamp
  OrderOf,     \* place by source_timestamp and ordering columns
  StateOf,     \* tracked columns
  Tombstone,   \* events whose operation column says delete
  Pattern,     \* the patterns in play
  Window,      \* the windows of replays, by pattern
  Retained,    \* events that Bronze holds when the version is deployed
  Copies       \* bound: rows of an event in Bronze

\* P_FROM and P_TO; a full replay has neither.  A bounded one may lack one of
\* them: a bound beyond all events.
Full == [from |-> 0, to |-> 0, bounded |-> FALSE]
Bounded(from, to) == [from |-> from, to |-> to, bounded |-> TRUE]

ASSUME EventAssumption ==
  /\ IsFiniteSet(Event)
  /\ KeyOf \in [Event -> Key]
  /\ IdOf \in [Event -> Id]
  /\ TimeOf \in [Event -> Nat]
  /\ OrderOf \in [Event -> Nat]
  /\ \A e, f \in Event : OrderOf[e] < OrderOf[f] => TimeOf[e] <= TimeOf[f]
  /\ \A e, f \in Event : e # f => OrderOf[e] # OrderOf[f]
  /\ Tombstone \subseteq Event /\ Retained \subseteq Event
ASSUME PatternAssumption ==
  /\ Pattern \subseteq {"append", "scd1", "scd2"}
  /\ \A p \in Pattern : \A w \in Window[p] :
       w = Full \/ (w.bounded = TRUE /\ w.from \in Nat /\ w.to \in Nat)
ASSUME BoundAssumption == Copies \in [Event -> Nat \ {0}]

VARIABLES
  pattern,   \* of this version
  bronze,    \* rows of each event in Bronze
  pending,   \* rows of each event that the stream has not delivered yet
  rows,      \* append: rows in Silver; scd2: rows in the event ledger
  current,   \* scd1: the events that the rows of Silver show
  history,   \* scd2: periods, each showing an event
  batch,     \* apply in progress: what it read and has inserted, not committed
  staged,    \* replay in progress: what it staged, has deleted and inserted
  seen,      \* history variable: the events that an apply or a replay committed
  behind,    \* history variable: identities applied behind a staged full replay
  missing,   \* history variable: of those, what a full replay cleared
  doubled,   \* history variable: identities that an apply and a replay inserted
             \* while neither had committed
  rewound    \* history variable: scd1 keys that a bounded replay has set back

silver == <<rows, current, history>>
committed == <<seen, behind, missing, doubled, rewound>>
vars == <<pattern, bronze, pending, silver, batch, staged, committed>>

-----------------------------------------------------------------------------
\* Bags of rows, keys, order

Nothing == [e \in Event |-> 0]
In(bag) == {e \in Event : bag[e] > 0}
Ids(bag) == {IdOf[e] : e \in In(bag)}
Plus(bag, more) == [e \in Event |-> bag[e] + more[e]]
Minus(bag, less) == [e \in Event |-> bag[e] - less[e]]
Keys(events) == {KeyOf[e] : e \in events}
OfKey(events, key) == {e \in events : KeyOf[e] = key}
Latest(events) == CHOOSE e \in events : \A f \in events : OrderOf[f] <= OrderOf[e]
Alive(event) == event \notin Tombstone

\* E_IDEMPOTENCY_CONFLICT
Conflict(bag) == \E e, f \in In(bag) : e # f /\ IdOf[e] = IdOf[f]

\* Faulty: exact duplicates of one batch are not collapsed.
FreshCopies(table, bag) ==
  [e \in Event |-> IF bag[e] = 0 \/ IdOf[e] \in Ids(table) THEN 0 ELSE bag[e]]

\* INSERT ... SELECT of the deduplicated batch WHERE NOT EXISTS its identity.
Fresh(table, bag) ==
  [e \in Event |-> IF bag[e] = 0 \/ IdOf[e] \in Ids(table) THEN 0 ELSE 1]

\* Faulty: ROW_NUMBER over the ascending order.
FirstOfKeys(events) ==
  {CHOOSE e \in OfKey(events, key) : \A f \in OfKey(events, key) : OrderOf[e] <= OrderOf[f] :
     key \in Keys(events)}

\* The latest event of each key in a batch.
LatestOfKeys(events) == {Latest(OfKey(events, key)) : key \in Keys(events)}

-----------------------------------------------------------------------------
\* scd2: history of the affected keys, from the ledger

Before(events, e) == {f \in events : OrderOf[f] < OrderOf[e]}

\* Faulty: an event after a delete that restores the same state opens nothing.
IsBoundaryByState(events, e) ==
  \/ ~Alive(e)
  \/ Before(events, e) = {}
  \/ StateOf[Latest(Before(events, e))] # StateOf[e]

IsBoundary(events, e) ==
  \/ ~Alive(e)
  \/ Before(events, e) = {}
  \/ ~Alive(Latest(Before(events, e)))
  \/ StateOf[Latest(Before(events, e))] # StateOf[e]

\* Faulty: LEAD over the descending order.
AfterDescending(events, e) == {f \in events : OrderOf[f] < OrderOf[e]}

After(events, e) == {f \in events : OrderOf[f] > OrderOf[e]}
Earliest(events) == CHOOSE e \in events : \A f \in events : OrderOf[e] <= OrderOf[f]

\* VALID_TO is NULL for the last boundary.  An event that is twice in the ledger counts
\* once: its second row repeats the state of the first, or its delete.
Open == -1
PeriodsOf(events) ==
  LET boundary == {e \in events : IsBoundary(events, e)}
      end(e) == IF After(boundary, e) = {} THEN Open
                  ELSE TimeOf[Earliest(After(boundary, e))]
  IN {[event |-> e, from |-> TimeOf[e], to |-> end(e)] : e \in boundary \ Tombstone}
Rebuild(periods, ledger, keys) ==
  {p \in periods : KeyOf[p.event] \notin keys}
    \cup UNION {PeriodsOf(OfKey(In(ledger), key)) : key \in keys}

-----------------------------------------------------------------------------
\* Delivery to Bronze

Deliver(e) ==
  /\ bronze[e] < Copies[e]
  /\ bronze' = [bronze EXCEPT ![e] = @ + 1]
  /\ pending' = [pending EXCEPT ![e] = @ + 1]
  /\ UNCHANGED <<pattern, silver, batch, staged, committed>>

-----------------------------------------------------------------------------
\* The two transactions

NoApply == [step |-> "none", input |-> Nothing, added |-> Nothing]
NoReplay ==
  [step |-> "none", window |-> Full, input |-> Nothing, cleared |-> Nothing, added |-> Nothing]

FullReplay == staged.step # "none" /\ ~staged.window.bounded
Cleared == FullReplay /\ staged.step \in {"cleared", "inserted"}

\* The committed rows without those that the replay has deleted.
Kept == Minus(rows, staged.cleared)

\* Both open transactions have inserted these.
InsertedByBoth == Ids(batch.added) \cap Ids(staged.added)

-----------------------------------------------------------------------------
\* Apply

\* The transaction reads the stream.  A batch with a conflict is rolled back, and
\* the stream with it: nothing happens here.
BeginApply ==
  /\ batch.step = "none"
  /\ In(pending) # {}
  /\ pattern \in {"append", "scd2"} => ~Conflict(pending)
  /\ batch' = [NoApply EXCEPT !.step = "read", !.input = pending]
  /\ UNCHANGED <<pattern, bronze, pending, silver, staged, committed>>

InsertBatch ==
  /\ batch.step = "read"
  /\ pattern \in {"append", "scd2"}
  /\ batch' = [batch EXCEPT !.step = "inserted", !.added = Fresh(rows, batch.input)]
  /\ UNCHANGED <<pattern, bronze, pending, silver, staged, committed>>

\* An error, a timeout or the end of the session: the stream stays where it was.
AbandonApply ==
  /\ batch.step # "none"
  /\ batch' = NoApply
  /\ UNCHANGED <<pattern, bronze, pending, silver, staged, committed>>

\* The commit moves the stream on.
Consume ==
  /\ pending' = Minus(pending, batch.input)
  /\ batch' = NoApply
  /\ seen' = seen \cup In(batch.input)
  /\ missing' = missing \ Ids(rows')
  /\ behind' = IF FullReplay THEN behind \cup Ids(batch.input) ELSE behind
  /\ doubled' = doubled \cup InsertedByBoth
  /\ UNCHANGED <<pattern, bronze, staged, rewound>>

CommitAppend ==
  /\ pattern = "append"
  /\ batch.step = "inserted"
  /\ rows' = Plus(rows, batch.added)
  /\ Consume
  /\ UNCHANGED <<current, history>>

\* Faulty: WHEN MATCHED without the ordering guard.
MergeAnyOrder(news) ==
  {t \in current : KeyOf[t] \notin Keys(news)} \cup {n \in news : Alive(n)}

\* The MERGE of scd1: only a strictly newer event changes or deletes a row.
Merge(news) ==
  LET beaten(t) == \E n \in news : KeyOf[n] = KeyOf[t] /\ OrderOf[n] > OrderOf[t]
      wins(n) == \A t \in current : KeyOf[t] = KeyOf[n] => OrderOf[n] > OrderOf[t]
  IN {t \in current : ~beaten(t)} \cup {n \in news : Alive(n) /\ wins(n)}

\* The MERGE, and the commit.
ApplyCurrent ==
  /\ pattern = "scd1"
  /\ batch.step = "read"
  /\ current' = Merge(LatestOfKeys(In(batch.input)))
  /\ UNCHANGED <<rows, history>>
  /\ Consume

\* The DELETE waits for the history's lock, which a full replay takes first of all;
\* once it has it, nobody else writes the history before the commit.
CommitHistory ==
  /\ pattern = "scd2"
  /\ batch.step = "inserted"
  /\ ~Cleared
  /\ rows' = Plus(rows, batch.added)
  /\ history' = Rebuild(history, rows', Keys(In(batch.input)))
  /\ Consume
  /\ UNCHANGED current

-----------------------------------------------------------------------------
\* Replay.  For append and scd2 the Bronze rows are staged first, outside the
\* transaction.

InWindow(e, window) ==
  window.bounded => window.from <= TimeOf[e] /\ TimeOf[e] < window.to
BronzeIn(window) == [e \in Event |-> IF InWindow(e, window) THEN bronze[e] ELSE 0]

StageReplay(window) ==
  /\ pattern \in {"append", "scd2"}
  /\ staged.step = "none"
  /\ staged' = [NoReplay EXCEPT !.step = "staged", !.window = window, !.input = BronzeIn(window)]
  /\ UNCHANGED <<pattern, bronze, pending, silver, batch, committed>>

\* Faulty: a bounded replay clears the tables as well.
MayClearAlways == staged.step = "staged"

\* Only a full replay clears the tables, and only if its input has no conflict.
MayClear == staged.step = "staged" /\ ~staged.window.bounded

ClearTables ==
  /\ MayClear
  /\ ~Conflict(staged.input)
  /\ staged' = [staged EXCEPT !.step = "cleared", !.cleared = rows]
  /\ UNCHANGED <<pattern, bronze, pending, silver, batch, committed>>

InsertReplay ==
  /\ staged.step = "cleared" \/ (staged.step = "staged" /\ ~MayClear)
  /\ ~Conflict(staged.input)
  /\ staged' = [staged EXCEPT !.step = "inserted", !.added = Fresh(Kept, staged.input)]
  /\ UNCHANGED <<pattern, bronze, pending, silver, batch, committed>>

FinishReplay ==
  /\ staged.step = "inserted"
  /\ rows' = Plus(Kept, staged.added)
  /\ history' = IF pattern = "scd2"
                  THEN Rebuild(IF FullReplay THEN {} ELSE history, rows', Keys(In(staged.input)))
                  ELSE history
  /\ seen' = seen \cup In(staged.input)
  /\ missing' = (IF FullReplay THEN behind ELSE missing) \ Ids(rows')
  /\ doubled' = (IF FullReplay THEN doubled \cap Ids(Kept) ELSE doubled) \cup InsertedByBoth
  /\ behind' = {}
  /\ staged' = NoReplay
  /\ UNCHANGED <<pattern, bronze, pending, current, batch, rewound>>

\* A conflict, an error or the end of the session: nothing is changed.
AbandonReplay ==
  /\ staged.step # "none"
  /\ staged' = NoReplay
  /\ behind' = {}
  /\ UNCHANGED <<pattern, bronze, pending, silver, batch, seen, missing, doubled, rewound>>

\* The keys whose row a bounded replay of scd1 sets back: the window has an event
\* of the key, and ends before one that is committed already.
Rewinds(window) ==
  {key \in Keys(In(BronzeIn(window))) :
     \E e \in OfKey(seen, key) : window.bounded /\ window.to <= TimeOf[e]}

\* scd1 reads Bronze in the MERGE, which does not ask for order.  Its table is locked
\* from the first statement that writes it, so the transaction is one step.
ReplayCurrent(window) ==
  /\ pattern = "scd1"
  /\ LET input == In(BronzeIn(window))
         kept == IF window.bounded THEN current ELSE {}
         latest == LatestOfKeys(input)
     IN /\ current' = {t \in kept : KeyOf[t] \notin Keys(latest)} \cup {n \in latest : Alive(n)}
        /\ seen' = seen \cup input
  /\ rewound' = IF window.bounded THEN rewound \cup Rewinds(window) ELSE {}
  /\ UNCHANGED <<pattern, bronze, pending, rows, history, batch, staged, behind, missing, doubled>>

-----------------------------------------------------------------------------
\* The specification

\* The stream of a new version starts where Bronze is.
Init ==
  /\ pattern \in Pattern
  /\ bronze = [e \in Event |-> IF e \in Retained THEN 1 ELSE 0]
  /\ pending = Nothing
  /\ rows = Nothing
  /\ current = {}
  /\ history = {}
  /\ batch = NoApply
  /\ staged = NoReplay
  /\ seen = {} /\ behind = {} /\ missing = {} /\ doubled = {} /\ rewound = {}

Next ==
  \/ \E e \in Event : Deliver(e)
  \/ BeginApply
  \/ InsertBatch
  \/ CommitAppend
  \/ ApplyCurrent
  \/ CommitHistory
  \/ AbandonApply
  \/ \E window \in Window[pattern] : StageReplay(window)
  \/ ClearTables
  \/ InsertReplay
  \/ FinishReplay
  \/ AbandonReplay
  \/ \E window \in Window[pattern] : ReplayCurrent(window)

Spec == Init /\ [][Next]_vars

-----------------------------------------------------------------------------
\* Properties

\* Types; and a period of a history is not older at its end than at its start.
TypeOK ==
  /\ pattern \in Pattern
  /\ bronze \in [Event -> Nat] /\ pending \in [Event -> Nat] /\ rows \in [Event -> Nat]
  /\ current \subseteq Event /\ rewound \subseteq Key /\ seen \subseteq Event
  /\ behind \subseteq Id /\ missing \subseteq Id /\ doubled \subseteq Id
  /\ \A p \in history : p.event \in Event /\ (p.to = Open \/ p.from <= p.to)
  /\ batch \in [step : {"none", "read", "inserted"},
                 input : [Event -> Nat], added : [Event -> Nat]]
  /\ staged \in [step : {"none", "staged", "cleared", "inserted"},
                  window : {Full} \cup Window[pattern],
                  input : [Event -> Nat], cleared : [Event -> Nat], added : [Event -> Nat]]
  /\ \A e \in Event : /\ batch.input[e] <= pending[e] /\ pending[e] <= bronze[e]
                       /\ bronze[e] <= Copies[e] /\ staged.cleared[e] <= rows[e]

\* docs/architecture/INPUT_IDEMPOTENCY.md: however often and in whatever batches
\* an event is delivered, applied and replayed, one row has its identity.  The
\* exception: an apply and a replay have both inserted it before either committed,
\* so neither saw the row of the other.  A full replay makes good what it clears.
OneRowPerIdentity ==
  \A e, f \in In(rows) : IdOf[e] = IdOf[f] /\ IdOf[e] \notin doubled => e = f /\ rows[e] = 1

\* What was committed once is in Silver, or another event with its identity is:
\* bounded replays, full replays and applies, one after another or at once, take
\* nothing away, but for what an apply commits, or has found there, beside a full
\* replay that had not staged it; and the next full replay, or any replay or apply
\* that inserts it, brings that back.
NothingLost ==
  pattern \in {"append", "scd2"} => {IdOf[e] : e \in seen} \subseteq Ids(rows) \cup missing

\* The history says, of every key at every time, what the latest event up to
\* then says: at most one period is valid, and none after a delete.
ValidAt(time, key) ==
  {p \in history : KeyOf[p.event] = key /\ p.from <= time /\ (p.to = Open \/ time < p.to)}
KnownAt(time, key) == {e \in OfKey(In(rows), key) : TimeOf[e] <= time}
HistoryIsTrue ==
  pattern = "scd2" =>
    \A key \in Key, time \in {TimeOf[e] : e \in Event} :
      LET known == KnownAt(time, key)
          valid == ValidAt(time, key)
      IN IF known = {} \/ ~Alive(Latest(known))
           THEN valid = {}
           ELSE \E p \in valid : valid = {p} /\ StateOf[p.event] = StateOf[Latest(known)]

\* The row of a key is its latest event that was committed.
RowIsLatest(key) ==
  LET known == OfKey(seen, key)
  IN OfKey(current, key) = IF known = {} \/ ~Alive(Latest(known)) THEN {} ELSE {Latest(known)}
CurrentIsLatest == \A key \in Key : RowIsLatest(key)

\* The row of a key that was never deleted is its latest event, whatever the order
\* in which the events arrived, unless a bounded replay has set it back since the
\* last full one.
LateEventsHarmless ==
  pattern = "scd1" =>
    \A key \in Key \ rewound : OfKey(seen, key) \cap Tombstone = {} => RowIsLatest(key)

\* pipeline_apply.py: "A late or out-of-order event must not regress the stored
\* current state".  Refuted by a key that was deleted: the row is gone and with
\* it the order, so an older event inserts the key again.
LateEventsNeverRegress ==
  [][ApplyCurrent => (CurrentIsLatest => CurrentIsLatest')]_vars

\* A full replay of scd1 makes every row right, whatever the table was like.  A
\* bounded one keeps right what was, "assumes the candidate already has a correct
\* baseline outside the requested window", but for the keys it sets back: the MERGE
\* does not ask for order, and the latest event of the window replaces a newer one
\* (pipeline_replay.py, _render_scd1_replay).
ReplayKeepsBaseline ==
  [][\A window \in Window["scd1"] : ReplayCurrent(window) =>
       \A key \in Key :
         \/ RowIsLatest(key)'
         \/ window.bounded /\ (RowIsLatest(key) => key \in Rewinds(window))]_vars
=============================================================================
