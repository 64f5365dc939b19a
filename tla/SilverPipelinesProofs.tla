---------------------- MODULE SilverPipelinesProofs ----------------------
(***************************************************************************)
(* Type correctness of the Silver tables under applies and replays whose   *)
(* transactions overlap, which identities are in them twice, that nothing  *)
(* committed is lost, that the scd2 history is true, and which late events *)
(* and replays are harmless.                                               *)
(***************************************************************************)
EXTENDS SilverPipelines, FiniteSetTheorems, WellFoundedInduction, TLAPS

-----------------------------------------------------------------------------
\* The order of events has first and last elements

LEMMA FirstNumber ==
  ASSUME NEW T, T \subseteq Nat, T # {}
  PROVE  \E x \in T : \A y \in T : x <= y
<1> DEFINE Less == OpToRel(<, Nat)
<1>1. IsWellFoundedOn(Less, Nat)
  BY NatLessThanWellFounded
<1>2. PICK x \in T : \A y \in T : <<y, x>> \notin Less
  <2> HIDE DEF Less
  <2> QED BY <1>1, WFMin
<1>3. ASSUME NEW y \in T
      PROVE  x <= y
  <2>1. x \in Nat /\ y \in Nat
    BY T \subseteq Nat
  <2>2. ~(y < x)
    BY <1>2, <1>3, <2>1 DEF OpToRel
  <2> QED BY <2>1, <2>2
<1> QED BY <1>3

\* The first of a set of events is one of them.
LEMMA EarliestIsMember ==
  ASSUME NEW events \in SUBSET Event, events # {}
  PROVE  /\ Earliest(events) \in events
         /\ \A f \in events : OrderOf[Earliest(events)] <= OrderOf[f]
<1> DEFINE places == {OrderOf[e] : e \in events}
<1>1. places \subseteq Nat /\ places # {}
  BY EventAssumption
<1>2. PICK place \in places : \A p \in places : place <= p
  <2> HIDE DEF places
  <2> QED BY <1>1, FirstNumber
<1>3. PICK e \in events : place = OrderOf[e]
  OBVIOUS
<1>4. \A f \in events : OrderOf[e] <= OrderOf[f]
  BY <1>2, <1>3
<1> QED BY <1>4 DEF Earliest

\* The last one is the one with the fewest events after it.
LEMMA LatestIsMember ==
  ASSUME NEW events \in SUBSET Event, events # {}
  PROVE  /\ Latest(events) \in events
         /\ \A f \in events : OrderOf[f] <= OrderOf[Latest(events)]
<1> DEFINE later(e) == {f \in events : OrderOf[f] > OrderOf[e]}
           counts == {Cardinality(later(e)) : e \in events}
<1>1. \A e \in events : IsFiniteSet(later(e)) /\ Cardinality(later(e)) \in Nat
  <2>1. IsFiniteSet(events)
    BY EventAssumption, FS_Subset
  <2>2. ASSUME NEW e \in events
        PROVE  IsFiniteSet(later(e))
    BY <2>1, FS_Subset, later(e) \in SUBSET events
  <2> QED BY <2>2, FS_CardinalityType
<1>2. counts \subseteq Nat /\ counts # {}
  BY <1>1
<1>3. PICK count \in counts : \A c \in counts : count <= c
  <2> HIDE DEF counts
  <2> QED BY <1>2, FirstNumber
<1>4. PICK e \in events : count = Cardinality(later(e))
  OBVIOUS
<1>5. ASSUME NEW f \in events
      PROVE  OrderOf[f] <= OrderOf[e]
  <2>1. OrderOf[e] \in Nat /\ \A g \in events : OrderOf[g] \in Nat
    BY EventAssumption
  <2>2. SUFFICES ASSUME OrderOf[f] > OrderOf[e]
                 PROVE  FALSE
    BY <2>1
  <2>3. later(f) \subseteq later(e) /\ f \in later(e) /\ f \notin later(f)
    BY <2>1, <2>2
  <2>4. /\ IsFiniteSet(later(e)) /\ later(f) \in SUBSET later(e) /\ later(f) # later(e)
        /\ Cardinality(later(f)) \in Nat /\ Cardinality(later(e)) \in Nat
    BY <1>1, <2>3
  <2>5. Cardinality(later(f)) < Cardinality(later(e))
    <3> HIDE DEF later
    <3>1. /\ Cardinality(later(f)) <= Cardinality(later(e))
          /\ Cardinality(later(f)) # Cardinality(later(e))
      BY <2>4, FS_Subset
    <3> QED BY <2>4, <3>1
  <2>6. Cardinality(later(e)) <= Cardinality(later(f))
    BY <1>3, <1>4
  <2> HIDE DEF later
  <2> QED BY <2>4, <2>5, <2>6
<1> QED BY <1>5 DEF Latest

-----------------------------------------------------------------------------
\* What the INSERT and the scd2 query return

LEMMA NothingTyped == Nothing \in [Event -> Nat] /\ In(Nothing) = {} /\ Ids(Nothing) = {}
BY DEF Nothing, In, Ids

LEMMA BronzeTyped ==
  ASSUME NEW window, bronze \in [Event -> Nat]
  PROVE  /\ BronzeIn(window) \in [Event -> Nat]
         /\ \A e \in Event : BronzeIn(window)[e] <= bronze[e]
         /\ ~window.bounded => BronzeIn(window) = bronze
BY DEF BronzeIn, InWindow

LEMMA PlusRows ==
  ASSUME NEW bag \in [Event -> Nat], NEW more \in [Event -> Nat]
  PROVE  /\ Plus(bag, more) \in [Event -> Nat]
         /\ In(Plus(bag, more)) = In(bag) \cup In(more)
         /\ Ids(Plus(bag, more)) = Ids(bag) \cup Ids(more)
<1>1. Plus(bag, more) \in [Event -> Nat]
  BY DEF Plus
<1>2. ASSUME NEW e \in Event
      PROVE  Plus(bag, more)[e] > 0 <=> bag[e] > 0 \/ more[e] > 0
  BY DEF Plus
<1>3. In(Plus(bag, more)) = In(bag) \cup In(more)
  BY <1>2 DEF In
<1> QED BY <1>1, <1>3 DEF Ids

LEMMA MinusRows ==
  ASSUME NEW bag \in [Event -> Nat], NEW less \in [Event -> Nat],
         \A e \in Event : less[e] <= bag[e]
  PROVE  /\ Minus(bag, less) \in [Event -> Nat]
         /\ \A e \in Event : Minus(bag, less)[e] <= bag[e]
         /\ less = Nothing => Minus(bag, less) = bag
         /\ less = bag => Minus(bag, less) = Nothing
         /\ \A more \in [Event -> Nat] : Minus(Plus(bag, more), less) = Plus(Minus(bag, less), more)
<1>1. \A e \in Event : Minus(bag, less)[e] = bag[e] - less[e]
  BY DEF Minus
<1>2. Minus(bag, less) \in [Event -> Nat]
  BY DEF Minus
<1>3. \A e \in Event : Minus(bag, less)[e] <= bag[e]
  BY <1>1
<1>4. less = Nothing => Minus(bag, less) = bag
  BY DEF Minus, Nothing
<1>5. less = bag => Minus(bag, less) = Nothing
  BY DEF Minus, Nothing
<1>6. ASSUME NEW more \in [Event -> Nat]
      PROVE  Minus(Plus(bag, more), less) = Plus(Minus(bag, less), more)
  <2>1. \A e \in Event : bag[e] + more[e] - less[e] = bag[e] - less[e] + more[e]
    OBVIOUS
  <2> QED BY <2>1 DEF Minus, Plus
<1> QED BY <1>2, <1>3, <1>4, <1>5, <1>6

\* No identity outside a set is there twice.
Single(bag, ids) ==
  \A e, f \in In(bag) : IdOf[e] = IdOf[f] /\ IdOf[e] \notin ids => e = f /\ bag[e] = 1

\* The INSERT: rows of the batch whose identity the table lacks, one of each, and
\* with them each identity of the batch is there.
LEMMA FreshRows ==
  ASSUME NEW table \in [Event -> Nat], NEW bag \in [Event -> Nat]
  PROVE  /\ Fresh(table, bag) \in [Event -> Nat]
         /\ In(Fresh(table, bag)) \subseteq In(bag)
         /\ Ids(Fresh(table, bag)) \cap Ids(table) = {}
         /\ Ids(bag) \subseteq Ids(Fresh(table, bag)) \cup Ids(table)
         /\ ~Conflict(bag) => Single(Fresh(table, bag), {})
<1> DEFINE new == Fresh(table, bag)
<1>1. new \in [Event -> Nat]
  BY DEF Fresh
<1>2. ASSUME NEW e \in Event
      PROVE  /\ new[e] > 0 => bag[e] > 0 /\ IdOf[e] \notin Ids(table) /\ new[e] = 1
             /\ bag[e] > 0 /\ IdOf[e] \notin Ids(table) => new[e] > 0
  BY DEF Fresh
<1> HIDE DEF new
<1>3. In(new) = {e \in In(bag) : IdOf[e] \notin Ids(table)}
  BY <1>1, <1>2 DEF In
<1>4. ~Conflict(bag) => Single(new, {})
  BY <1>2, <1>3 DEF Conflict, Single, In
<1>5. Ids(new) \cap Ids(table) = {} /\ Ids(bag) \subseteq Ids(new) \cup Ids(table)
  BY <1>3 DEF Ids
<1> QED BY <1>1, <1>3, <1>4, <1>5 DEF new

LEMMA SinglePlus ==
  ASSUME NEW bag \in [Event -> Nat], NEW more \in [Event -> Nat], NEW ids,
         Single(bag, ids), Single(more, {}), Ids(more) \cap Ids(bag) \subseteq ids
  PROVE  Single(Plus(bag, more), ids)
<1> SUFFICES ASSUME NEW e \in In(Plus(bag, more)), NEW f \in In(Plus(bag, more)),
                    IdOf[e] = IdOf[f], IdOf[e] \notin ids
             PROVE  e = f /\ Plus(bag, more)[e] = 1
  BY DEF Single
<1>1. In(Plus(bag, more)) = In(bag) \cup In(more)
  BY PlusRows
<1>2. e \in Event /\ Plus(bag, more)[e] = bag[e] + more[e]
  BY DEF In, Plus
<1>3. \A g \in In(more), h \in In(bag) : ~(IdOf[g] = IdOf[e] /\ IdOf[h] = IdOf[e])
  BY DEF Ids
<1>4. CASE e \in In(bag)
  <2>1. f \in In(bag) /\ e \notin In(more)
    BY <1>1, <1>3, <1>4
  <2>2. more[e] = 0
    BY <1>2, <2>1 DEF In
  <2> QED BY <1>2, <1>4, <2>1, <2>2 DEF Single
<1>5. CASE e \notin In(bag)
  <2>1. e \in In(more) /\ f \in In(more)
    BY <1>1, <1>3, <1>5
  <2>2. bag[e] = 0
    BY <1>2, <1>5 DEF In
  <2> QED BY <1>2, <2>1, <2>2 DEF Single
<1> QED BY <1>4, <1>5

LEMMA SingleMinus ==
  ASSUME NEW bag \in [Event -> Nat], NEW part \in [Event -> Nat], NEW ids,
         Single(bag, ids), \A e \in Event : part[e] <= bag[e]
  PROVE  Single(part, ids) /\ In(part) \subseteq In(bag) /\ Ids(part) \subseteq Ids(bag)
<1>1. In(part) \subseteq In(bag)
  BY DEF In
<1>2. ASSUME NEW e \in In(part), bag[e] = 1
      PROVE  part[e] = 1
  BY <1>2 DEF In
<1> QED BY <1>1, <1>2 DEF Single, Ids

\* No period of the scd2 query ends before it begins.
PeriodsTyped(periods) ==
  \A p \in periods : p.event \in Event /\ (p.to = Open \/ p.from <= p.to)

LEMMA PeriodsOfTyped ==
  ASSUME NEW events \in SUBSET Event
  PROVE  PeriodsTyped(PeriodsOf(events))
<1> DEFINE boundary == {e \in events : IsBoundary(events, e)}
           end(e) == IF After(boundary, e) = {} THEN Open
                       ELSE TimeOf[Earliest(After(boundary, e))]
<1>1. ASSUME NEW e \in boundary
      PROVE  end(e) = Open \/ TimeOf[e] <= end(e)
  <2>1. CASE After(boundary, e) = {}
    BY <2>1
  <2>2. CASE After(boundary, e) # {}
    <3>1. After(boundary, e) \in SUBSET Event
      BY DEF After
    <3>2. Earliest(After(boundary, e)) \in After(boundary, e)
      BY <2>2, <3>1, EarliestIsMember
    <3>3. PICK f \in Event : f = Earliest(After(boundary, e)) /\ OrderOf[e] < OrderOf[f]
      BY <3>1, <3>2 DEF After
    <3>4. TimeOf[e] <= TimeOf[f]
      BY <3>3, EventAssumption
    <3> QED BY <2>2, <3>3, <3>4
  <2> QED BY <2>1, <2>2
<1>2. PeriodsOf(events) =
        {[event |-> e, from |-> TimeOf[e], to |-> end(e)] : e \in boundary \ Tombstone}
  BY DEF PeriodsOf
<1>3. boundary \subseteq Event
  OBVIOUS
<1> HIDE DEF boundary, end
<1>4. ASSUME NEW p \in PeriodsOf(events)
      PROVE  p.event \in Event /\ (p.to = Open \/ p.from <= p.to)
  <2>1. PICK e \in boundary : p = [event |-> e, from |-> TimeOf[e], to |-> end(e)]
    BY <1>2, <1>4
  <2> QED BY <2>1, <1>1, <1>3
<1> QED BY <1>4 DEF PeriodsTyped

LEMMA RebuildTyped ==
  ASSUME NEW periods, PeriodsTyped(periods), NEW ledger, NEW keys
  PROVE  PeriodsTyped(Rebuild(periods, ledger, keys))
<1>1. ASSUME NEW key \in keys
      PROVE  PeriodsTyped(PeriodsOf(OfKey(In(ledger), key)))
  BY PeriodsOfTyped DEF OfKey, In
<1> QED BY <1>1 DEF Rebuild, PeriodsTyped

LEMMA LatestOfKeysTyped ==
  ASSUME NEW events \in SUBSET Event
  PROVE  LatestOfKeys(events) \subseteq Event
<1>1. ASSUME NEW key \in Keys(events)
      PROVE  Latest(OfKey(events, key)) \in Event
  <2>1. OfKey(events, key) \in SUBSET Event /\ OfKey(events, key) # {}
    BY DEF Keys, OfKey
  <2> QED BY <2>1, LatestIsMember DEF OfKey
<1> QED BY <1>1 DEF LatestOfKeys

-----------------------------------------------------------------------------
\* Types

LEMMA NoneTyped ==
  /\ NoApply.step = "none" /\ NoApply.input = Nothing /\ NoApply.added = Nothing
  /\ NoReplay.step = "none" /\ NoReplay.window = Full /\ NoReplay.input = Nothing
  /\ NoReplay.cleared = Nothing /\ NoReplay.added = Nothing
BY DEF NoApply, NoReplay

LEMMA WindowTyped ==
  ASSUME NEW p \in Pattern, NEW window \in {Full} \cup Window[p]
  PROVE  /\ window.bounded \in BOOLEAN
         /\ window.bounded => window.from \in Nat /\ window.to \in Nat
<1>1. window = Full \/ (window.bounded = TRUE /\ window.from \in Nat /\ window.to \in Nat)
  BY PatternAssumption
<1>2. Full.bounded = FALSE
  BY DEF Full
<1> QED BY <1>1, <1>2, Zenon

\* What a replay has not deleted.
LEMMA KeptTyped ==
  ASSUME TypeOK
  PROVE  /\ Kept \in [Event -> Nat] /\ \A e \in Event : Kept[e] <= rows[e]
         /\ staged.cleared = Nothing => Kept = rows
         /\ staged.cleared = rows => Kept = Nothing
<1>1. /\ rows \in [Event -> Nat] /\ staged.cleared \in [Event -> Nat]
      /\ \A e \in Event : staged.cleared[e] <= rows[e]
  BY DEF TypeOK
<1> QED BY <1>1, MinusRows DEF Kept

LEMMA InitTyped == Init => TypeOK
<1> SUFFICES ASSUME Init
             PROVE  TypeOK
  OBVIOUS
<1>1. Nothing \in [Event -> Nat] /\ \A e \in Event : Nothing[e] = 0
  BY DEF Nothing
<1>2. bronze \in [Event -> Nat]
  BY DEF Init
<1>3. batch \in [step : {"none", "read", "inserted"},
                 input : [Event -> Nat], added : [Event -> Nat]]
  BY <1>1 DEF Init, NoApply
<1>4. staged \in [step : {"none", "staged", "cleared", "inserted"},
                  window : {Full} \cup Window[pattern],
                  input : [Event -> Nat], cleared : [Event -> Nat], added : [Event -> Nat]]
  BY <1>1 DEF Init, NoReplay
<1>5. ASSUME NEW e \in Event
      PROVE  /\ batch.input[e] <= pending[e] /\ pending[e] <= bronze[e]
             /\ bronze[e] <= Copies[e] /\ staged.cleared[e] <= rows[e]
  <2>1. batch.input = Nothing /\ pending = Nothing /\ staged.cleared = Nothing /\ rows = Nothing
    BY NoneTyped DEF Init
  <2>2. bronze[e] \in {0, 1} /\ Copies[e] \in Nat /\ Copies[e] # 0
    BY BoundAssumption DEF Init
  <2> QED BY <1>1, <2>1, <2>2
<1>6. /\ pattern \in Pattern /\ pending = Nothing /\ rows = Nothing /\ history = {}
      /\ current = {} /\ seen = {} /\ behind = {} /\ missing = {} /\ doubled = {} /\ rewound = {}
  BY DEF Init
<1> QED BY <1>1, <1>2, <1>3, <1>4, <1>5, <1>6 DEF TypeOK

\* The parts of TypeOK.
BronzeTypes ==
  /\ bronze \in [Event -> Nat] /\ pending \in [Event -> Nat]
  /\ \A e \in Event : pending[e] <= bronze[e] /\ bronze[e] <= Copies[e]
SilverTypes ==
  /\ rows \in [Event -> Nat] /\ current \subseteq Event
  /\ \A p \in history : p.event \in Event /\ (p.to = Open \/ p.from <= p.to)
BatchTypes ==
  /\ batch \in [step : {"none", "read", "inserted"}, input : [Event -> Nat], added : [Event -> Nat]]
  /\ \A e \in Event : batch.input[e] <= pending[e]
StagedTypes ==
  /\ staged \in [step : {"none", "staged", "cleared", "inserted"},
                 window : {Full} \cup Window[pattern],
                 input : [Event -> Nat], cleared : [Event -> Nat], added : [Event -> Nat]]
  /\ \A e \in Event : staged.cleared[e] <= rows[e]
CommittedTypes ==
  /\ seen \subseteq Event /\ behind \subseteq Id /\ missing \subseteq Id
  /\ doubled \subseteq Id /\ rewound \subseteq Key

LEMMA TypeParts ==
  TypeOK <=> /\ pattern \in Pattern
             /\ BronzeTypes /\ SilverTypes /\ BatchTypes /\ StagedTypes /\ CommittedTypes
BY DEF TypeOK, BronzeTypes, SilverTypes, BatchTypes, StagedTypes, CommittedTypes

LEMMA IdsTyped == ASSUME NEW bag PROVE Ids(bag) \subseteq Id
BY EventAssumption DEF Ids, In

LEMMA NextTyped == TypeOK /\ [Next]_vars => TypeOK'
<1> SUFFICES ASSUME TypeOK, [Next]_vars
             PROVE  TypeOK'
  OBVIOUS
<1>t. /\ pattern \in Pattern
      /\ BronzeTypes /\ SilverTypes /\ BatchTypes /\ StagedTypes /\ CommittedTypes
  BY TypeParts
<1>p. pattern' \in Pattern /\ BronzeTypes' /\ SilverTypes' /\ BatchTypes' /\ StagedTypes'
        /\ CommittedTypes' => TypeOK'
  BY DEF TypeOK, BronzeTypes, SilverTypes, BatchTypes, StagedTypes, CommittedTypes
<1>b. UNCHANGED <<bronze, pending>> => BronzeTypes'
  BY <1>t DEF BronzeTypes
<1>s. UNCHANGED silver => SilverTypes'
  BY <1>t DEF SilverTypes, silver
<1>a. UNCHANGED <<pending, batch>> => BatchTypes'
  BY <1>t DEF BatchTypes
<1>r. UNCHANGED <<pattern, rows, staged>> => StagedTypes'
  BY <1>t DEF StagedTypes
<1>c. UNCHANGED committed => CommittedTypes'
  BY <1>t DEF CommittedTypes, committed
<1>n. Nothing \in [Event -> Nat] /\ \A e \in Event : Nothing[e] = 0
  BY DEF Nothing
<1>none. ASSUME batch' = NoApply, pending' \in [Event -> Nat]
         PROVE  BatchTypes'
  <2>1. batch' \in [step : {"none", "read", "inserted"},
                    input : [Event -> Nat], added : [Event -> Nat]]
    BY <1>none, <1>n DEF NoApply
  <2>2. \A e \in Event : batch'.input[e] <= pending'[e]
    BY <1>none, <1>n DEF NoApply
  <2> QED BY <2>1, <2>2 DEF BatchTypes
<1>noreplay. ASSUME staged' = NoReplay, rows' \in [Event -> Nat]
             PROVE  StagedTypes'
  <2>1. staged' \in [step : {"none", "staged", "cleared", "inserted"},
                     window : {Full} \cup Window[pattern'],
                     input : [Event -> Nat], cleared : [Event -> Nat], added : [Event -> Nat]]
    BY <1>noreplay, <1>n DEF NoReplay
  <2>2. \A e \in Event : staged'.cleared[e] <= rows'[e]
    BY <1>noreplay, <1>n DEF NoReplay
  <2> QED BY <2>1, <2>2 DEF StagedTypes
<1>1. ASSUME NEW e \in Event, Deliver(e)
      PROVE  TypeOK'
  <2>1. bronze[e] + 1 <= Copies[e] /\ bronze[e] \in Nat /\ pending[e] \in Nat
    <3>1. bronze[e] \in Nat /\ pending[e] \in Nat /\ Copies[e] \in Nat
      BY <1>t, BoundAssumption DEF BronzeTypes
    <3>2. bronze[e] < Copies[e]
      BY <1>1 DEF Deliver
    <3> QED BY <3>1, <3>2
  <2>2. BronzeTypes'
    BY <1>t, <1>1, <2>1 DEF Deliver, BronzeTypes
  <2>3. \A f \in Event : pending[f] <= pending'[f] /\ pending'[f] \in Nat
    BY <1>t, <1>1, <2>1 DEF Deliver, BronzeTypes
  <2>4. BatchTypes'
    BY <1>t, <1>1, <2>3 DEF Deliver, BatchTypes, BronzeTypes
  <2> QED BY <1>t, <1>p, <1>s, <1>r, <1>c, <1>1, <2>2, <2>4 DEF Deliver, silver
<1>2. CASE BeginApply
  <2>1. batch' = [step |-> "read", input |-> pending, added |-> Nothing]
    BY <1>2 DEF BeginApply, NoApply
  <2>2. BatchTypes'
    BY <1>t, <1>2, <1>n, <2>1 DEF BeginApply, BatchTypes, BronzeTypes
  <2> QED BY <1>t, <1>p, <1>b, <1>s, <1>r, <1>c, <1>2, <2>2 DEF BeginApply, silver
<1>3. CASE InsertBatch
  <2>1. Fresh(rows, batch.input) \in [Event -> Nat]
    BY <1>t, FreshRows DEF BatchTypes, SilverTypes
  <2>2. BatchTypes'
    BY <1>t, <1>3, <2>1 DEF InsertBatch, BatchTypes
  <2> QED BY <1>t, <1>p, <1>b, <1>s, <1>r, <1>c, <1>3, <2>2 DEF InsertBatch, silver
<1>4. CASE AbandonApply
  <2>1. BatchTypes'
    BY <1>t, <1>none, <1>4 DEF AbandonApply, BronzeTypes
  <2> QED BY <1>t, <1>p, <1>b, <1>s, <1>r, <1>c, <1>4, <2>1 DEF AbandonApply, silver
<1>consume. ASSUME Consume
            PROVE  /\ pattern' = pattern /\ staged' = staged
                   /\ BronzeTypes' /\ BatchTypes' /\ CommittedTypes'
  <2>1. \A e \in Event : batch.input[e] <= pending[e]
    BY <1>t DEF BatchTypes
  <2>2. /\ pending' \in [Event -> Nat] /\ \A e \in Event : pending'[e] <= pending[e]
        /\ bronze' = bronze
    BY <1>t, <1>consume, <2>1, MinusRows DEF Consume, BatchTypes, BronzeTypes
  <2>3. BronzeTypes'
    BY <1>t, <2>2, BoundAssumption DEF BronzeTypes
  <2>4. BatchTypes'
    BY <1>none, <1>consume, <2>2 DEF Consume
  <2>5. CommittedTypes'
    <3>1. In(batch.input) \subseteq Event /\ InsertedByBoth \subseteq Id
      BY IdsTyped DEF In, InsertedByBoth
    <3> QED BY <1>t, <1>consume, <3>1, IdsTyped DEF Consume, CommittedTypes
  <2> QED BY <1>consume, <2>3, <2>4, <2>5 DEF Consume
<1>plus. ASSUME rows' = Plus(rows, batch.added), pattern' = pattern, staged' = staged
         PROVE  rows' \in [Event -> Nat] /\ StagedTypes'
  <2>1. rows \in [Event -> Nat] /\ batch.added \in [Event -> Nat]
    BY <1>t DEF SilverTypes, BatchTypes
  <2>2. rows' \in [Event -> Nat] /\ \A e \in Event : rows[e] <= rows'[e]
    BY <1>plus, <2>1 DEF Plus
  <2> QED BY <1>t, <1>plus, <2>1, <2>2 DEF StagedTypes
<1>5. CASE CommitAppend
  <2>1. SilverTypes'
    BY <1>t, <1>5, <1>consume, <1>plus DEF CommitAppend, SilverTypes
  <2> QED BY <1>t, <1>p, <1>consume, <1>plus, <1>5, <2>1 DEF CommitAppend
<1>6. CASE ApplyCurrent
  <2>1. In(batch.input) \subseteq Event
    BY DEF In
  <2>2. SilverTypes'
    BY <1>t, <1>6, <2>1, LatestOfKeysTyped DEF ApplyCurrent, Merge, SilverTypes
  <2> QED BY <1>t, <1>p, <1>r, <1>consume, <1>6, <2>2 DEF ApplyCurrent
<1>7. CASE CommitHistory
  <2>1. PeriodsTyped(history')
    <3>1. PeriodsTyped(history)
      BY <1>t DEF SilverTypes, PeriodsTyped
    <3> QED BY <1>7, <3>1, RebuildTyped DEF CommitHistory
  <2>2. SilverTypes'
    BY <1>t, <1>7, <1>consume, <1>plus, <2>1 DEF CommitHistory, SilverTypes, PeriodsTyped
  <2> QED BY <1>t, <1>p, <1>consume, <1>plus, <1>7, <2>2 DEF CommitHistory
<1>8. ASSUME NEW window \in Window[pattern], StageReplay(window)
      PROVE  TypeOK'
  <2>1. BronzeIn(window) \in [Event -> Nat]
    BY <1>t, BronzeTyped DEF BronzeTypes
  <2>2. staged' = [step |-> "staged", window |-> window, input |-> BronzeIn(window),
                   cleared |-> Nothing, added |-> Nothing]
    BY <1>8 DEF StageReplay, NoReplay
  <2>3. StagedTypes'
    <3>1. rows' = rows /\ pattern' = pattern /\ rows \in [Event -> Nat]
      BY <1>t, <1>8 DEF StageReplay, SilverTypes, silver
    <3>2. staged' \in [step : {"none", "staged", "cleared", "inserted"},
                       window : {Full} \cup Window[pattern'],
                       input : [Event -> Nat], cleared : [Event -> Nat], added : [Event -> Nat]]
      BY <1>n, <2>1, <2>2, <3>1
    <3>3. \A e \in Event : staged'.cleared[e] <= rows'[e]
      BY <1>n, <2>2, <3>1
    <3> QED BY <3>2, <3>3 DEF StagedTypes
  <2> QED BY <1>t, <1>p, <1>b, <1>s, <1>a, <1>c, <1>8, <2>3 DEF StageReplay
<1>9. CASE ClearTables
  <2>1. rows \in [Event -> Nat] /\ \A e \in Event : rows[e] <= rows[e]
    BY <1>t DEF SilverTypes
  <2>2. StagedTypes'
    BY <1>t, <1>9, <2>1 DEF ClearTables, StagedTypes, silver
  <2> QED BY <1>t, <1>p, <1>b, <1>s, <1>a, <1>c, <1>9, <2>2 DEF ClearTables
<1>10. CASE InsertReplay
  <2>1. Fresh(Kept, staged.input) \in [Event -> Nat]
    BY <1>t, KeptTyped, FreshRows DEF StagedTypes
  <2>2. StagedTypes'
    BY <1>t, <1>10, <2>1 DEF InsertReplay, StagedTypes, silver
  <2> QED BY <1>t, <1>p, <1>b, <1>s, <1>a, <1>c, <1>10, <2>2 DEF InsertReplay
<1>11. CASE FinishReplay
  <2>1. rows' \in [Event -> Nat]
    BY <1>t, <1>11, KeptTyped, PlusRows DEF FinishReplay, StagedTypes
  <2>2. PeriodsTyped(history) /\ PeriodsTyped({})
    BY <1>t DEF SilverTypes, PeriodsTyped
  <2>3. PeriodsTyped(history')
    BY <1>11, <2>2, RebuildTyped DEF FinishReplay
  <2>4. SilverTypes'
    BY <1>t, <1>11, <2>1, <2>3 DEF FinishReplay, SilverTypes, PeriodsTyped
  <2>5. StagedTypes'
    BY <1>noreplay, <1>11, <2>1 DEF FinishReplay
  <2>6. CommittedTypes'
    <3>1. In(staged.input) \subseteq Event /\ InsertedByBoth \subseteq Id
      BY IdsTyped DEF In, InsertedByBoth
    <3>2. seen' \subseteq Event /\ behind' \subseteq Id /\ rewound' \subseteq Key
      BY <1>t, <1>11, <3>1 DEF FinishReplay, CommittedTypes
    <3>3. missing' \subseteq Id /\ doubled' \subseteq Id
      BY <1>t, <1>11, <3>1 DEF FinishReplay, CommittedTypes
    <3> QED BY <3>2, <3>3 DEF CommittedTypes
  <2> QED BY <1>t, <1>p, <1>b, <1>a, <1>11, <2>4, <2>5, <2>6 DEF FinishReplay
<1>12. CASE AbandonReplay
  <2>1. StagedTypes'
    BY <1>t, <1>noreplay, <1>12 DEF AbandonReplay, SilverTypes, silver
  <2>2. CommittedTypes'
    BY <1>t, <1>12 DEF AbandonReplay, CommittedTypes
  <2> QED BY <1>t, <1>p, <1>b, <1>s, <1>a, <1>12, <2>1, <2>2 DEF AbandonReplay
<1>13. ASSUME NEW window \in Window[pattern], ReplayCurrent(window)
      PROVE  TypeOK'
  <2>1. In(BronzeIn(window)) \subseteq Event
    BY DEF In
  <2>2. SilverTypes'
    BY <1>t, <1>13, <2>1, LatestOfKeysTyped DEF ReplayCurrent, SilverTypes
  <2>3. Rewinds(window) \subseteq Key
    BY <2>1, EventAssumption DEF Rewinds, Keys
  <2>4. CommittedTypes'
    BY <1>t, <1>13, <2>1, <2>3 DEF ReplayCurrent, CommittedTypes
  <2> QED BY <1>t, <1>p, <1>b, <1>a, <1>r, <1>13, <2>2, <2>4 DEF ReplayCurrent
<1>14. CASE UNCHANGED vars
  BY <1>t, <1>p, <1>b, <1>s, <1>a, <1>r, <1>c, <1>14 DEF vars, silver
<1> QED BY <1>1, <1>2, <1>3, <1>4, <1>5, <1>6, <1>7, <1>8, <1>9, <1>10, <1>11, <1>12, <1>13, <1>14
      DEF Next

\* Whatever arrives, and whatever is applied and replayed: the tables have their
\* types, the stream offers no more than Bronze holds, no transaction consumes or
\* deletes more than there is, and no period of a history ends before it begins.
THEOREM SilverTypeCorrect == Spec => []TypeOK
BY InitTyped, NextTyped, PTL DEF Spec

-----------------------------------------------------------------------------
\* The two transactions, step by step

ByEvent == pattern \in {"append", "scd2"}

\* An apply in progress: it has inserted rows of what it read, without a conflict.
BatchInv ==
  /\ batch.step # "inserted" => batch.added = Nothing
  /\ batch.step = "inserted" => ByEvent
  /\ In(batch.added) \subseteq In(batch.input)
  /\ ByEvent => ~Conflict(batch.input)

\* A replay in progress: only a full one has deleted anything, and of the ledger of
\* an scd2 everything, because the lock of the history keeps applies waiting.
ReplayInv ==
  /\ staged.step # "none" => ByEvent
  /\ staged.step # "inserted" => staged.added = Nothing
  /\ ~Cleared => staged.cleared = Nothing
  /\ In(staged.added) \subseteq In(staged.input)
  /\ pattern = "scd2" /\ Cleared => staged.cleared = rows
StepsInv == TypeOK /\ BatchInv /\ ReplayInv

LEMMA NoApplyInv == ASSUME batch' = NoApply PROVE BatchInv'
<1>1. batch'.step = "none" /\ batch'.input = Nothing /\ batch'.added = Nothing
  BY NoneTyped
<1>2. In(Nothing) = {} /\ ~Conflict(Nothing)
  BY NothingTyped DEF Conflict
<1> QED BY <1>1, <1>2 DEF BatchInv

LEMMA NoReplayInv == ASSUME staged' = NoReplay PROVE ReplayInv'
<1>1. staged'.step = "none" /\ staged'.cleared = Nothing /\ staged'.added = Nothing
  BY NoneTyped
<1>2. In(Nothing) = {}
  BY NothingTyped
<1> QED BY <1>1, <1>2 DEF ReplayInv, Cleared, FullReplay

\* The rows and the pattern, as the steps of the two procedures change them.
LEMMA ConsumeSteps ==
  ASSUME CommitAppend \/ ApplyCurrent \/ CommitHistory
  PROVE  Consume /\ (rows' = Plus(rows, batch.added) \/ (pattern = "scd1" /\ rows' = rows))
BY DEF CommitAppend, ApplyCurrent, CommitHistory

LEMMA StepsPreserved == StepsInv /\ [Next]_vars => BatchInv' /\ ReplayInv'
<1> SUFFICES ASSUME StepsInv, [Next]_vars
             PROVE  BatchInv' /\ ReplayInv'
  OBVIOUS
<1>t. /\ BatchInv /\ ReplayInv /\ BatchTypes /\ StagedTypes /\ SilverTypes /\ BronzeTypes
      /\ pattern \in {"append", "scd1", "scd2"}
  BY TypeParts, PatternAssumption DEF StepsInv
<1>b. UNCHANGED <<pattern, batch>> => BatchInv'
  BY <1>t DEF BatchInv, ByEvent
<1>r. UNCHANGED <<pattern, staged, rows>> => ReplayInv'
  BY <1>t DEF ReplayInv, ByEvent, Cleared, FullReplay
<1>1. ASSUME NEW e \in Event, Deliver(e)
      PROVE  BatchInv' /\ ReplayInv'
  BY <1>b, <1>r, <1>1 DEF Deliver, silver
<1>2. CASE BeginApply
  <2>1. batch' = [step |-> "read", input |-> pending, added |-> Nothing] /\ pattern' = pattern
        /\ (ByEvent => ~Conflict(pending))
    BY <1>2 DEF BeginApply, NoApply, ByEvent
  <2>2. BatchInv'
    BY <2>1, NothingTyped DEF BatchInv, ByEvent
  <2> QED BY <1>r, <1>2, <2>2 DEF BeginApply, silver
<1>3. CASE InsertBatch
  <2>1. /\ batch' = [batch EXCEPT !.step = "inserted", !.added = Fresh(rows, batch.input)]
        /\ pattern' = pattern /\ ByEvent
    BY <1>3 DEF InsertBatch, ByEvent
  <2>2. batch'.step = "inserted" /\ batch'.input = batch.input
        /\ batch'.added = Fresh(rows, batch.input)
    BY <1>t, <2>1 DEF BatchTypes
  <2>3. In(Fresh(rows, batch.input)) \subseteq In(batch.input)
    BY <1>t, FreshRows DEF BatchTypes, SilverTypes
  <2>4. BatchInv'
    BY <1>t, <2>1, <2>2, <2>3 DEF BatchInv, ByEvent
  <2> QED BY <1>r, <1>3, <2>4 DEF InsertBatch, silver
<1>4. CASE AbandonApply
  <2>1. BatchInv'
    BY <1>4, NoApplyInv DEF AbandonApply
  <2> QED BY <1>r, <1>4, <2>1 DEF AbandonApply, silver
<1>5. CASE CommitAppend \/ ApplyCurrent \/ CommitHistory
  <2>1. batch' = NoApply /\ staged' = staged /\ pattern' = pattern
    BY <1>5, ConsumeSteps DEF Consume
  <2>2. BatchInv'
    BY <2>1, NoApplyInv
  <2>3. ~(pattern = "scd2" /\ Cleared)
    BY <1>5 DEF CommitAppend, ApplyCurrent, CommitHistory
  <2>4. ReplayInv'
    BY <1>t, <2>1, <2>3 DEF ReplayInv, ByEvent, Cleared, FullReplay
  <2> QED BY <2>2, <2>4
<1>6. ASSUME NEW window \in Window[pattern], StageReplay(window)
      PROVE  BatchInv' /\ ReplayInv'
  <2>1. /\ staged' = [step |-> "staged", window |-> window, input |-> BronzeIn(window),
                      cleared |-> Nothing, added |-> Nothing]
        /\ pattern' = pattern /\ ByEvent
    BY <1>6 DEF StageReplay, NoReplay, ByEvent
  <2>2. ReplayInv'
    BY <2>1, NothingTyped DEF ReplayInv, ByEvent, Cleared, FullReplay
  <2> QED BY <1>b, <1>6, <2>2 DEF StageReplay
<1>7. CASE ClearTables
  <2>1. /\ staged' = [staged EXCEPT !.step = "cleared", !.cleared = rows]
        /\ staged.step = "staged" /\ ~staged.window.bounded
        /\ pattern' = pattern /\ rows' = rows
    BY <1>7 DEF ClearTables, MayClear, silver
  <2>2. /\ staged'.step = "cleared" /\ staged'.cleared = rows /\ staged'.window = staged.window
        /\ staged'.added = staged.added /\ staged'.input = staged.input
    BY <1>t, <2>1 DEF StagedTypes
  <2>3. ReplayInv'
    BY <1>t, <2>1, <2>2 DEF ReplayInv, ByEvent, Cleared, FullReplay
  <2> QED BY <1>b, <1>7, <2>3 DEF ClearTables
<1>8. CASE InsertReplay
  <2>1. /\ staged' = [staged EXCEPT !.step = "inserted", !.added = Fresh(Kept, staged.input)]
        /\ staged.step \in {"staged", "cleared"} /\ pattern' = pattern /\ rows' = rows
        /\ staged.step = "staged" => staged.window.bounded
    BY <1>8 DEF InsertReplay, MayClear, silver
  <2>2. /\ staged'.step = "inserted" /\ staged'.added = Fresh(Kept, staged.input)
        /\ staged'.window = staged.window /\ staged'.cleared = staged.cleared
        /\ staged'.input = staged.input
    BY <1>t, <2>1 DEF StagedTypes
  <2>3. In(Fresh(Kept, staged.input)) \subseteq In(staged.input)
    BY <1>t, KeptTyped, FreshRows DEF StagedTypes, StepsInv
  <2>4. ReplayInv'
    BY <1>t, <2>1, <2>2, <2>3 DEF ReplayInv, ByEvent, Cleared, FullReplay
  <2> QED BY <1>b, <1>8, <2>4 DEF InsertReplay
<1>9. CASE FinishReplay \/ AbandonReplay
  <2>1. ReplayInv'
    BY <1>9, NoReplayInv DEF FinishReplay, AbandonReplay
  <2> QED BY <1>b, <1>9, <2>1 DEF FinishReplay, AbandonReplay
<1>10. ASSUME NEW window \in Window[pattern], ReplayCurrent(window)
       PROVE  BatchInv' /\ ReplayInv'
  BY <1>b, <1>r, <1>10 DEF ReplayCurrent
<1>11. CASE UNCHANGED vars
  BY <1>b, <1>r, <1>11 DEF vars, silver
<1> QED BY <1>1, <1>2, <1>3, <1>4, <1>5, <1>6, <1>7, <1>8, <1>9, <1>10, <1>11 DEF Next

LEMMA InitSteps == Init => StepsInv
<1> SUFFICES ASSUME Init
             PROVE  StepsInv
  OBVIOUS
<1>1. /\ batch.step = "none" /\ batch.input = Nothing /\ batch.added = Nothing
      /\ staged.step = "none" /\ staged.cleared = Nothing /\ staged.added = Nothing
  BY NoneTyped DEF Init
<1>2. In(Nothing) = {} /\ ~Conflict(Nothing)
  BY NothingTyped DEF Conflict
<1> QED BY <1>1, <1>2, InitTyped DEF StepsInv, BatchInv, ReplayInv, Cleared, FullReplay

\* The inductive invariant on which the others rest.
LEMMA StepsHold == Spec => []StepsInv
<1>1. StepsInv /\ [Next]_vars => StepsInv'
  BY NextTyped, StepsPreserved DEF StepsInv
<1> QED BY InitSteps, <1>1, PTL DEF Spec

-----------------------------------------------------------------------------
\* No identity twice, but for those inserted by both transactions

\* What a transaction has inserted was not there when it looked; if it is there
\* now, both have inserted it.
OnceInv ==
  /\ Single(rows, doubled)
  /\ Single(batch.added, {}) /\ Ids(batch.added) \cap Ids(rows) \subseteq doubled
  /\ Single(staged.added, {}) /\ Ids(staged.added) \cap Ids(Kept) \subseteq doubled

LEMMA NothingSingle == ASSUME NEW ids PROVE Single(Nothing, ids)
BY NothingTyped DEF Single

LEMMA InitOnce == Init => OnceInv
<1> SUFFICES ASSUME Init
             PROVE  OnceInv
  OBVIOUS
<1>1. rows = Nothing /\ batch.added = Nothing /\ staged.added = Nothing
  BY NoneTyped DEF Init
<1> QED BY <1>1, NothingSingle, NothingTyped DEF OnceInv

\* The commit of an apply.
LEMMA ApplyOnce ==
  ASSUME StepsInv, OnceInv, Consume, rows' = Plus(rows, batch.added)
  PROVE  OnceInv'
<1>t. /\ rows \in [Event -> Nat] /\ staged.cleared \in [Event -> Nat]
      /\ \A e \in Event : staged.cleared[e] <= rows[e]
      /\ batch.added \in [Event -> Nat]
  BY DEF StepsInv, TypeOK
<1>1. /\ batch'.added = Nothing /\ staged' = staged
      /\ doubled' = doubled \cup (Ids(batch.added) \cap Ids(staged.added))
  BY NoneTyped DEF Consume, InsertedByBoth
<1>2. Single(rows', doubled')
  <2>1. Single(rows, doubled')
    BY <1>1 DEF OnceInv, Single
  <2> QED BY <1>t, <1>1, <2>1, SinglePlus DEF OnceInv
<1>3. Ids(Kept)' = Ids(Kept) \cup Ids(batch.added)
  <2>1. Minus(rows', staged.cleared) = Plus(Kept, batch.added)
    BY <1>t, MinusRows DEF Kept
  <2>2. Ids(Plus(Kept, batch.added)) = Ids(Kept) \cup Ids(batch.added)
    BY <1>t, KeptTyped, PlusRows DEF StepsInv
  <2>3. Ids(Kept)' = Ids(Minus(rows', staged.cleared))
    BY <1>1 DEF Kept, Ids, In
  <2> QED BY <2>1, <2>2, <2>3
<1>4. Ids(staged.added) \cap (Ids(Kept) \cup Ids(batch.added)) \subseteq doubled'
  BY <1>1 DEF OnceInv
<1>5. /\ Single(batch'.added, {}) /\ Ids(batch'.added) = {}
      /\ Single(staged'.added, {}) /\ Ids(staged'.added) = Ids(staged.added)
  BY <1>1, NothingSingle, NothingTyped DEF OnceInv
<1> QED BY <1>2, <1>3, <1>4, <1>5 DEF OnceInv, Single, In, Ids

\* The commit of a replay.
LEMMA ReplayOnce ==
  ASSUME StepsInv, OnceInv, FinishReplay
  PROVE  OnceInv'
<1>t. /\ rows \in [Event -> Nat] /\ staged.added \in [Event -> Nat]
      /\ Kept \in [Event -> Nat] /\ \A e \in Event : Kept[e] <= rows[e]
  BY KeptTyped DEF StepsInv, TypeOK
<1> DEFINE before == IF FullReplay THEN doubled \cap Ids(Kept) ELSE doubled
<1>1. /\ rows' = Plus(Kept, staged.added) /\ batch' = batch /\ staged'.added = Nothing
      /\ doubled' = before \cup (Ids(batch.added) \cap Ids(staged.added))
  BY NoneTyped DEF FinishReplay, InsertedByBoth
<1>2. before \cap Ids(Kept) = doubled \cap Ids(Kept) /\ before \subseteq doubled'
  BY <1>1
<1> HIDE DEF before
<1>3. Single(Kept, doubled) /\ Ids(Kept) \subseteq Ids(rows)
  BY <1>t, SingleMinus DEF OnceInv
<1>4. Single(Kept, doubled')
  BY <1>2, <1>3 DEF Single, Ids
<1>5. Ids(staged.added) \cap Ids(Kept) \subseteq doubled'
  BY <1>2 DEF OnceInv
<1>6. Single(rows', doubled')
  BY <1>t, <1>1, <1>4, <1>5, SinglePlus DEF OnceInv
<1>7. Ids(rows') = Ids(Kept) \cup Ids(staged.added)
  BY <1>t, <1>1, PlusRows
<1>8. Ids(batch.added) \cap Ids(rows') \subseteq doubled'
  BY <1>1, <1>2, <1>3, <1>7 DEF OnceInv
<1>9. Single(staged'.added, {}) /\ Ids(staged'.added) = {}
  BY <1>1, NothingSingle, NothingTyped
<1>10. Single(batch'.added, {}) /\ Ids(batch'.added) = Ids(batch.added)
  BY <1>1 DEF OnceInv
<1> QED BY <1>6, <1>8, <1>9, <1>10 DEF OnceInv, Single, In, Ids

LEMMA OncePreserved ==
  ASSUME StepsInv, OnceInv, [Next]_vars
  PROVE  OnceInv'
<1>t. /\ rows \in [Event -> Nat] /\ BatchTypes /\ StagedTypes /\ BatchInv /\ ReplayInv
      /\ Kept \in [Event -> Nat]
  BY KeptTyped, TypeParts DEF StepsInv, TypeOK
<1>1. ASSUME UNCHANGED <<rows, batch, staged, doubled>>
      PROVE  OnceInv'
  BY <1>1 DEF OnceInv, Single, Kept, In, Ids
<1>2. ASSUME UNCHANGED <<rows, staged, doubled>>,
             Single(batch'.added, {}), Ids(batch'.added) \cap Ids(rows) \subseteq doubled
      PROVE  OnceInv'
  BY <1>2 DEF OnceInv, Single, Kept, In, Ids
<1>3. ASSUME UNCHANGED <<rows, batch, doubled>>,
             Single(staged'.added, {}), Ids(staged'.added) \cap Ids(Kept)' \subseteq doubled
      PROVE  OnceInv'
  BY <1>3 DEF OnceInv, Single, Kept, In, Ids
<1>4. ASSUME NEW e \in Event, Deliver(e)
      PROVE  OnceInv'
  BY <1>1, <1>4 DEF Deliver, silver, committed
<1>5. CASE BeginApply \/ AbandonApply
  <2>1. batch'.added = Nothing
    BY <1>5, NoneTyped DEF BeginApply, AbandonApply, NoApply
  <2>2. UNCHANGED <<rows, staged, doubled>>
    BY <1>5 DEF BeginApply, AbandonApply, silver, committed
  <2> QED BY <1>2, <2>1, <2>2, NothingSingle, NothingTyped
<1>6. CASE InsertBatch
  <2>1. batch'.added = Fresh(rows, batch.input) /\ ~Conflict(batch.input)
    BY <1>t, <1>6 DEF InsertBatch, BatchTypes, BatchInv, ByEvent
  <2>2. Single(Fresh(rows, batch.input), {}) /\ Ids(Fresh(rows, batch.input)) \cap Ids(rows) = {}
    BY <1>t, <2>1, FreshRows DEF BatchTypes
  <2>3. UNCHANGED <<rows, staged, doubled>>
    BY <1>6 DEF InsertBatch, silver, committed
  <2> QED BY <1>2, <2>1, <2>2, <2>3
<1>7. CASE CommitAppend \/ CommitHistory
  BY <1>7, ApplyOnce DEF CommitAppend, CommitHistory
<1>8. CASE ApplyCurrent
  <2>1. batch.added = Nothing
    BY <1>t, <1>8 DEF ApplyCurrent, BatchInv
  <2>2. Plus(rows, Nothing) = rows
    BY <1>t DEF Plus, Nothing
  <2> QED BY <1>8, <2>1, <2>2, ApplyOnce DEF ApplyCurrent
<1>9. CASE ClearTables \/ AbandonReplay \/ \E window \in Window[pattern] : StageReplay(window)
  <2>1. staged'.added = Nothing
    <3>1. CASE ClearTables
      BY <1>t, <3>1 DEF ClearTables, MayClear, StagedTypes, ReplayInv
    <3>2. CASE AbandonReplay
      BY <3>2, NoneTyped DEF AbandonReplay
    <3>3. CASE \E window \in Window[pattern] : StageReplay(window)
      BY <3>3 DEF StageReplay, NoReplay
    <3> QED BY <1>9, <3>1, <3>2, <3>3
  <2>2. UNCHANGED <<rows, batch, doubled>>
    BY <1>9 DEF ClearTables, AbandonReplay, StageReplay, silver, committed
  <2> QED BY <1>3, <2>1, <2>2, NothingSingle, NothingTyped
<1>10. CASE InsertReplay
  <2>1. /\ staged'.added = Fresh(Kept, staged.input) /\ ~Conflict(staged.input)
        /\ staged'.cleared = staged.cleared /\ UNCHANGED <<rows, batch, doubled>>
    BY <1>t, <1>10 DEF InsertReplay, StagedTypes, silver, committed
  <2>2. Single(Fresh(Kept, staged.input), {}) /\ Ids(Fresh(Kept, staged.input)) \cap Ids(Kept) = {}
    BY <1>t, <2>1, FreshRows DEF StagedTypes
  <2>3. Ids(Kept)' = Ids(Kept)
    BY <2>1 DEF Kept, Ids, In
  <2> QED BY <1>3, <2>1, <2>2, <2>3
<1>11. CASE FinishReplay
  BY <1>11, ReplayOnce
<1>12. ASSUME NEW window \in Window[pattern], ReplayCurrent(window)
       PROVE  OnceInv'
  BY <1>1, <1>12 DEF ReplayCurrent
<1>13. CASE UNCHANGED vars
  BY <1>1, <1>13 DEF vars, silver, committed
<1> QED BY <1>4, <1>5, <1>6, <1>7, <1>8, <1>9, <1>10, <1>11, <1>12, <1>13 DEF Next

\* For any events, windows and copies: however often and in whatever batches an
\* event arrives, is applied and is replayed, and however the transactions overlap,
\* its identity has one row, unless an apply and a replay had both inserted it
\* before either committed and no full replay has cleared it since.
THEOREM SilverOncePerIdentity == Spec => []OneRowPerIdentity
<1>1. StepsInv /\ OnceInv /\ [Next]_vars => OnceInv'
  BY OncePreserved
<1>2. OnceInv => OneRowPerIdentity
  BY DEF OnceInv, Single, OneRowPerIdentity
<1> QED BY InitOnce, <1>1, <1>2, StepsHold, PTL DEF Spec

-----------------------------------------------------------------------------
\* Nothing committed is lost

SeenIds == {IdOf[e] : e \in seen}

\* What was committed, and what a replay has staged, is in Bronze.
EvidenceInv ==
  /\ seen \subseteq In(bronze)
  /\ \A e \in Event : staged.input[e] <= bronze[e]

\* What the tables have, or have lost, was committed.
SourceInv == ByEvent => Ids(rows) \cup missing \cup behind \subseteq SeenIds

\* A full replay has staged everything that was committed, what a replay before it
\* had cleared included, but for what applies have committed since.
StagedInv == FullReplay => SeenIds \subseteq Ids(staged.input) \cup behind

\* Each identity of the input was inserted or was there; what an apply has found
\* there may be cleared before it commits.
InsertedInv ==
  /\ batch.step = "inserted" =>
       Ids(batch.input) \subseteq Ids(batch.added) \cup Ids(rows) \cup missing
  /\ staged.step = "inserted" => Ids(staged.input) \subseteq Ids(staged.added) \cup Ids(Kept)

LostInv ==
  /\ StepsInv
  /\ EvidenceInv /\ SourceInv /\ StagedInv /\ InsertedInv
  /\ NothingLost

LEMMA InitLost == Init => LostInv
<1> SUFFICES ASSUME Init
             PROVE  LostInv
  OBVIOUS
<1>1. StepsInv
  BY InitSteps
<1>2. /\ seen = {} /\ rows = Nothing /\ missing = {} /\ behind = {}
      /\ batch.step = "none" /\ staged.step = "none" /\ staged.input = Nothing
  BY NoneTyped DEF Init
<1>3. ASSUME NEW e \in Event
      PROVE  staged.input[e] <= bronze[e]
  <2>1. staged.input[e] = 0 /\ bronze[e] \in Nat
    BY <1>1, <1>2 DEF Nothing, TypeOK, StepsInv
  <2> QED BY <2>1
<1>4. EvidenceInv
  BY <1>2, <1>3 DEF EvidenceInv
<1>5. SourceInv /\ NothingLost
  BY <1>2, NothingTyped DEF SourceInv, NothingLost
<1>6. StagedInv /\ InsertedInv
  BY <1>2 DEF StagedInv, InsertedInv, FullReplay
<1> QED BY <1>1, <1>4, <1>5, <1>6 DEF LostInv

LEMMA EvidencePreserved == LostInv /\ [Next]_vars => EvidenceInv'
<1> SUFFICES ASSUME LostInv, [Next]_vars
             PROVE  EvidenceInv'
  OBVIOUS
<1> USE DEF EvidenceInv
<1>t. /\ bronze \in [Event -> Nat] /\ staged.input \in [Event -> Nat]
      /\ batch.input \in [Event -> Nat] /\ StagedTypes
      /\ seen \subseteq In(bronze) /\ \A e \in Event : staged.input[e] <= bronze[e]
      /\ \A e \in Event : batch.input[e] <= bronze[e]
  <2>1. TypeOK /\ EvidenceInv
    BY DEF LostInv, StepsInv
  <2>2. /\ bronze \in [Event -> Nat] /\ pending \in [Event -> Nat]
        /\ batch.input \in [Event -> Nat]
        /\ \A e \in Event : batch.input[e] <= pending[e] /\ pending[e] <= bronze[e]
    BY <2>1 DEF TypeOK
  <2>3. \A e \in Event : batch.input[e] <= bronze[e]
    BY <2>2
  <2> QED BY <2>1, <2>2, <2>3, TypeParts DEF TypeOK
<1>in. In(batch.input) \subseteq In(bronze) /\ In(staged.input) \subseteq In(bronze)
  <2>1. ASSUME NEW e \in Event
        PROVE  /\ batch.input[e] > 0 => bronze[e] > 0
               /\ staged.input[e] > 0 => bronze[e] > 0
    BY <1>t
  <2> QED BY <2>1 DEF In
<1>same. ASSUME bronze' = bronze, seen' \subseteq In(bronze), staged'.input = staged.input
         PROVE  EvidenceInv'
  BY <1>t, <1>same DEF In
<1>none. ASSUME bronze' = bronze, seen' \subseteq In(bronze), staged'.input = Nothing
         PROVE  EvidenceInv'
  <2>1. \A e \in Event : Nothing[e] <= bronze'[e]
    BY <1>t, <1>none DEF Nothing
  <2> QED BY <1>none, <2>1 DEF In
<1>1. ASSUME NEW e \in Event, Deliver(e)
      PROVE  EvidenceInv'
  <2>1. ASSUME NEW f \in Event
        PROVE  bronze[f] <= bronze'[f] /\ bronze'[f] \in Nat
    BY <1>1, <1>t DEF Deliver
  <2>2. In(bronze) \subseteq In(bronze')
    BY <2>1, <1>t DEF In
  <2>3. seen' \subseteq In(bronze')
    BY <1>t, <1>1, <2>2 DEF Deliver, committed
  <2>4. ASSUME NEW f \in Event
        PROVE  staged'.input[f] <= bronze'[f]
    BY <1>1, <2>1, <1>t DEF Deliver
  <2>5. In(bronze') = In(bronze)'
    BY DEF In
  <2> QED BY <2>3, <2>4, <2>5
<1>2. CASE BeginApply \/ InsertBatch \/ AbandonApply
  BY <1>t, <1>same, <1>2 DEF BeginApply, InsertBatch, AbandonApply, committed
<1>3. CASE CommitAppend \/ ApplyCurrent \/ CommitHistory
  BY <1>t, <1>in, <1>same, <1>3, ConsumeSteps DEF Consume
<1>4. ASSUME NEW window \in Window[pattern], StageReplay(window)
      PROVE  EvidenceInv'
  <2>1. staged'.input = BronzeIn(window) /\ bronze' = bronze /\ seen' = seen
    BY <1>4 DEF StageReplay, NoReplay, committed
  <2> QED BY <1>t, <2>1, BronzeTyped DEF In
<1>5. CASE ClearTables \/ InsertReplay
  BY <1>t, <1>same, <1>5 DEF ClearTables, InsertReplay, StagedTypes, committed
<1>6. CASE FinishReplay
  BY <1>t, <1>in, <1>none, <1>6, NoneTyped DEF FinishReplay
<1>7. CASE AbandonReplay
  BY <1>t, <1>none, <1>7, NoneTyped DEF AbandonReplay
<1>8. ASSUME NEW window \in Window[pattern], ReplayCurrent(window)
      PROVE  EvidenceInv'
  <2>1. In(BronzeIn(window)) \subseteq In(bronze)
    BY DEF In, BronzeIn
  <2> QED BY <1>t, <1>same, <1>8, <2>1 DEF ReplayCurrent
<1>9. CASE UNCHANGED vars
  BY <1>t, <1>same, <1>9 DEF vars, committed
<1> QED BY <1>1, <1>2, <1>3, <1>4, <1>5, <1>6, <1>7, <1>8, <1>9 DEF Next

\* The parts of the invariant that speak of identities.
IdentityInv == SourceInv /\ StagedInv /\ InsertedInv /\ NothingLost

\* The commit of an apply: what it has inserted, or found, is there or missing.
LEMMA ApplyLost ==
  ASSUME LostInv, ByEvent, CommitAppend \/ CommitHistory
  PROVE  IdentityInv'
<1>t. /\ rows \in [Event -> Nat] /\ staged.cleared \in [Event -> Nat]
      /\ batch.added \in [Event -> Nat] /\ Kept \in [Event -> Nat]
      /\ \A e \in Event : staged.cleared[e] <= rows[e]
  BY KeptTyped DEF LostInv, StepsInv, TypeOK
<1>1. /\ rows' = Plus(rows, batch.added) /\ seen' = seen \cup In(batch.input)
      /\ missing' = missing \ Ids(rows') /\ staged' = staged /\ pattern' = pattern
      /\ behind' = IF FullReplay THEN behind \cup Ids(batch.input) ELSE behind
      /\ batch.step = "inserted" /\ batch'.step = "none"
  BY NoneTyped DEF CommitAppend, CommitHistory, Consume
<1>2. Ids(rows') = Ids(rows) \cup Ids(batch.added)
  BY <1>t, <1>1, PlusRows
<1>3. SeenIds' = SeenIds \cup Ids(batch.input)
  BY <1>1 DEF SeenIds, Ids
<1>4. Ids(rows)' = Ids(rows') /\ Ids(staged.input)' = Ids(staged.input)
  BY <1>1 DEF Ids, In
<1>5. Ids(batch.added) \subseteq Ids(batch.input)
  BY DEF LostInv, StepsInv, BatchInv, Ids
<1>6. Ids(Kept) \subseteq Ids(Kept)'
  <2>1. Minus(rows', staged.cleared) = Plus(Kept, batch.added)
    BY <1>t, <1>1, MinusRows DEF Kept
  <2>2. Ids(Kept)' = Ids(Minus(rows', staged.cleared))
    BY <1>1 DEF Kept, Ids, In
  <2> QED BY <1>t, <2>1, <2>2, PlusRows
<1>7. Ids(staged.added)' = Ids(staged.added)
  BY <1>1 DEF Ids, In
<1>8. SourceInv'
  BY <1>1, <1>2, <1>3, <1>4, <1>5 DEF LostInv, SourceInv
<1>9. StagedInv'
  BY <1>1, <1>3, <1>4 DEF LostInv, StagedInv, FullReplay
<1>10. InsertedInv'
  BY <1>1, <1>4, <1>6, <1>7 DEF LostInv, InsertedInv
<1>11. NothingLost'
  <2>1. SeenIds \subseteq Ids(rows) \cup missing
    BY DEF LostInv, NothingLost, ByEvent, SeenIds
  <2>2. Ids(batch.input) \subseteq Ids(batch.added) \cup Ids(rows) \cup missing
    BY <1>1 DEF LostInv, InsertedInv
  <2>3. SeenIds' \subseteq Ids(rows)' \cup missing'
    BY <1>1, <1>2, <1>3, <1>4, <2>1, <2>2
  <2> QED BY <2>3 DEF NothingLost, SeenIds
<1> QED BY <1>8, <1>9, <1>10, <1>11 DEF IdentityInv

\* The commit of a replay: what a full one has cleared it had staged, or an apply
\* has committed it behind the staging.
LEMMA ReplayLost ==
  ASSUME LostInv, FinishReplay
  PROVE  IdentityInv'
<1>t. /\ rows \in [Event -> Nat] /\ staged.added \in [Event -> Nat] /\ Kept \in [Event -> Nat]
      /\ \A e \in Event : Kept[e] <= rows[e]
      /\ staged.cleared = Nothing => Kept = rows
  BY KeptTyped DEF LostInv, StepsInv, TypeOK
<1>1. /\ rows' = Plus(Kept, staged.added) /\ seen' = seen \cup In(staged.input)
      /\ missing' = (IF FullReplay THEN behind ELSE missing) \ Ids(rows')
      /\ behind' = {} /\ batch' = batch /\ pattern' = pattern
      /\ staged.step = "inserted" /\ staged'.step = "none"
  BY NoneTyped DEF FinishReplay
<1>2. ByEvent /\ ByEvent'
  BY <1>1 DEF LostInv, StepsInv, ReplayInv, ByEvent
<1>3. Ids(rows') = Ids(Kept) \cup Ids(staged.added)
  BY <1>t, <1>1, PlusRows
<1>4. SeenIds' = SeenIds \cup Ids(staged.input)
  BY <1>1 DEF SeenIds, Ids
<1>5. /\ Ids(rows)' = Ids(rows') /\ Ids(batch.input)' = Ids(batch.input)
      /\ Ids(batch.added)' = Ids(batch.added)
  BY <1>1 DEF Ids, In
<1>6. Ids(staged.added) \subseteq Ids(staged.input)
  BY DEF LostInv, StepsInv, ReplayInv, Ids
<1>7. In(Kept) \subseteq In(rows) /\ Ids(Kept) \subseteq Ids(rows)
  <2>1. In(Kept) \subseteq In(rows)
    BY <1>t DEF In
  <2> QED BY <2>1 DEF Ids
<1>8. Ids(staged.input) \subseteq Ids(rows')
  BY <1>1, <1>3 DEF LostInv, InsertedInv
<1>9. SeenIds \cup Ids(rows) \cup missing \subseteq Ids(rows') \cup missing'
  <2>1. /\ SeenIds \subseteq Ids(rows) \cup missing
        /\ Ids(rows) \cup missing \subseteq SeenIds
    BY <1>2 DEF LostInv, NothingLost, SourceInv, ByEvent, SeenIds
  <2>2. CASE FullReplay
    <3>1. SeenIds \subseteq Ids(staged.input) \cup behind
      BY <2>2 DEF LostInv, StagedInv
    <3> QED BY <1>1, <1>8, <2>1, <2>2, <3>1
  <2>3. CASE ~FullReplay
    <3>1. Kept = rows
      BY <1>t, <2>3 DEF LostInv, StepsInv, ReplayInv, Cleared
    <3> QED BY <1>1, <1>3, <2>1, <2>3, <3>1
  <2> QED BY <2>2, <2>3
<1>10. SourceInv'
  BY <1>1, <1>2, <1>3, <1>4, <1>5, <1>6, <1>7 DEF LostInv, SourceInv
<1>11. StagedInv'
  BY <1>1 DEF StagedInv, FullReplay
<1>12. InsertedInv'
  BY <1>1, <1>5, <1>9 DEF LostInv, InsertedInv
<1>13. NothingLost'
  <2>1. SeenIds' \subseteq Ids(rows)' \cup missing'
    BY <1>4, <1>5, <1>8, <1>9
  <2> QED BY <2>1 DEF NothingLost, SeenIds
<1> QED BY <1>10, <1>11, <1>12, <1>13 DEF IdentityInv

LEMMA LostPreserved == LostInv /\ [Next]_vars => IdentityInv'
<1> SUFFICES ASSUME LostInv, [Next]_vars
             PROVE  IdentityInv'
  OBVIOUS
<1>t. /\ rows \in [Event -> Nat] /\ bronze \in [Event -> Nat] /\ BatchTypes /\ StagedTypes
      /\ BatchInv /\ ReplayInv /\ IdentityInv /\ Kept \in [Event -> Nat]
      /\ pattern \in {"append", "scd1", "scd2"}
  BY KeptTyped, TypeParts, PatternAssumption DEF LostInv, StepsInv, TypeOK, IdentityInv
<1>batch. ASSUME UNCHANGED <<pattern, rows, staged, seen, behind, missing>>,
                 batch'.step = "inserted" =>
                   Ids(batch'.input) \subseteq Ids(batch'.added) \cup Ids(rows) \cup missing
          PROVE  IdentityInv'
  <2>1. SourceInv' /\ StagedInv' /\ NothingLost'
    BY <1>t, <1>batch
       DEF IdentityInv, SourceInv, StagedInv, NothingLost, ByEvent, FullReplay, SeenIds, Ids, In
  <2>2. InsertedInv'
    BY <1>t, <1>batch DEF IdentityInv, InsertedInv, Kept, Ids, In
  <2> QED BY <2>1, <2>2 DEF IdentityInv
<1>staged. ASSUME UNCHANGED <<pattern, rows, batch, seen, missing>>,
                  behind' \subseteq behind, FullReplay' => behind' = behind,
                  FullReplay' => SeenIds \subseteq Ids(staged'.input) \cup behind,
                  staged'.step = "inserted" =>
                    Ids(staged'.input) \subseteq Ids(staged'.added) \cup Ids(Kept)'
           PROVE  IdentityInv'
  <2>1. SourceInv' /\ NothingLost'
    BY <1>t, <1>staged
       DEF IdentityInv, SourceInv, NothingLost, ByEvent, SeenIds, Ids, In
  <2>2. StagedInv'
    BY <1>staged DEF StagedInv, SeenIds, Ids, In
  <2>3. InsertedInv'
    BY <1>t, <1>staged DEF IdentityInv, InsertedInv, Ids, In
  <2> QED BY <2>1, <2>2, <2>3 DEF IdentityInv
<1>current. ASSUME pattern' = pattern, pattern = "scd1", staged' = staged,
                   batch'.step # "inserted"
            PROVE  IdentityInv'
  <2>1. staged.step = "none" /\ staged'.step = "none"
    BY <1>t, <1>current DEF ReplayInv, ByEvent
  <2> QED BY <1>current, <2>1
          DEF IdentityInv, SourceInv, StagedInv, InsertedInv, NothingLost, ByEvent, FullReplay
<1>1. ASSUME NEW e \in Event, Deliver(e)
      PROVE  IdentityInv'
  BY <1>t, <1>batch, <1>1 DEF Deliver, silver, committed, IdentityInv, InsertedInv
<1>2. CASE BeginApply \/ AbandonApply
  <2>1. batch'.step # "inserted"
    BY <1>2, NoneTyped DEF BeginApply, AbandonApply, NoApply
  <2> QED BY <1>batch, <1>2, <2>1 DEF BeginApply, AbandonApply, silver, committed
<1>3. CASE InsertBatch
  <2>1. batch'.input = batch.input /\ batch'.added = Fresh(rows, batch.input)
    BY <1>t, <1>3 DEF InsertBatch, BatchTypes
  <2>2. Ids(batch.input) \subseteq Ids(Fresh(rows, batch.input)) \cup Ids(rows)
    BY <1>t, FreshRows DEF BatchTypes
  <2> QED BY <1>batch, <1>3, <2>1, <2>2 DEF InsertBatch, silver, committed
<1>4. CASE CommitAppend \/ CommitHistory
  BY <1>4, ApplyLost DEF CommitAppend, CommitHistory, ByEvent
<1>5. CASE ApplyCurrent
  BY <1>current, <1>5, NoneTyped DEF ApplyCurrent, Consume
<1>6. ASSUME NEW window \in Window[pattern], StageReplay(window)
      PROVE  IdentityInv'
  <2>1. staged' = [step |-> "staged", window |-> window, input |-> BronzeIn(window),
                   cleared |-> Nothing, added |-> Nothing]
    BY <1>6 DEF StageReplay, NoReplay
  <2>2. FullReplay' => BronzeIn(window) = bronze
    BY <1>t, <2>1, BronzeTyped DEF FullReplay
  <2>3. SeenIds \subseteq Ids(bronze)
    BY DEF LostInv, EvidenceInv, SeenIds, Ids
  <2> QED BY <1>staged, <1>6, <2>1, <2>2, <2>3 DEF StageReplay, silver, committed
<1>7. CASE ClearTables
  <2>1. /\ staged'.step = "cleared" /\ staged'.input = staged.input /\ FullReplay
    BY <1>t, <1>7 DEF ClearTables, MayClear, StagedTypes, FullReplay
  <2> QED BY <1>t, <1>staged, <1>7, <2>1
          DEF ClearTables, IdentityInv, StagedInv, silver, committed
<1>8. CASE InsertReplay
  <2>1. /\ staged'.input = staged.input /\ staged'.added = Fresh(Kept, staged.input)
        /\ staged'.cleared = staged.cleared /\ staged'.window = staged.window
        /\ staged.step # "none" /\ UNCHANGED <<pattern, rows, batch, seen, missing, behind>>
    BY <1>t, <1>8 DEF InsertReplay, StagedTypes, silver, committed
  <2>2. Ids(staged.input) \subseteq Ids(Fresh(Kept, staged.input)) \cup Ids(Kept)
    BY <1>t, FreshRows DEF StagedTypes
  <2>3. Ids(Kept)' = Ids(Kept) /\ (FullReplay' => FullReplay)
    BY <2>1 DEF Kept, Ids, In, FullReplay
  <2> QED BY <1>t, <1>staged, <2>1, <2>2, <2>3 DEF IdentityInv, StagedInv
<1>9. CASE FinishReplay
  BY <1>9, ReplayLost
<1>10. CASE AbandonReplay
  <2>1. staged'.step = "none" /\ behind' = {}
    BY <1>10, NoneTyped DEF AbandonReplay
  <2>2. ~FullReplay'
    BY <2>1 DEF FullReplay
  <2> QED BY <1>staged, <1>10, <2>1, <2>2 DEF AbandonReplay, silver
<1>11. ASSUME NEW window \in Window[pattern], ReplayCurrent(window)
       PROVE  IdentityInv'
  <2>1. batch.step # "inserted" /\ batch' = batch
    BY <1>t, <1>11 DEF ReplayCurrent, BatchInv, ByEvent
  <2> QED BY <1>current, <1>11, <2>1 DEF ReplayCurrent
<1>12. CASE UNCHANGED vars
  BY <1>t, <1>batch, <1>12 DEF vars, silver, committed, IdentityInv, InsertedInv
<1> QED BY <1>1, <1>2, <1>3, <1>4, <1>5, <1>6, <1>7, <1>8, <1>9, <1>10, <1>11, <1>12 DEF Next

\* The inductive invariant behind NothingLost.
THEOREM SilverEvidence == Spec => []LostInv
<1>1. LostInv /\ [Next]_vars => LostInv'
  BY NextTyped, StepsPreserved, EvidencePreserved, LostPreserved
     DEF LostInv, StepsInv, IdentityInv
<1> QED BY InitLost, <1>1, PTL DEF Spec

\* For any events and windows, applies and replays one after another or overlapping,
\* conflicts and abandoned transactions: whatever was committed has its identity in
\* the table or the ledger, except what an apply committed between the staging of the
\* last full replay and its end, until that is applied or replayed again.
THEOREM SilverNothingLost == Spec => []NothingLost
<1>1. LostInv => NothingLost
  BY DEF LostInv
<1> QED BY <1>1, SilverEvidence, PTL

-----------------------------------------------------------------------------
\* scd1: the row of a key is its latest event

\* An event that no other of a set follows is its latest.
LEMMA LatestIs ==
  ASSUME NEW events \in SUBSET Event, NEW e \in events,
         \A f \in events : OrderOf[f] <= OrderOf[e]
  PROVE  Latest(events) = e
<1>1. /\ Latest(events) \in events
      /\ \A f \in events : OrderOf[f] <= OrderOf[Latest(events)]
  BY LatestIsMember
<1>2. /\ OrderOf[e] <= OrderOf[Latest(events)] /\ OrderOf[Latest(events)] <= OrderOf[e]
      /\ OrderOf[e] \in Nat /\ OrderOf[Latest(events)] \in Nat
  BY <1>1, EventAssumption
<1> QED BY <1>1, <1>2, EventAssumption

\* ROW_NUMBER = 1 keeps the latest event of each key of a batch, and no other.
LEMMA BatchOf ==
  ASSUME NEW events \in SUBSET Event
  PROVE  /\ \A n \in LatestOfKeys(events) :
              /\ n \in events /\ n = Latest(OfKey(events, KeyOf[n]))
         /\ \A key \in Keys(events) :
              /\ Latest(OfKey(events, key)) \in LatestOfKeys(events)
              /\ KeyOf[Latest(OfKey(events, key))] = key
         /\ Keys(LatestOfKeys(events)) = Keys(events)
<1>1. ASSUME NEW key \in Keys(events)
      PROVE  Latest(OfKey(events, key)) \in events /\ KeyOf[Latest(OfKey(events, key))] = key
  <2>1. OfKey(events, key) \in SUBSET Event /\ OfKey(events, key) # {}
    BY DEF Keys, OfKey
  <2> QED BY <2>1, LatestIsMember DEF OfKey
<1> QED BY <1>1 DEF LatestOfKeys, Keys

\* A replay shows, of each key it touches and does not set back, the latest event
\* of all; it clears the other keys if it is full, and else leaves them alone.
LEMMA ReplayRow ==
  ASSUME LostInv, NEW window \in Window["scd1"], ReplayCurrent(window), NEW key,
         window.bounded => RowIsLatest(key) /\ key \notin Rewinds(window)
  PROVE  RowIsLatest(key)'
<1> DEFINE input == In(BronzeIn(window))
           news == LatestOfKeys(input)
           kept == IF window.bounded THEN current ELSE {}
<1>1. /\ current' = {t \in kept : KeyOf[t] \notin Keys(news)} \cup {n \in news : Alive(n)}
      /\ seen' = seen \cup input /\ "scd1" \in Pattern
  BY DEF ReplayCurrent, LostInv, StepsInv, TypeOK
<1>2. /\ seen \subseteq In(bronze) /\ input \subseteq Event /\ seen \subseteq Event
      /\ bronze \in [Event -> Nat] /\ current \subseteq Event
  BY DEF LostInv, StepsInv, EvidenceInv, TypeOK, In
<1>3. window.bounded \in BOOLEAN /\ (window.bounded => window.from \in Nat /\ window.to \in Nat)
  <2>1. window = Full \/ (window.bounded = TRUE /\ window.from \in Nat /\ window.to \in Nat)
    BY <1>1, PatternAssumption
  <2>2. Full.bounded = FALSE
    BY DEF Full
  <2> QED BY <2>1, <2>2, Zenon
<1>4. \A e \in In(bronze) :
        \/ e \in input
        \/ window.bounded /\ (TimeOf[e] < window.from \/ window.to <= TimeOf[e])
  BY <1>2, <1>3, EventAssumption DEF BronzeIn, InWindow, In
<1>9. key \in Keys(input) =>
        \A e \in OfKey(seen, key) : window.bounded => ~(window.to <= TimeOf[e])
  BY DEF Rewinds
<1>5. \A e \in input : window.bounded => window.from <= TimeOf[e]
  BY DEF BronzeIn, InWindow, In
<1>6. OfKey(seen', key) = OfKey(seen, key) \cup OfKey(input, key)
  BY <1>1 DEF OfKey
<1> HIDE DEF input
<1>7. CASE key \notin Keys(input)
  <2>1. OfKey(input, key) = {}
    BY <1>7 DEF Keys, OfKey
  <2>2. OfKey(current', key) = OfKey(kept, key)
    <3>1. key \notin Keys(news)
      BY <1>2, <1>7, BatchOf
    <3>2. \A n \in news : KeyOf[n] # key
      BY <3>1 DEF Keys
    <3> HIDE DEF news, kept
    <3> QED BY <1>1, <3>1, <3>2 DEF OfKey
  <2>3. CASE window.bounded
    BY <1>6, <2>1, <2>2, <2>3 DEF RowIsLatest, OfKey
  <2>4. CASE ~window.bounded
    <3>1. OfKey(seen, key) = {}
      BY <1>2, <1>4, <2>1, <2>4 DEF OfKey
    <3>2. OfKey(current', key) = {}
      BY <2>2, <2>4 DEF OfKey
    <3> QED BY <1>6, <2>1, <3>1, <3>2 DEF RowIsLatest, OfKey
  <2> QED BY <1>3, <2>3, <2>4
<1>8. CASE key \in Keys(input)
  <2> DEFINE n == Latest(OfKey(input, key))
  <2>1. OfKey(input, key) \in SUBSET Event /\ OfKey(input, key) # {}
    BY <1>2, <1>8 DEF Keys, OfKey
  <2>2. /\ n \in input /\ n \in Event /\ KeyOf[n] = key /\ n \in news
        /\ \A f \in OfKey(input, key) : OrderOf[f] <= OrderOf[n]
    BY <1>2, <1>8, <2>1, BatchOf, LatestIsMember
  <2>3. \A m \in news : KeyOf[m] = key => m = n
    BY <1>2, BatchOf
  <2>4. OfKey(current', key) = IF Alive(n) THEN {n} ELSE {}
    <3> HIDE DEF n
    <3>1. \A t \in kept : KeyOf[t] = key => KeyOf[t] \in Keys(news)
      BY <1>2, <1>8, BatchOf
    <3> HIDE DEF news, kept
    <3> QED BY <1>1, <2>2, <2>3, <3>1 DEF OfKey
  <2>5. ASSUME NEW f \in OfKey(seen, key)
        PROVE  OrderOf[f] <= OrderOf[n]
    <3>1. /\ f \in Event /\ KeyOf[f] = key
          /\ f \in input \/ (window.bounded /\ TimeOf[f] < window.from)
      BY <1>2, <1>4, <1>8, <1>9 DEF OfKey
    <3>2. CASE f \in input
      BY <2>2, <3>1, <3>2 DEF OfKey
    <3>3. CASE window.bounded /\ TimeOf[f] < window.from
      <4>1. TimeOf[f] < TimeOf[n]
        BY <1>3, <1>5, <2>2, <3>1, <3>3, EventAssumption
      <4>2. /\ OrderOf[n] < OrderOf[f] => TimeOf[n] <= TimeOf[f]
            /\ OrderOf[n] \in Nat /\ OrderOf[f] \in Nat /\ TimeOf[n] \in Nat /\ TimeOf[f] \in Nat
        BY <2>2, <3>1, EventAssumption
      <4> QED BY <4>1, <4>2
    <3> QED BY <3>1, <3>2, <3>3
  <2>6. /\ OfKey(seen', key) \in SUBSET Event /\ n \in OfKey(seen', key)
        /\ \A f \in OfKey(seen', key) : OrderOf[f] <= OrderOf[n]
    BY <1>2, <1>6, <2>1, <2>2, <2>5 DEF OfKey
  <2>7. Latest(OfKey(seen', key)) = n
    BY <2>6, LatestIs
  <2> HIDE DEF n
  <2> QED BY <2>4, <2>6, <2>7 DEF RowIsLatest, OfKey
<1> QED BY <1>7, <1>8

\* An apply keeps the row of a key right if no event of the key deletes it.
LEMMA ApplyRow ==
  ASSUME TypeOK, ApplyCurrent, NEW key, RowIsLatest(key),
         OfKey(seen', key) \cap Tombstone = {}
  PROVE  RowIsLatest(key)'
<1> DEFINE events == In(batch.input)
           news == LatestOfKeys(events)
           old == OfKey(seen, key)
           new == OfKey(events, key)
<1>1. /\ current' = Merge(news) /\ seen' = seen \cup events
      /\ events \subseteq Event /\ seen \subseteq Event /\ current \subseteq Event
  BY DEF ApplyCurrent, Consume, TypeOK, In
<1>2. /\ OfKey(seen', key) = old \cup new
      /\ old \in SUBSET Event /\ new \in SUBSET Event
  BY <1>1 DEF OfKey
<1> HIDE DEF events
<1>3. CASE key \notin Keys(events)
  <2>1. new = {}
    BY <1>3 DEF Keys, OfKey
  <2>2. \A n \in news : KeyOf[n] # key
    BY <1>1, <1>3, BatchOf DEF Keys
  <2>3. OfKey(current', key) = OfKey(current, key)
    BY <1>1, <2>2 DEF Merge, OfKey
  <2> QED BY <1>2, <2>1, <2>3 DEF RowIsLatest, OfKey
<1>4. CASE key \in Keys(events)
  <2> DEFINE n == Latest(new)
  <2>1. new # {}
    BY <1>4 DEF Keys, OfKey
  <2>2. /\ n \in new /\ n \in Event /\ KeyOf[n] = key /\ n \in news
        /\ \A f \in new : OrderOf[f] <= OrderOf[n]
    BY <1>1, <1>2, <1>4, <2>1, BatchOf, LatestIsMember
  <2>3. Alive(n) /\ \A m \in news : KeyOf[m] = key => m = n
    BY <1>1, <1>2, <2>2, BatchOf DEF Alive
  <2> HIDE DEF n, news
  <2>4. OfKey(current', key) =
          {t \in OfKey(current, key) : ~(OrderOf[n] > OrderOf[t])}
            \cup {m \in {n} : \A t \in OfKey(current, key) : OrderOf[n] > OrderOf[t]}
    BY <1>1, <2>2, <2>3 DEF Merge, OfKey
  <2>5. CASE old = {}
    <3>1. OfKey(current', key) = {n}
      BY <2>4, <2>5 DEF RowIsLatest
    <3>2. Latest(OfKey(seen', key)) = n
      BY <1>2, <2>2, <2>5, LatestIs
    <3> QED BY <1>2, <2>1, <2>3, <3>1, <3>2 DEF RowIsLatest, OfKey
  <2>6. CASE old # {}
    <3> DEFINE t == Latest(old)
    <3>1. t \in old /\ \A f \in old : OrderOf[f] <= OrderOf[t]
      BY <1>2, <2>6, LatestIsMember
    <3>2. Alive(t) /\ t \in Event
      BY <1>2, <3>1 DEF Alive
    <3>3. OfKey(current, key) = {t}
      BY <2>6, <3>2 DEF RowIsLatest
    <3> HIDE DEF t
    <3>4. OrderOf[n] \in Nat /\ OrderOf[t] \in Nat /\ \A f \in old \cup new : OrderOf[f] \in Nat
      BY <1>2, <2>2, <3>2, EventAssumption
    <3>5. CASE OrderOf[n] > OrderOf[t]
      <4>1. OfKey(current', key) = {n}
        BY <2>4, <3>3, <3>5
      <4>2. \A f \in old \cup new : OrderOf[f] <= OrderOf[n]
        BY <2>2, <3>1, <3>4, <3>5
      <4>3. Latest(OfKey(seen', key)) = n
        BY <1>2, <2>2, <4>2, LatestIs
      <4> QED BY <1>2, <2>1, <2>3, <4>1, <4>3 DEF RowIsLatest, OfKey
    <3>6. CASE ~(OrderOf[n] > OrderOf[t])
      <4>1. OfKey(current', key) = {t}
        BY <2>4, <3>3, <3>6
      <4>2. \A f \in old \cup new : OrderOf[f] <= OrderOf[t]
        BY <2>2, <3>1, <3>4, <3>6
      <4>3. Latest(OfKey(seen', key)) = t
        BY <1>2, <3>1, <4>2, LatestIs
      <4> QED BY <1>2, <2>1, <3>2, <4>1, <4>3 DEF RowIsLatest, OfKey
    <3> QED BY <3>5, <3>6
  <2> QED BY <2>5, <2>6
<1> QED BY <1>3, <1>4

\* Nothing of scd1 is staged.
LateInv == LateEventsHarmless /\ (pattern = "scd1" => staged.step = "none")

LEMMA SamePattern == [Next]_vars => pattern' = pattern
BY DEF Next, vars, Deliver, BeginApply, InsertBatch, AbandonApply, CommitAppend, ApplyCurrent,
       CommitHistory, Consume, StageReplay, ClearTables, InsertReplay, FinishReplay,
       AbandonReplay, ReplayCurrent

LEMMA LatePreserved ==
  ASSUME LostInv, LateInv, [Next]_vars
  PROVE  LateInv'
<1> USE DEF LateInv
<1>1. pattern' = pattern
  BY SamePattern
<1> SUFFICES ASSUME pattern = "scd1"
             PROVE  /\ \A key \in Key \ rewound' :
                         OfKey(seen', key) \cap Tombstone = {} => RowIsLatest(key)'
                    /\ staged'.step = "none"
  BY <1>1 DEF LateEventsHarmless, OfKey
<1>2. \A key \in Key \ rewound : OfKey(seen, key) \cap Tombstone = {} => RowIsLatest(key)
  BY DEF LateEventsHarmless
<1>3. ASSUME seen' = seen, current' = current, rewound' = rewound
      PROVE  \A key \in Key \ rewound' : OfKey(seen', key) \cap Tombstone = {} => RowIsLatest(key)'
  BY <1>2, <1>3 DEF RowIsLatest, OfKey
<1>4. CASE ApplyCurrent
  <2>1. seen \subseteq seen' /\ staged' = staged /\ rewound' = rewound
    BY <1>4 DEF ApplyCurrent, Consume
  <2>2. \A key \in Key :
          OfKey(seen', key) \cap Tombstone = {} => OfKey(seen, key) \cap Tombstone = {}
    BY <2>1 DEF OfKey
  <2> QED BY <1>2, <1>4, <2>1, <2>2, ApplyRow DEF LostInv, StepsInv
<1>5. ASSUME NEW window \in Window[pattern], ReplayCurrent(window)
      PROVE  /\ \A key \in Key \ rewound' :
                  OfKey(seen', key) \cap Tombstone = {} => RowIsLatest(key)'
             /\ staged'.step = "none"
  <2>1. /\ seen \subseteq seen' /\ staged' = staged
        /\ window.bounded => rewound' = rewound \cup Rewinds(window)
    BY <1>5 DEF ReplayCurrent
  <2>2. \A key \in Key :
          OfKey(seen', key) \cap Tombstone = {} => OfKey(seen, key) \cap Tombstone = {}
    BY <2>1 DEF OfKey
  <2>3. ASSUME NEW key \in Key \ rewound', OfKey(seen', key) \cap Tombstone = {}
        PROVE  RowIsLatest(key)'
    <3>1. window.bounded => RowIsLatest(key) /\ key \notin Rewinds(window)
      BY <1>2, <2>1, <2>2, <2>3
    <3> QED BY <1>5, <3>1, ReplayRow
  <2> QED BY <2>1, <2>3
<1>6. ASSUME NEW e \in Event, Deliver(e)
      PROVE  /\ seen' = seen /\ current' = current /\ staged' = staged
             /\ rewound' = rewound
  BY <1>6 DEF Deliver, silver, committed
<1>7. /\ ~CommitAppend /\ ~CommitHistory /\ ~ClearTables /\ ~InsertReplay
      /\ ~FinishReplay /\ ~AbandonReplay /\ \A window : ~StageReplay(window)
  BY DEF CommitAppend, CommitHistory, ClearTables, MayClear, InsertReplay, FinishReplay,
         AbandonReplay, StageReplay
<1>9. BeginApply \/ InsertBatch \/ AbandonApply =>
        /\ seen' = seen /\ current' = current /\ staged' = staged /\ rewound' = rewound
  BY DEF BeginApply, InsertBatch, AbandonApply, silver, committed
<1>8. UNCHANGED vars => /\ seen' = seen /\ current' = current /\ staged' = staged
                        /\ rewound' = rewound
  BY DEF vars, silver, committed
<1> QED BY <1>3, <1>4, <1>5, <1>6, <1>7, <1>8, <1>9 DEF Next

\* For any events, batches, windows and order of arrival: the row of a key no event
\* of which deletes it is its latest, unless a bounded replay has set it back since
\* the last full one.
THEOREM SilverLateHarmless == Spec => []LateEventsHarmless
<1>1. Init => LateInv
  <2> SUFFICES ASSUME Init PROVE LateInv
    OBVIOUS
  <2>1. seen = {} /\ current = {} /\ staged.step = "none"
    BY NoneTyped DEF Init
  <2> QED BY <2>1 DEF LateInv, LateEventsHarmless, RowIsLatest, OfKey
<1>2. LostInv /\ LateInv /\ [Next]_vars => LateInv'
  BY LatePreserved
<1>3. LateInv => LateEventsHarmless
  BY DEF LateInv
<1> QED BY <1>1, <1>2, <1>3, SilverEvidence, PTL DEF Spec

\* For any events, batches and windows: a full replay of scd1 makes the row of every
\* key its latest event, whatever it was, deleted keys included; a bounded one keeps
\* right every row it does not set back.
THEOREM SilverReplayKeeps == Spec => ReplayKeepsBaseline
<1>1. ASSUME LostInv, NEW window \in Window["scd1"], ReplayCurrent(window), NEW key \in Key
      PROVE  \/ RowIsLatest(key)'
             \/ window.bounded /\ (RowIsLatest(key) => key \in Rewinds(window))
  BY <1>1, ReplayRow
<1>2. LostInv /\ [Next]_vars =>
        [\A window \in Window["scd1"] : ReplayCurrent(window) =>
           \A key \in Key :
             \/ RowIsLatest(key)'
             \/ window.bounded /\ (RowIsLatest(key) => key \in Rewinds(window))]_vars
  BY <1>1
<1> QED BY <1>2, SilverEvidence, PTL DEF Spec, ReplayKeepsBaseline

-----------------------------------------------------------------------------
\* scd2: the periods say what the ledger says

\* An event is earlier than another in the order, and so no later in time.
LEMMA OrderIsTime ==
  ASSUME NEW e \in Event, NEW f \in Event, OrderOf[e] <= OrderOf[f]
  PROVE  TimeOf[e] <= TimeOf[f]
<1>1. OrderOf[e] \in Nat /\ OrderOf[f] \in Nat /\ TimeOf[e] \in Nat
  BY EventAssumption
<1>2. CASE e = f
  BY <1>1, <1>2
<1>3. CASE e # f
  <2>1. OrderOf[e] < OrderOf[f]
    BY <1>1, <1>3, EventAssumption
  <2> QED BY <2>1, EventAssumption
<1> QED BY <1>2, <1>3

\* Up to a time, the last boundary shows the state of the last event: between them
\* every event is alive and has the tracked columns of the one before it.
LEMMA LastBoundary ==
  ASSUME NEW events \in SUBSET Event, NEW last \in events,
         NEW b \in events, OrderOf[b] <= OrderOf[last],
         \A e \in events : IsBoundary(events, e) =>
           ~(OrderOf[b] < OrderOf[e] /\ OrderOf[e] <= OrderOf[last])
  PROVE  b = last \/ (Alive(b) /\ Alive(last) /\ StateOf[b] = StateOf[last])
<1> DEFINE bad == {e \in events : /\ OrderOf[b] < OrderOf[e] /\ OrderOf[e] <= OrderOf[last]
                                  /\ ~(Alive(b) /\ StateOf[e] = StateOf[b])}
<1>1. \A e \in events : OrderOf[e] \in Nat
  BY EventAssumption
<1>2. bad = {}
  <2> SUFFICES ASSUME bad # {} PROVE FALSE
    OBVIOUS
  <2> DEFINE e == Earliest(bad)
             prev == Latest(Before(events, e))
  <2>1. e \in bad /\ \A f \in bad : OrderOf[e] <= OrderOf[f]
    <3>1. bad \in SUBSET Event
      OBVIOUS
    <3> HIDE DEF bad
    <3> QED BY <3>1, EarliestIsMember
  <2>2. /\ e \in events /\ OrderOf[b] < OrderOf[e] /\ OrderOf[e] <= OrderOf[last]
        /\ ~(Alive(b) /\ StateOf[e] = StateOf[b])
    BY <2>1
  <2> HIDE DEF e
  <2>3. /\ Alive(prev) /\ StateOf[prev] = StateOf[e]
    BY <2>2 DEF IsBoundary
  <2>4. Before(events, e) \in SUBSET Event /\ b \in Before(events, e)
    BY <2>2 DEF Before
  <2>5. prev \in Before(events, e) /\ OrderOf[b] <= OrderOf[prev]
    BY <2>4, LatestIsMember
  <2>6. prev \in events /\ OrderOf[prev] < OrderOf[e] /\ OrderOf[prev] <= OrderOf[last]
    BY <1>1, <2>2, <2>5 DEF Before
  <2>7. prev # b
    BY <2>2, <2>3
  <2>8. OrderOf[b] < OrderOf[prev]
    BY <1>1, <2>5, <2>6, <2>7, EventAssumption
  <2>9. prev \notin bad
    <3> HIDE DEF bad, prev
    <3> QED BY <1>1, <2>1, <2>2, <2>6
  <2> HIDE DEF prev
  <2>10. Alive(b) /\ StateOf[prev] = StateOf[b]
    BY <2>6, <2>8, <2>9
  <2> QED BY <2>2, <2>3, <2>10
<1>3. CASE b # last
  <2>1. OrderOf[b] < OrderOf[last]
    BY <1>1, <1>3, EventAssumption
  <2>2. Alive(b) /\ StateOf[last] = StateOf[b]
    BY <1>1, <1>2, <2>1
  <2>3. ~IsBoundary(events, last)
    BY <1>1, <2>1
  <2> QED BY <2>2, <2>3 DEF IsBoundary
<1> QED BY <1>3

\* What is valid at a time shows what is known of the key at that time.
Shows(valid, known) ==
  IF known = {} \/ ~Alive(Latest(known))
    THEN valid = {}
    ELSE \E p \in valid : valid = {p} /\ StateOf[p.event] = StateOf[Latest(known)]

\* The periods of the scd2 query: at any time at most one is valid, and it shows
\* the state of the latest event up to then; after a delete none is.
LEMMA PeriodsTrue ==
  ASSUME NEW events \in SUBSET Event, NEW time \in Nat,
         NEW known, known = {e \in events : TimeOf[e] <= time},
         NEW valid, valid = {p \in PeriodsOf(events) :
                               p.from <= time /\ (p.to = Open \/ time < p.to)}
  PROVE  Shows(valid, known)
<1> DEFINE boundary == {e \in events : IsBoundary(events, e)}
           end(e) == IF After(boundary, e) = {} THEN Open
                       ELSE TimeOf[Earliest(After(boundary, e))]
           period(e) == [event |-> e, from |-> TimeOf[e], to |-> end(e)]
           IsLast(e) == TimeOf[e] <= time /\ (end(e) = Open \/ time < end(e))
<1>1. PeriodsOf(events) = {period(e) : e \in boundary \ Tombstone}
  BY DEF PeriodsOf
<1>2. boundary \subseteq events
  OBVIOUS
<1>3. valid = {period(e) : e \in {x \in boundary \ Tombstone : IsLast(x)}}
  <2>1. \A e : period(e).from = TimeOf[e] /\ period(e).to = end(e)
    OBVIOUS
  <2> HIDE DEF period, end
  <2> QED BY <1>1, <2>1
<1>4. ASSUME NEW e \in boundary
      PROVE  IsLast(e) <=>
               e \in known /\ \A f \in boundary \cap known : OrderOf[f] <= OrderOf[e]
  <2>1. e \in Event /\ OrderOf[e] \in Nat /\ boundary \in SUBSET Event
    BY <1>2, EventAssumption
  <2>2. CASE After(boundary, e) = {}
    <3>1. \A f \in boundary : OrderOf[f] \in Nat /\ ~(OrderOf[f] > OrderOf[e])
      BY <2>1, <2>2, EventAssumption DEF After
    <3> QED BY <1>2, <2>1, <2>2, <3>1
  <2>3. CASE After(boundary, e) # {}
    <3> DEFINE next == Earliest(After(boundary, e))
    <3>1. After(boundary, e) \in SUBSET Event
      BY <2>1 DEF After
    <3>2. next \in After(boundary, e) /\ \A f \in After(boundary, e) : OrderOf[next] <= OrderOf[f]
      BY <2>3, <3>1, EarliestIsMember
    <3>3. next \in boundary /\ next \in Event /\ OrderOf[next] > OrderOf[e]
      BY <2>1, <3>2 DEF After
    <3>4. /\ TimeOf[next] \in Nat /\ OrderOf[next] \in Nat
          /\ end(e) = TimeOf[next] /\ end(e) # Open
      BY <2>3, <3>3, EventAssumption DEF Open
    <3> HIDE DEF next, end
    <3>5. CASE time < TimeOf[next]
      <4>1. ASSUME NEW f \in boundary \cap known, OrderOf[f] > OrderOf[e]
            PROVE  FALSE
        <5>1. f \in Event /\ f \in After(boundary, e) /\ TimeOf[f] <= time /\ TimeOf[f] \in Nat
          BY <2>1, <4>1, EventAssumption DEF After
        <5>2. TimeOf[next] <= TimeOf[f]
          BY <3>2, <3>3, <5>1, OrderIsTime
        <5> QED BY <3>4, <3>5, <5>1, <5>2
      <4>2. \A f \in boundary \cap known : OrderOf[f] <= OrderOf[e]
        BY <2>1, <4>1, EventAssumption
      <4> QED BY <1>2, <3>4, <3>5, <4>2
    <3>6. CASE ~(time < TimeOf[next])
      <4>1. next \in boundary \cap known
        BY <1>2, <3>3, <3>4, <3>6
      <4>2. ~(OrderOf[next] <= OrderOf[e])
        BY <2>1, <3>3, <3>4
      <4> QED BY <3>4, <3>6, <4>1, <4>2
    <3> QED BY <3>5, <3>6
  <2> QED BY <2>2, <2>3
<1> HIDE DEF IsLast, end
<1>5. CASE known = {}
  <2>1. \A e \in boundary : ~IsLast(e)
    BY <1>4, <1>5
  <2>2. valid = {}
    BY <1>3, <2>1
  <2> QED BY <1>5, <2>2 DEF Shows
<1>6. CASE known # {}
  <2> DEFINE last == Latest(known)
             first == Earliest(events)
             b == Latest(boundary \cap known)
  <2>1. known \in SUBSET Event /\ known \subseteq events /\ events # {}
    BY <1>6
  <2>2. last \in known /\ \A e \in known : OrderOf[e] <= OrderOf[last]
    BY <1>6, <2>1, LatestIsMember
  <2>3. first \in events /\ \A e \in events : OrderOf[first] <= OrderOf[e]
    BY <2>1, EarliestIsMember
  <2>4. first \in boundary
    <3>1. \A e \in events : OrderOf[e] \in Nat
      BY EventAssumption
    <3>2. Before(events, first) = {}
      BY <2>3, <3>1 DEF Before
    <3> QED BY <2>3, <3>2 DEF IsBoundary
  <2>5. first \in known
    <3>1. TimeOf[first] <= TimeOf[last] /\ TimeOf[last] <= time
      BY <2>1, <2>2, <2>3, OrderIsTime
    <3>2. TimeOf[first] \in Nat /\ TimeOf[last] \in Nat
      BY <2>1, <2>2, <2>3, EventAssumption
    <3> QED BY <2>3, <3>1, <3>2
  <2>6. boundary \cap known \in SUBSET Event /\ boundary \cap known # {}
    BY <2>1, <2>4, <2>5
  <2>7. /\ b \in boundary \cap known
        /\ \A f \in boundary \cap known : OrderOf[f] <= OrderOf[b]
    <3> HIDE DEF boundary
    <3> QED BY <2>6, LatestIsMember
  <2> HIDE DEF b, first, last
  <2>8. \A e \in boundary : IsLast(e) <=> e = b
    <3>1. ASSUME NEW e \in boundary, IsLast(e)
          PROVE  e = b
      <4>1. e \in known /\ OrderOf[b] <= OrderOf[e] /\ OrderOf[e] <= OrderOf[b]
        BY <1>4, <2>7, <3>1
      <4>2. e \in Event /\ b \in Event /\ OrderOf[e] \in Nat /\ OrderOf[b] \in Nat
        BY <2>1, <2>7, <4>1, EventAssumption
      <4> QED BY <4>1, <4>2, EventAssumption
    <3> QED BY <1>4, <2>7, <3>1
  <2>9. b = last \/ (Alive(b) /\ Alive(last) /\ StateOf[b] = StateOf[last])
    <3>1. b \in events /\ last \in events /\ OrderOf[b] <= OrderOf[last]
      BY <2>1, <2>2, <2>7
    <3>2. ASSUME NEW e \in events, IsBoundary(events, e),
                 OrderOf[b] < OrderOf[e], OrderOf[e] <= OrderOf[last]
          PROVE  FALSE
      <4>1. TimeOf[e] <= TimeOf[last] /\ TimeOf[last] <= time
            /\ TimeOf[e] \in Nat /\ TimeOf[last] \in Nat
        BY <2>1, <2>2, <3>2, OrderIsTime, EventAssumption
      <4>2. e \in boundary \cap known
        BY <3>2, <4>1
      <4> QED BY <2>6, <2>7, <3>2, <4>2, EventAssumption
    <3> QED BY <3>1, <3>2, LastBoundary
  <2>10. CASE Alive(last)
    <3>1. Alive(b) /\ StateOf[b] = StateOf[last]
      BY <2>9, <2>10
    <3>2. {x \in boundary \ Tombstone : IsLast(x)} = {b}
      BY <2>7, <2>8, <3>1 DEF Alive
    <3>3. valid = {period(b)} /\ period(b).event = b
      BY <1>3, <3>2
    <3> QED BY <1>6, <2>10, <3>1, <3>3 DEF last, Shows
  <2>11. CASE ~Alive(last)
    <3>1. {x \in boundary \ Tombstone : IsLast(x)} = {}
      BY <2>8, <2>9, <2>11 DEF Alive
    <3> QED BY <1>3, <2>11, <3>1 DEF last, Shows
  <2> QED BY <2>10, <2>11
<1> QED BY <1>5, <1>6

\* The history of a key is what the query makes of its rows in the ledger.
PeriodsFor(key) == {p \in history : KeyOf[p.event] = key}
HistInv ==
  pattern = "scd2" => \A key \in Key : PeriodsFor(key) = PeriodsOf(OfKey(In(rows), key))

\* A rebuild replaces the periods of the affected keys, and of no other.
LEMMA RebuildKey ==
  ASSUME NEW periods, NEW ledger, NEW keys, NEW key
  PROVE  {p \in Rebuild(periods, ledger, keys) : KeyOf[p.event] = key} =
           IF key \in keys THEN PeriodsOf(OfKey(In(ledger), key))
                           ELSE {p \in periods : KeyOf[p.event] = key}
<1>1. ASSUME NEW k, NEW p \in PeriodsOf(OfKey(In(ledger), k))
      PROVE  KeyOf[p.event] = k
  <2> DEFINE events == OfKey(In(ledger), k)
             boundary == {e \in events : IsBoundary(events, e)}
             end(e) == IF After(boundary, e) = {} THEN Open
                         ELSE TimeOf[Earliest(After(boundary, e))]
  <2>1. PeriodsOf(events) =
          {[event |-> e, from |-> TimeOf[e], to |-> end(e)] : e \in boundary \ Tombstone}
    BY DEF PeriodsOf
  <2>2. boundary \subseteq events
    OBVIOUS
  <2> HIDE DEF boundary, end
  <2>3. PICK e \in boundary : p = [event |-> e, from |-> TimeOf[e], to |-> end(e)]
    BY <1>1, <2>1
  <2> QED BY <2>2, <2>3 DEF OfKey
<1> QED BY <1>1 DEF Rebuild

\* A batch adds rows of its own keys only.
LEMMA OtherKeys ==
  ASSUME NEW table \in [Event -> Nat], NEW added \in [Event -> Nat], NEW bag,
         In(added) \subseteq In(bag), NEW key, key \notin Keys(In(bag))
  PROVE  OfKey(In(Plus(table, added)), key) = OfKey(In(table), key)
<1>1. In(Plus(table, added)) = In(table) \cup In(added)
  BY PlusRows
<1>2. OfKey(In(added), key) = {}
  BY DEF Keys, OfKey
<1> QED BY <1>1, <1>2 DEF OfKey

LEMMA HistPreserved ==
  ASSUME StepsInv, HistInv, [Next]_vars
  PROVE  HistInv'
<1>1. pattern' = pattern
  BY SamePattern
<1> SUFFICES ASSUME pattern = "scd2", NEW key \in Key
             PROVE  {p \in history' : KeyOf[p.event] = key} = PeriodsOf(OfKey(In(rows'), key))
  BY <1>1 DEF HistInv, PeriodsFor
<1>2. /\ PeriodsFor(key) = PeriodsOf(OfKey(In(rows), key))
      /\ rows \in [Event -> Nat] /\ BatchTypes /\ StagedTypes /\ BatchInv /\ ReplayInv
      /\ Kept \in [Event -> Nat]
      /\ staged.cleared = Nothing => Kept = rows
      /\ staged.cleared = rows => Kept = Nothing
  BY KeptTyped, TypeParts DEF HistInv, StepsInv, TypeOK
<1>3. CASE CommitHistory
  <2>1. /\ rows' = Plus(rows, batch.added)
        /\ history' = Rebuild(history, rows', Keys(In(batch.input)))
    BY <1>3 DEF CommitHistory
  <2>2. batch.added \in [Event -> Nat] /\ In(batch.added) \subseteq In(batch.input)
    BY <1>2 DEF BatchTypes, BatchInv
  <2> QED BY <1>2, <2>1, <2>2, RebuildKey, OtherKeys DEF PeriodsFor
<1>4. CASE FinishReplay
  <2> DEFINE old == IF FullReplay THEN {} ELSE history
  <2>1. /\ rows' = Plus(Kept, staged.added)
        /\ history' = Rebuild(old, rows', Keys(In(staged.input)))
    BY <1>4 DEF FinishReplay
  <2>2. staged.added \in [Event -> Nat] /\ In(staged.added) \subseteq In(staged.input)
    BY <1>2 DEF StagedTypes, ReplayInv
  <2>3. {p \in old : KeyOf[p.event] = key} = PeriodsOf(OfKey(In(Kept), key))
    <3>1. CASE FullReplay
      <4>1. Kept = Nothing
        BY <1>2, <1>4, <3>1 DEF FinishReplay, Cleared, ReplayInv
      <4>2. OfKey(In(Nothing), key) = {}
        BY NothingTyped DEF OfKey
      <4>3. PeriodsOf({}) = {}
        BY DEF PeriodsOf
      <4> QED BY <3>1, <4>1, <4>2, <4>3
    <3>2. CASE ~FullReplay
      <4>1. Kept = rows
        BY <1>2, <3>2 DEF Cleared, ReplayInv
      <4> QED BY <1>2, <3>2, <4>1 DEF PeriodsFor
    <3> QED BY <3>1, <3>2
  <2> HIDE DEF old
  <2> QED BY <1>2, <2>1, <2>2, <2>3, RebuildKey, OtherKeys
<1>5. ASSUME rows' = rows, history' = history
      PROVE  {p \in history' : KeyOf[p.event] = key} = PeriodsOf(OfKey(In(rows'), key))
  BY <1>2, <1>5 DEF PeriodsFor
<1>6. ~CommitAppend /\ ~ApplyCurrent /\ \A window : ~ReplayCurrent(window)
  BY DEF CommitAppend, ApplyCurrent, ReplayCurrent
<1>7. /\ \A e \in Event : Deliver(e) => rows' = rows /\ history' = history
      /\ \A window : StageReplay(window) => rows' = rows /\ history' = history
      /\ BeginApply \/ InsertBatch \/ AbandonApply => rows' = rows /\ history' = history
      /\ ClearTables \/ InsertReplay \/ AbandonReplay => rows' = rows /\ history' = history
      /\ UNCHANGED vars => rows' = rows /\ history' = history
  BY DEF Deliver, StageReplay, BeginApply, InsertBatch, AbandonApply, ClearTables,
         InsertReplay, AbandonReplay, vars, silver
<1> QED BY <1>3, <1>4, <1>5, <1>6, <1>7 DEF Next

\* For any events, batches, windows and order of arrival: the scd2 history of a key
\* has, at every time, one period that shows the state of the latest event of the
\* ledger up to then, or none if there is no event or the latest one deletes.
THEOREM SilverHistoryTrue == Spec => []HistoryIsTrue
<1>1. Init => HistInv
  <2> SUFFICES ASSUME Init, NEW key \in Key PROVE PeriodsFor(key) = PeriodsOf(OfKey(In(rows), key))
    BY DEF HistInv
  <2>1. history = {} /\ OfKey(In(rows), key) = {}
    BY NothingTyped DEF Init, OfKey
  <2>2. PeriodsOf({}) = {}
    BY DEF PeriodsOf
  <2> QED BY <2>1, <2>2 DEF PeriodsFor
<1>2. StepsInv /\ HistInv /\ [Next]_vars => HistInv'
  BY HistPreserved
<1>3. HistInv => HistoryIsTrue
  <2> SUFFICES ASSUME HistInv, pattern = "scd2", NEW key \in Key,
                      NEW time \in {TimeOf[e] : e \in Event}
               PROVE  Shows(ValidAt(time, key), KnownAt(time, key))
    BY DEF HistoryIsTrue, Shows
  <2> DEFINE events == OfKey(In(rows), key)
  <2>1. events \in SUBSET Event /\ time \in Nat
    BY EventAssumption DEF OfKey, In
  <2>2. KnownAt(time, key) = {e \in events : TimeOf[e] <= time}
    BY DEF KnownAt
  <2>3. PeriodsFor(key) = PeriodsOf(events)
    BY DEF HistInv
  <2> HIDE DEF events
  <2>4. ValidAt(time, key) =
          {p \in PeriodsOf(events) : p.from <= time /\ (p.to = Open \/ time < p.to)}
    BY <2>3 DEF ValidAt, PeriodsFor
  <2> DEFINE known == KnownAt(time, key)
             valid == ValidAt(time, key)
  <2>5. /\ known = {e \in events : TimeOf[e] <= time}
        /\ valid = {p \in PeriodsOf(events) : p.from <= time /\ (p.to = Open \/ time < p.to)}
    BY <2>2, <2>4
  <2> HIDE DEF known, valid
  <2>6. Shows(valid, known)
    BY <2>1, <2>5, PeriodsTrue
  <2> QED BY <2>6 DEF known, valid
<1> QED BY <1>1, <1>2, <1>3, StepsHold, PTL DEF Spec

=============================================================================
