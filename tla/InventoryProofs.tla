---------------------------- MODULE InventoryProofs ---------------------------
(***************************************************************************)
(* For any products, branches, quantities, deltas, feed levels and create  *)
(* requests: the promise of Inventory holds; and the row locks and         *)
(* transactions of the repository implement it, for any number of          *)
(* concurrent callers.                                                     *)
(***************************************************************************)
EXTENDS InventoryTx, TLAPS


(***************************************************************************)
(* The aggregate and the two SQL formulas, on one row.                     *)
(***************************************************************************)

(* An accepted command yields a row again, and a sound one.                *)
LEMMA ApplyFacts ==
    ASSUME NEW row \in Row, NEW cmd \in Command(Int, Int), Accepts(row, cmd)
    PROVE  /\ Apply(row, cmd) \in Row
           /\ Sound(row) /\ Sound(Apply(row, cmd))
           /\ Apply(row, cmd).reserved = row.reserved + HeldChange(cmd)
           /\ HeldChange(cmd) \in Int
  BY DEF Apply, Accepts, Row, Command, HeldChange, Sound,
         CanReserve, CanRelease, CanAdjust, Available

LEMMA CommandsTyped == Commands \subseteq Command(Int, Int)
  BY InventoryAssumption DEF Commands, Command

LEMMA FeedLevels == ASSUME NEW levels \in Feeds PROVE \A r \in DOMAIN levels : levels[r] \in Nat
<1>1. PICK S \in SUBSET RowIds : levels \in [S -> Levels]
  BY DEF Feeds
<1>2. Levels \subseteq Nat
  BY InventoryAssumption
<1> QED
  BY <1>1, <1>2

(* The feed's upsert yields a sound row and leaves the reservation alone.  *)
LEMMA FeedWriteFacts ==
    ASSUME NEW row \in Row \cup {NoRow}, NEW level \in Nat
    PROVE  /\ FeedWrite(row, level) \in Row
           /\ Sound(FeedWrite(row, level))
           /\ row = NoRow => FeedWrite(row, level).reserved = 0
           /\ row # NoRow => FeedWrite(row, level).reserved = row.reserved
  BY NoRowAssumption DEF FeedWrite, Row, Sound

(* So does delisting.                                                      *)
LEMMA DelistedFacts ==
    ASSUME NEW row \in Row
    PROVE  /\ Delisted(row) \in Row
           /\ Sound(Delisted(row))
           /\ Delisted(row).reserved = row.reserved
  BY DEF Delisted, Row, Sound

-------------------------------------------------------------------------------
(***************************************************************************)
(* Inventory                                                               *)
(***************************************************************************)

(* A row not there yet holds nothing for anybody: what makes               *)
(* ReservedIsHeld inductive when the feed inserts the row.                 *)
InventoryInv ==
    /\ TypeOK
    /\ ReservedIsHeld
    /\ \A r \in RowIds : rows[r] = NoRow => held[r] = 0

LEMMA InventoryInit == Init => InventoryInv
  BY DEF Init, InventoryInv, TypeOK, ReservedIsHeld

LEMMA MutateKeeps ==
    ASSUME InventoryInv, NEW r \in RowIds, NEW cmd \in Command(Int, Int), Mutate(r, cmd)
    PROVE  InventoryInv'
  <1> USE DEF InventoryInv, TypeOK, ReservedIsHeld
  <1>1. rows[r] \in Row /\ Accepts(rows[r], cmd)
    BY DEF Mutate
  <1>2. /\ Apply(rows[r], cmd) \in Row
        /\ Apply(rows[r], cmd).reserved = rows[r].reserved + HeldChange(cmd)
        /\ HeldChange(cmd) \in Int
    BY <1>1, ApplyFacts
  <1>3. QED
    BY <1>1, <1>2, NoRowAssumption DEF Mutate, Row

LEMMA UpsertKeeps ==
    ASSUME InventoryInv, NEW levels \in Feeds, BulkUpsert(levels)
    PROVE  InventoryInv'
  <1> USE DEF InventoryInv, TypeOK, ReservedIsHeld
  <1>1. \A r \in DOMAIN levels : levels[r] \in Nat
    BY FeedLevels
  <1>2. \A r \in DOMAIN levels \cap RowIds :
            /\ FeedWrite(rows[r], levels[r]) \in Row
            /\ rows[r] = NoRow => FeedWrite(rows[r], levels[r]).reserved = 0
            /\ rows[r] # NoRow => FeedWrite(rows[r], levels[r]).reserved = rows[r].reserved
    BY <1>1, FeedWriteFacts
  <1>3. QED
    BY <1>2, NoRowAssumption DEF BulkUpsert

LEMMA ZeroOutKeeps ==
    ASSUME InventoryInv, NEW delisted \in SUBSET RowIds, ZeroOut(delisted)
    PROVE  InventoryInv'
  <1> USE DEF InventoryInv, TypeOK, ReservedIsHeld
  <1>1. \A r \in delisted : rows[r] \in Row
    BY DEF ZeroOut, Delistable
  <1>2. \A r \in delisted :
            Delisted(rows[r]) \in Row /\ Delisted(rows[r]).reserved = rows[r].reserved
    BY <1>1, DelistedFacts
  <1>3. QED
    BY <1>1, <1>2, NoRowAssumption DEF ZeroOut

LEMMA InventoryStep == InventoryInv /\ [Next]_vars => InventoryInv'
  <1> SUFFICES ASSUME InventoryInv, [Next]_vars PROVE InventoryInv'
    OBVIOUS
  <1>1. ASSUME NEW r \in RowIds, NEW row \in CreateInputs, Create(r, row)
        PROVE  InventoryInv'
    <2>1. row \in Row
      BY InventoryAssumption
    <2>2. QED
      BY <1>1, <2>1, NoRowAssumption DEF Create, Row, InventoryInv, TypeOK, ReservedIsHeld
  <1>2. CASE UNCHANGED vars
    BY <1>2 DEF vars, InventoryInv, TypeOK, ReservedIsHeld
  <1>3. QED
    BY <1>1, <1>2, MutateKeeps, UpsertKeeps, ZeroOutKeeps, CommandsTyped DEF Next

LEMMA InventoryInvariant == Spec => []InventoryInv
  <1>1. QED
    BY InventoryInit, InventoryStep, PTL DEF Spec

(* No reservation or release is lost, and none is counted twice.           *)
THEOREM InventoryReservedIsHeld == Spec => []ReservedIsHeld
  <1>1. InventoryInv => ReservedIsHeld
    BY DEF InventoryInv
  <1>2. QED
    BY <1>1, InventoryInvariant, PTL

(* One step, seen from one row: a sound row stays there and stays sound,   *)
(* and an unsound one is only ever repaired by the feed.                   *)
LEMMA RowStep ==
    ASSUME InventoryInv, [Next]_vars, NEW r \in RowIds, rows[r] # NoRow
    PROVE  /\ Sound(rows[r]) => rows'[r] # NoRow /\ Sound(rows'[r])
           /\ ~Sound(rows[r]) /\ rows'[r] # rows[r] =>
                 Sound(rows'[r]) /\ rows'[r].reserved = rows[r].reserved
  <1> USE DEF InventoryInv, TypeOK
  <1>0. rows[r] \in Row
    OBVIOUS
  <1>1. ASSUME NEW q \in RowIds, NEW row \in CreateInputs, Create(q, row)
        PROVE  rows'[r] = rows[r]
    BY <1>1 DEF Create
  <1>2. ASSUME NEW q \in RowIds, NEW cmd \in Commands, Mutate(q, cmd)
        PROVE  \/ rows'[r] = rows[r]
               \/ Sound(rows[r]) /\ rows'[r] \in Row /\ Sound(rows'[r])
    <2>1. rows[q] \in Row /\ Accepts(rows[q], cmd)
      BY <1>2 DEF Mutate
    <2>2. Apply(rows[q], cmd) \in Row /\ Sound(rows[q]) /\ Sound(Apply(rows[q], cmd))
      BY <2>1, ApplyFacts, CommandsTyped
    <2>3. QED
      BY <1>2, <2>2 DEF Mutate
  <1>3. ASSUME NEW levels \in Feeds, BulkUpsert(levels)
        PROVE  \/ rows'[r] = rows[r]
               \/ rows'[r] \in Row /\ Sound(rows'[r]) /\ rows'[r].reserved = rows[r].reserved
    <2>1. \A q \in DOMAIN levels : levels[q] \in Nat
      BY FeedLevels
    <2>2. r \in DOMAIN levels =>
              /\ FeedWrite(rows[r], levels[r]) \in Row
              /\ Sound(FeedWrite(rows[r], levels[r]))
              /\ FeedWrite(rows[r], levels[r]).reserved = rows[r].reserved
      BY <2>1, FeedWriteFacts
    <2>3. QED
      BY <1>3, <2>2 DEF BulkUpsert
  <1>4. ASSUME NEW delisted \in SUBSET RowIds, ZeroOut(delisted)
        PROVE  \/ rows'[r] = rows[r]
               \/ rows'[r] \in Row /\ Sound(rows'[r]) /\ rows'[r].reserved = rows[r].reserved
    BY <1>0, <1>4, DelistedFacts DEF ZeroOut
  <1>5. CASE UNCHANGED vars
    BY <1>5 DEF vars
  <1>6. QED
    BY <1>0, <1>1, <1>2, <1>3, <1>4, <1>5, NoRowAssumption DEF Next

(* Once the invariant of the aggregate holds of a row, no writer breaks it.*)
THEOREM InventorySoundStaysSound == Spec => SoundStaysSound
  <1>1. InventoryInv /\ [Next]_vars =>
          [\A r \in RowIds : rows[r] # NoRow /\ Sound(rows[r])
                => rows'[r] # NoRow /\ Sound(rows'[r])]_vars
    BY RowStep
  <1>2. QED
    BY <1>1, InventoryInvariant, PTL DEF Spec, SoundStaysSound

(* A row seeded unsound is frozen until the feed repairs it.               *)
THEOREM InventoryUnsoundOnlyRepaired == Spec => UnsoundOnlyRepaired
  <1>1. InventoryInv /\ [Next]_vars =>
          [\A r \in RowIds :
              rows[r] # NoRow /\ ~Sound(rows[r]) /\ rows'[r] # rows[r]
                 => Sound(rows'[r]) /\ rows'[r].reserved = rows[r].reserved]_vars
    BY RowStep
  <1>2. QED
    BY <1>1, InventoryInvariant, PTL DEF Spec, UnsoundOnlyRepaired

(* The invariant the aggregate declares holds of the whole table exactly   *)
(* because every create request is sound: that is the one way in that      *)
(* nothing guards.                                                         *)
THEOREM InventoryAllSound ==
    ASSUME SoundInputs
    PROVE  Spec => []AllSound
  <1>1. Init => AllSound
    BY DEF Init, AllSound
  <1>2. InventoryInv /\ AllSound /\ [Next]_vars => AllSound'
    <2> SUFFICES ASSUME InventoryInv, AllSound, [Next]_vars,
                        NEW r \in RowIds, rows'[r] # NoRow
                 PROVE  Sound(rows'[r])
      BY DEF AllSound
    <2>1. CASE rows[r] # NoRow
      BY <2>1, RowStep DEF AllSound
    <2>2. CASE rows[r] = NoRow
      <3>1. ASSUME NEW q \in RowIds, NEW row \in CreateInputs, Create(q, row)
            PROVE  Sound(rows'[r])
        BY <2>2, <3>1 DEF Create, SoundInputs, InventoryInv, TypeOK
      <3>2. ASSUME NEW q \in RowIds, NEW cmd \in Commands, Mutate(q, cmd)
            PROVE  FALSE
        BY <2>2, <3>2 DEF Mutate, InventoryInv, TypeOK
      <3>3. ASSUME NEW levels \in Feeds, BulkUpsert(levels)
            PROVE  Sound(rows'[r])
        <4>1. \A q \in DOMAIN levels : levels[q] \in Nat
          BY FeedLevels
        <4>2. r \in DOMAIN levels => Sound(FeedWrite(rows[r], levels[r]))
          BY <2>2, <4>1, FeedWriteFacts
        <4>3. QED
          BY <2>2, <3>3, <4>2 DEF BulkUpsert
      <3>4. ASSUME NEW delisted \in SUBSET RowIds, ZeroOut(delisted)
            PROVE  FALSE
        BY <2>2, <3>4 DEF ZeroOut, Delistable
      <3>5. CASE UNCHANGED vars
        BY <2>2, <3>5 DEF vars
      <3>6. QED
        BY <3>1, <3>2, <3>3, <3>4, <3>5 DEF Next
    <2>3. QED
      BY <2>1, <2>2
  <1>3. QED
    BY <1>1, <1>2, InventoryInvariant, PTL DEF Spec

-------------------------------------------------------------------------------
(* The repository: InventoryTx *)


Holding == {"joining", "locked", "written"}

(* The lock discipline: who has read or written a row holds its lock.      *)
LocksHeld ==
    /\ \A c \in Callers : call[c].pc \in Holding => lock[call[c].row] = c
    /\ feed.pc \in {"upsert", "delist"} =>
          \A r \in RowIds : feed.pending[r] # NoRow => lock[r] = Sync

(* What the feed has written and not committed still follows from the rows *)
(* as they are committed.                                                  *)
FeedIsCurrent ==
    /\ feed.pc = "upsert" =>
          /\ feed.todo \subseteq DOMAIN feed.levels
          /\ \A r \in RowIds :
                IF r \in DOMAIN feed.levels \ feed.todo
                THEN feed.pending[r] = FeedWrite(rows[r], feed.levels[r])
                ELSE feed.pending[r] = NoRow
    /\ feed.pc = "delist" =>
          \A r \in RowIds : feed.pending[r] # NoRow =>
              Delistable(rows[r]) /\ feed.pending[r] = Delisted(rows[r])

(* A row that is locked is there: none is ever deleted.                    *)
RowThere == \A c \in Callers : call[c].pc = "joining" => rows[call[c].row] # NoRow

(* The model's own bound on the stock of a row.                             *)
WithinBound ==
    \A c \in Callers : call[c].pc = "written" => call[c].copy.stock <= MaxStock

(* NoLostUpdate is not inductive alone: it needs to know that a row whose  *)
(* lock is held is not committed to by anybody else.                       *)
TxInv ==
    /\ InventoryInv
    /\ TxTypeOK
    /\ LocksHeld
    /\ NoLostUpdate
    /\ FeedIsCurrent
    /\ RowThere
    /\ WithinBound

LEMMA TxInitInv == TxInit => TxInv
  <1> SUFFICES ASSUME TxInit PROVE TxInv
    OBVIOUS
  <1>1. InventoryInv
    BY InventoryInit DEF TxInit
  <1>2. TxTypeOK /\ LocksHeld /\ NoLostUpdate /\ FeedIsCurrent /\ RowThere /\ WithinBound
    BY <1>1 DEF TxInit, InventoryInv, TxTypeOK, LocksHeld, Holding, NoLostUpdate, FeedIsCurrent,
                RowThere, WithinBound, Call, NoCall, FeedRun, NoFeed
  <1>3. QED
    BY <1>1, <1>2 DEF TxInv

-------------------------------------------------------------------------------
(***************************************************************************)
(* The refinement: the commits are steps of Inventory, and nothing else    *)
(* changes what is committed.                                              *)
(***************************************************************************)

LEMMA CommitCallIsMutate ==
    ASSUME TxInv, NEW c \in Callers, CommitCall(c)
    PROVE  \E r \in RowIds, cmd \in Commands : Mutate(r, cmd)
  <1> DEFINE r == call[c].row
             cmd == call[c].cmd
  <1>1. r \in RowIds /\ cmd \in Commands
    BY DEF TxInv, TxTypeOK, Call, NoCall, CommitCall
  <1>2. /\ rows[r] # NoRow
        /\ Accepts(rows[r], cmd)
        /\ call[c].copy = Apply(rows[r], cmd)
        /\ Apply(rows[r], cmd).stock <= MaxStock
    BY DEF TxInv, NoLostUpdate, WithinBound, CommitCall
  <1>3. Mutate(r, cmd)
    BY <1>1, <1>2 DEF CommitCall, Mutate
  <1>4. QED
    BY <1>1, <1>3

LEMMA LevelIsNat ==
    ASSUME NEW f \in Feeds, NEW q \in DOMAIN f
    PROVE  f[q] \in Nat
  <1>1. PICK S \in SUBSET RowIds : f \in [S -> Levels]
    BY DEF Feeds
  <1>2. f[q] \in Levels
    BY <1>1
  <1>3. QED
    BY <1>2, InventoryAssumption

(* A row the feed has upserted has something pending.                      *)
LEMMA FeedTouches ==
    ASSUME TxInv, feed.pc = "upsert", NEW r \in RowIds,
           r \in DOMAIN feed.levels \ feed.todo
    PROVE  feed.pending[r] # NoRow
  <1>1. feed.levels \in Feeds
    BY DEF TxInv, TxTypeOK, FeedRun, NoFeed
  <1>2. feed.levels[r] \in Nat
    BY <1>1, LevelIsNat
  <1>3. FeedWrite(rows[r], feed.levels[r]) \in Row
    BY <1>2, FeedWriteFacts DEF TxInv, InventoryInv, TypeOK
  <1>4. QED
    BY <1>3, NoRowAssumption DEF TxInv, FeedIsCurrent

LEMMA FeedCommitIsBulkUpsert ==
    ASSUME TxInv, FeedCommit
    PROVE  \E levels \in Feeds : BulkUpsert(levels)
  <1>1. feed.levels \in Feeds
    BY DEF TxInv, TxTypeOK, FeedRun, NoFeed, FeedCommit
  <1>2. ASSUME NEW r \in RowIds
        PROVE  Committed[r] = IF r \in DOMAIN feed.levels
                              THEN FeedWrite(rows[r], feed.levels[r]) ELSE rows[r]
    <2>1. CASE r \in DOMAIN feed.levels
      <3>1. feed.levels[r] \in Nat
        BY <1>1, <2>1, FeedLevels
      <3>2. FeedWrite(rows[r], feed.levels[r]) # NoRow
        BY <1>2, <3>1, FeedWriteFacts, NoRowAssumption DEF TxInv, InventoryInv, TypeOK
      <3>3. feed.pending[r] = FeedWrite(rows[r], feed.levels[r])
        BY <1>2, <2>1 DEF TxInv, FeedIsCurrent, FeedCommit
      <3>4. QED
        BY <1>2, <2>1, <3>2, <3>3 DEF Committed
    <2>2. CASE r \notin DOMAIN feed.levels
      BY <1>2, <2>2 DEF TxInv, FeedIsCurrent, FeedCommit, Committed
    <2>3. QED
      BY <2>1, <2>2
  <1>3. BulkUpsert(feed.levels)
    BY <1>2 DEF FeedCommit, BulkUpsert, Committed
  <1>4. QED
    BY <1>1, <1>3

LEMMA DelistCommitIsZeroOut ==
    ASSUME TxInv, DelistCommit
    PROVE  \E delisted \in SUBSET RowIds : ZeroOut(delisted)
  <1> DEFINE delisted == {r \in RowIds : feed.pending[r] # NoRow}
  <1>1. \A r \in delisted : Delistable(rows[r]) /\ feed.pending[r] = Delisted(rows[r])
    BY DEF TxInv, FeedIsCurrent, DelistCommit
  <1>2. ZeroOut(delisted)
    BY <1>1 DEF DelistCommit, ZeroOut, Committed
  <1>3. QED
    BY <1>2

LEMMA TxStepIsStep == TxInv /\ [TxNext]_txVars => [Next]_vars
  <1> SUFFICES ASSUME TxInv, [TxNext]_txVars PROVE [Next]_vars
    OBVIOUS
  <1>1. ASSUME NEW c \in Callers, CommitCall(c) PROVE Next
    BY <1>1, CommitCallIsMutate DEF Next
  <1>2. ASSUME NEW r \in RowIds, NEW row \in CreateInputs, InsertRow(r, row) PROVE Next
    BY <1>2 DEF InsertRow, Next
  <1>3. CASE FeedCommit
    BY <1>3, FeedCommitIsBulkUpsert DEF Next
  <1>4. CASE DelistCommit
    BY <1>4, DelistCommitIsZeroOut DEF Next
  <1>5. ASSUME NEW c \in Callers,
               \/ \E r \in RowIds, cmd \in Commands : Ask(c, r, cmd)
               \/ LockRow(c) \/ LockProduct(c) \/ WriteRow(c) \/ RollBackCall(c)
               \/ \E products \in SUBSET Products : InsertLines(c, products)
               \/ EndOrder(c)
        PROVE  UNCHANGED vars
    BY <1>5 DEF Ask, LockRow, LockProduct, WriteRow, RollBackCall, InsertLines, EndOrder, vars
  <1>6. ASSUME \/ \E keep \in SUBSET Products :
                     \E levels \in [keep \X FeedBranches -> Levels] : FeedStart(keep, levels)
               \/ \E r \in RowIds : FeedUpsertRow(r) \/ DelistRow(r)
               \/ DelistStart \/ FeedRollBack
        PROVE  UNCHANGED vars
    <2>1. ASSUME NEW keep, NEW levels, FeedStart(keep, levels) PROVE UNCHANGED vars
      BY <2>1 DEF FeedStart, vars
    <2>2. ASSUME NEW r, FeedUpsertRow(r) \/ DelistRow(r) PROVE UNCHANGED vars
      BY <2>2 DEF FeedUpsertRow, DelistRow, vars
    <2>3. ASSUME DelistStart \/ FeedRollBack PROVE UNCHANGED vars
      BY <2>3 DEF DelistStart, FeedRollBack, vars
    <2> QED
      BY <1>6, <2>1, <2>2, <2>3
  <1>7. CASE UNCHANGED txVars
    BY <1>7 DEF txVars, vars
  <1>8. QED
    BY <1>1, <1>2, <1>3, <1>4, <1>5, <1>6, <1>7 DEF TxNext, FeedStep

-------------------------------------------------------------------------------
(***************************************************************************)
(* The inductive invariant, one lemma per action.  InventoryInv comes from *)
(* the refinement, so what is left is Discipline.                          *)
(***************************************************************************)

Discipline == TxTypeOK /\ LocksHeld /\ NoLostUpdate /\ FeedIsCurrent /\ WithinBound

LEMMA AskKeeps ==
    ASSUME TxInv, TypeOK', NEW c \in Callers, NEW r \in RowIds, NEW cmd \in Commands,
           Ask(c, r, cmd)
    PROVE  Discipline'
  BY DEF TxInv, Discipline, TxTypeOK, LocksHeld, Holding, NoLostUpdate, FeedIsCurrent, WithinBound,
         Ask, Call, NoCall

LEMMA LockRowKeeps ==
    ASSUME TxInv, TypeOK', NEW c \in Callers, LockRow(c)
    PROVE  Discipline'
  <1> DEFINE r == call[c].row
  <1> USE DEF TxInv, LockRow
  <1>1. /\ r \in RowIds /\ lock[r] = Free
        /\ call[c] \in [pc : {"waiting", "joining"}, row : RowIds, cmd : Commands]
    BY DEF TxTypeOK, Call, NoCall
  <1>2. \/ call' = [call EXCEPT ![c] = NoCall] /\ UNCHANGED lock
        \/ call' = [call EXCEPT ![c] = [pc |-> "joining", row |-> r, cmd |-> call[c].cmd]]
           /\ lock' = [lock EXCEPT ![r] = c]
    BY <1>1
  <1>3. TxTypeOK'
    BY <1>1, <1>2 DEF TxTypeOK, Call, NoCall
  <1>4. LocksHeld'
    <2>1. ASSUME NEW d \in Callers, call'[d].pc \in Holding
          PROVE  lock'[call'[d].row] = d
      <3>1. CASE d = c
        BY <1>1, <1>2, <2>1, <3>1 DEF TxTypeOK, NoCall, Holding
      <3>2. CASE d # c
        <4>1. call'[d] = call[d] /\ call[d].row \in RowIds /\ lock[call[d].row] = d
          BY <1>2, <2>1, <3>2 DEF TxTypeOK, LocksHeld, Call, NoCall, Holding
        <4>2. call[d].row # r
          BY <1>1, <4>1, InventoryTxAssumption
        <4>3. QED
          BY <1>1, <1>2, <4>1, <4>2 DEF TxTypeOK
      <3>3. QED
        BY <3>1, <3>2
    <2>2. feed.pc \in {"upsert", "delist"} =>
              \A q \in RowIds : feed.pending[q] # NoRow => lock'[q] = Sync
      BY <1>1, InventoryTxAssumption DEF LocksHeld, Holding, TxTypeOK
    <2>3. QED
      BY <2>1, <2>2 DEF LocksHeld, Holding
  <1>5. NoLostUpdate' /\ FeedIsCurrent' /\ WithinBound'
    BY <1>1, <1>2 DEF NoLostUpdate, FeedIsCurrent, WithinBound, TxTypeOK, NoCall
  <1>6. QED
    BY <1>3, <1>4, <1>5 DEF Discipline

LEMMA LockProductKeeps ==
    ASSUME TxInv, TypeOK', NEW c \in Callers, LockProduct(c)
    PROVE  Discipline'
  <1> DEFINE r == call[c].row
  <1> USE DEF TxInv, LockProduct
  <1>1. r \in RowIds /\ call[c].cmd \in Commands /\ lock[r] = c
    BY DEF TxTypeOK, LocksHeld, Holding, Call, NoCall
  <1>2. rows[r] \in Row
    BY <1>1 DEF RowThere, InventoryInv, TypeOK
  <1>3. TxTypeOK'
    BY <1>1, <1>2 DEF TxTypeOK, Call, NoCall
  <1>4. LocksHeld' /\ FeedIsCurrent' /\ WithinBound'
    BY DEF LocksHeld, Holding, FeedIsCurrent, WithinBound, TxTypeOK
  <1>5. NoLostUpdate'
    BY <1>1 DEF NoLostUpdate, TxTypeOK
  <1>6. QED
    BY <1>3, <1>4, <1>5 DEF Discipline

LEMMA WriteRowKeeps ==
    ASSUME TxInv, TypeOK', NEW c \in Callers, WriteRow(c)
    PROVE  Discipline'
  <1> DEFINE r == call[c].row
  <1> USE DEF TxInv, WriteRow
  <1>1. /\ r \in RowIds /\ call[c].cmd \in Commands
        /\ call[c].copy \in Row /\ rows[r] = call[c].copy
    BY DEF TxTypeOK, Call, NoCall, NoLostUpdate
  <1>2. Apply(call[c].copy, call[c].cmd) \in Row
    BY <1>1, ApplyFacts, CommandsTyped
  <1>3. TxTypeOK'
    BY <1>1, <1>2 DEF TxTypeOK, Call, NoCall
  <1>4. LocksHeld' /\ FeedIsCurrent' /\ WithinBound'
    BY DEF LocksHeld, Holding, FeedIsCurrent, WithinBound, TxTypeOK
  <1>5. NoLostUpdate'
    BY <1>1, NoRowAssumption DEF NoLostUpdate, TxTypeOK
  <1>6. QED
    BY <1>3, <1>4, <1>5 DEF Discipline

(* Nobody else is inside mutate() on the row that is committed.            *)
LEMMA CommitCallKeeps ==
    ASSUME TxInv, TypeOK', NEW c \in Callers, CommitCall(c)
    PROVE  Discipline'
  <1> DEFINE r == call[c].row
  <1> USE DEF TxInv, CommitCall
  <1>1. r \in RowIds /\ call[c].copy \in Row /\ lock[r] = c
    BY DEF TxTypeOK, Call, NoCall, LocksHeld, Holding
  <1>2. \A d \in Callers \ {c} :
            call[d].pc \in Holding => lock[call[d].row] = d /\ call[d].row # r
    BY <1>1 DEF LocksHeld, Holding
  <1>3. feed.pc \in {"upsert", "delist"} => feed.pending[r] = NoRow
    BY <1>1, InventoryTxAssumption DEF LocksHeld, Holding
  <1>4. TxTypeOK'
    BY <1>1 DEF TxTypeOK, Call, NoCall
  <1>5. LocksHeld'
    BY <1>1, <1>2, <1>3 DEF LocksHeld, Holding, TxTypeOK, NoCall
  <1>6. NoLostUpdate'
    BY <1>1, <1>2 DEF NoLostUpdate, TxTypeOK, NoCall, Holding
  <1>7. FeedIsCurrent'
    <2>1. feed.pc = "upsert" => r \notin DOMAIN feed.levels \ feed.todo
      BY <1>1, <1>3, FeedTouches
    <2>2. \A q \in RowIds \ {r} : rows'[q] = rows[q]
      BY <1>1 DEF InventoryInv, TypeOK
    <2>3. QED
      BY <1>3, <2>1, <2>2 DEF FeedIsCurrent
  <1>8. WithinBound'
    BY DEF WithinBound, TxTypeOK, NoCall
  <1>9. QED
    BY <1>4, <1>5, <1>6, <1>7, <1>8 DEF Discipline

LEMMA RollBackCallKeeps ==
    ASSUME TxInv, TypeOK', NEW c \in Callers, RollBackCall(c)
    PROVE  Discipline'
  <1> DEFINE r == call[c].row
  <1> USE DEF TxInv, RollBackCall
  <1>1. r \in RowIds /\ lock[r] = c
    BY DEF TxTypeOK, Call, NoCall, LocksHeld, Holding
  <1>2. \A d \in Callers \ {c} :
            call[d].pc \in Holding => lock[call[d].row] = d /\ call[d].row # r
    BY <1>1 DEF LocksHeld, Holding
  <1>3. feed.pc \in {"upsert", "delist"} => feed.pending[r] = NoRow
    BY <1>1, InventoryTxAssumption DEF LocksHeld, Holding
  <1>4. TxTypeOK'
    BY <1>1 DEF TxTypeOK, Call, NoCall
  <1>5. LocksHeld'
    BY <1>1, <1>2, <1>3 DEF LocksHeld, Holding, TxTypeOK, NoCall
  <1>6. NoLostUpdate' /\ FeedIsCurrent' /\ WithinBound'
    BY DEF NoLostUpdate, FeedIsCurrent, WithinBound, TxTypeOK, NoCall
  <1>7. QED
    BY <1>4, <1>5, <1>6 DEF Discipline

(* An order that is being created locks products only.                     *)
LEMMA OrderKeeps ==
    ASSUME TxInv, TypeOK', NEW c \in Callers,
           (\E products \in SUBSET Products : InsertLines(c, products)) \/ EndOrder(c)
    PROVE  Discipline'
  <1>1. UNCHANGED <<rows, held, lock, call, feed>>
    BY DEF InsertLines, EndOrder
  <1>2. sharing' \in [Callers -> SUBSET Products]
    BY DEF InsertLines, EndOrder, TxInv, TxTypeOK
  <1>3. TxTypeOK'
    BY <1>1, <1>2 DEF TxInv, TxTypeOK
  <1>4. QED
    BY <1>1, <1>3 DEF TxInv, Discipline, LocksHeld, Holding, NoLostUpdate, FeedIsCurrent,
                      WithinBound

(* A row that is inserted is new, so nobody is working on it.              *)
LEMMA InsertRowKeeps ==
    ASSUME TxInv, TypeOK', NEW r \in RowIds, NEW row \in CreateInputs, InsertRow(r, row)
    PROVE  Discipline'
  <1> USE DEF TxInv, InsertRow, Create
  <1>1. lock[r] = Free /\ rows[r] = NoRow
    OBVIOUS
  <1>2. \A c \in Callers : call[c].pc \in Holding => call[c].row # r
    BY <1>1, InventoryTxAssumption DEF LocksHeld, Holding
  <1>3. feed.pc \in {"upsert", "delist"} => feed.pending[r] = NoRow
    BY <1>1, InventoryTxAssumption DEF LocksHeld, Holding
  <1>4. TxTypeOK' /\ LocksHeld' /\ WithinBound'
    BY DEF TxTypeOK, LocksHeld, Holding, WithinBound
  <1>5. NoLostUpdate'
    BY <1>2 DEF NoLostUpdate, InventoryInv, TypeOK, Holding
  <1>6. FeedIsCurrent'
    <2>1. feed.pc = "upsert" => r \notin DOMAIN feed.levels \ feed.todo
      BY <1>3, FeedTouches
    <2>2. \A q \in RowIds \ {r} : rows'[q] = rows[q]
      BY DEF InventoryInv, TypeOK
    <2>3. QED
      BY <1>3, <2>1, <2>2 DEF FeedIsCurrent
  <1>7. QED
    BY <1>4, <1>5, <1>6 DEF Discipline

LEMMA FeedStartKeeps ==
    ASSUME TxInv, TypeOK', NEW keep \in SUBSET Products,
           NEW levels \in [keep \X FeedBranches -> Levels], FeedStart(keep, levels)
    PROVE  Discipline'
  <1> DEFINE begun == [pc |-> "upsert", levels |-> levels, todo |-> DOMAIN levels,
                       pending |-> Nothing]
  <1>1. feed' = begun /\ keep # {} /\ UNCHANGED <<rows, held, lock, call, sharing>>
    BY DEF FeedStart
  <1>2. keep \X FeedBranches \in (SUBSET RowIds) \ {{}}
    <2>1. PICK p \in keep, b \in FeedBranches : TRUE
      BY <1>1, InventoryTxAssumption
    <2>2. <<p, b>> \in keep \X FeedBranches
      BY <2>1
    <2>3. keep \X FeedBranches \subseteq Products \X Branches
      BY InventoryTxAssumption
    <2>4. QED
      BY <2>2, <2>3 DEF RowIds
  <1>3. levels \in Feeds /\ DOMAIN levels \in SUBSET RowIds
    BY <1>2 DEF Feeds
  <1>4. begun \in FeedRun
    BY <1>3 DEF FeedRun, Nothing
  <1>5. TxTypeOK'
    BY <1>1, <1>4 DEF TxInv, TxTypeOK
  <1>6. LocksHeld' /\ NoLostUpdate' /\ FeedIsCurrent' /\ WithinBound'
    BY <1>1 DEF TxInv, LocksHeld, Holding, NoLostUpdate, FeedIsCurrent, WithinBound, Nothing
  <1>7. QED
    BY <1>5, <1>6 DEF Discipline

LEMMA FeedUpsertRowKeeps ==
    ASSUME TxInv, TypeOK', NEW r \in RowIds, FeedUpsertRow(r)
    PROVE  Discipline'
  <1> USE DEF TxInv, FeedUpsertRow
  <1>1. /\ feed.levels \in Feeds /\ feed.todo \in SUBSET RowIds
        /\ feed.pending \in [RowIds -> Row \cup {NoRow}]
    BY DEF TxTypeOK, FeedRun, NoFeed
  <1>2. r \in DOMAIN feed.levels /\ feed.levels[r] \in Nat
    BY <1>1, InventoryAssumption DEF FeedIsCurrent, Feeds
  <1>3. FeedWrite(rows[r], feed.levels[r]) \in Row
    BY <1>2, FeedWriteFacts DEF InventoryInv, TypeOK
  <1>4. TxTypeOK'
    BY <1>1, <1>3 DEF TxTypeOK, FeedRun, NoFeed
  <1>5. LocksHeld'
    BY <1>1, InventoryTxAssumption DEF LocksHeld, Holding, TxTypeOK
  <1>6. FeedIsCurrent'
    BY <1>1, <1>2 DEF FeedIsCurrent
  <1>7. NoLostUpdate' /\ WithinBound'
    BY DEF NoLostUpdate, WithinBound
  <1>8. QED
    BY <1>4, <1>5, <1>6, <1>7 DEF Discipline

LEMMA FeedCommitKeeps ==
    ASSUME TxInv, TypeOK', FeedCommit
    PROVE  Discipline'
  <1> USE DEF TxInv, FeedCommit
  <1>1. feed.levels \in Feeds
    BY DEF TxTypeOK, FeedRun, NoFeed
  <1>2. TxTypeOK'
    BY <1>1 DEF TxTypeOK, FeedRun, NoFeed, Unlocked
  <1>3. \A c \in Callers : call[c].pc \in Holding =>
            /\ call[c].row \in RowIds
            /\ lock[call[c].row] = c
            /\ feed.pending[call[c].row] = NoRow
    BY InventoryTxAssumption DEF LocksHeld, Holding, TxTypeOK, Call, NoCall
  <1>4. LocksHeld'
    BY <1>3, InventoryTxAssumption DEF LocksHeld, Holding, Unlocked
  <1>5. NoLostUpdate'
    BY <1>3 DEF NoLostUpdate, Committed, Holding
  <1>6. FeedIsCurrent' /\ WithinBound'
    BY DEF FeedIsCurrent, WithinBound
  <1>7. QED
    BY <1>2, <1>4, <1>5, <1>6 DEF Discipline

LEMMA DelistStartKeeps ==
    ASSUME TxInv, TypeOK', DelistStart
    PROVE  Discipline'
  <1> USE DEF TxInv, DelistStart
  <1>1. TxTypeOK'
    BY DEF TxTypeOK, FeedRun, Nothing
  <1>2. LocksHeld' /\ NoLostUpdate' /\ FeedIsCurrent' /\ WithinBound'
    BY DEF LocksHeld, Holding, NoLostUpdate, FeedIsCurrent, WithinBound, Nothing
  <1>3. QED
    BY <1>1, <1>2 DEF Discipline

LEMMA DelistRowKeeps ==
    ASSUME TxInv, TypeOK', NEW r \in RowIds, DelistRow(r)
    PROVE  Discipline'
  <1>1. feed \in [pc : {"delist"}, todo : SUBSET RowIds, pending : [RowIds -> Row \cup {NoRow}]]
    BY DEF TxInv, TxTypeOK, FeedRun, NoFeed, DelistRow
  <1>2. lock[r] = Free /\ UNCHANGED <<rows, held, call, sharing>>
    BY DEF DelistRow
  <1>3. CASE Delistable(rows[r])
    <2>1. /\ lock' = [lock EXCEPT ![r] = Sync]
          /\ feed' = [feed EXCEPT !.todo = @ \ {r}, !.pending[r] = Delisted(rows[r])]
      BY <1>3 DEF DelistRow
    <2>2. Delisted(rows[r]) \in Row
      BY <1>3, DelistedFacts DEF TxInv, InventoryInv, TypeOK, Delistable
    <2>3. /\ feed' \in [pc : {"delist"}, todo : SUBSET RowIds,
                         pending : [RowIds -> Row \cup {NoRow}]]
          /\ feed'.pending = [feed.pending EXCEPT ![r] = Delisted(rows[r])]
      BY <1>1, <2>1, <2>2
    <2>4. TxTypeOK'
      BY <1>2, <2>1, <2>3 DEF TxInv, TxTypeOK, FeedRun
    <2>5. LocksHeld'
      BY <1>1, <1>2, <2>1, <2>3, InventoryTxAssumption DEF TxInv, LocksHeld, Holding, TxTypeOK
    <2>6. FeedIsCurrent'
      BY <1>1, <1>2, <1>3, <2>3 DEF TxInv, FeedIsCurrent
    <2>7. NoLostUpdate' /\ WithinBound'
      BY <1>2 DEF TxInv, NoLostUpdate, WithinBound
    <2>8. QED
      BY <2>4, <2>5, <2>6, <2>7 DEF Discipline
  <1>4. CASE ~Delistable(rows[r])
    <2>1. /\ UNCHANGED lock
          /\ feed' \in [pc : {"delist"}, todo : SUBSET RowIds,
                         pending : [RowIds -> Row \cup {NoRow}]]
          /\ feed'.pending = feed.pending
      BY <1>1, <1>4 DEF DelistRow
    <2>2. TxTypeOK'
      BY <1>2, <2>1 DEF TxInv, TxTypeOK, FeedRun
    <2>3. LocksHeld' /\ FeedIsCurrent' /\ NoLostUpdate' /\ WithinBound'
      BY <1>1, <1>2, <2>1 DEF TxInv, LocksHeld, Holding, FeedIsCurrent, NoLostUpdate, WithinBound
    <2>4. QED
      BY <2>2, <2>3 DEF Discipline
  <1>5. QED
    BY <1>3, <1>4

LEMMA DelistCommitKeeps ==
    ASSUME TxInv, TypeOK', DelistCommit
    PROVE  Discipline'
  <1> USE DEF TxInv, DelistCommit
  <1>1. TxTypeOK'
    BY DEF TxTypeOK, FeedRun, NoFeed, Unlocked
  <1>2. \A c \in Callers : call[c].pc \in Holding =>
            /\ call[c].row \in RowIds
            /\ lock[call[c].row] = c
            /\ feed.pending[call[c].row] = NoRow
    BY InventoryTxAssumption DEF LocksHeld, Holding, TxTypeOK, Call, NoCall
  <1>3. LocksHeld'
    BY <1>2, InventoryTxAssumption DEF LocksHeld, Holding, Unlocked, NoFeed
  <1>4. NoLostUpdate'
    BY <1>2 DEF NoLostUpdate, Committed, Holding
  <1>5. FeedIsCurrent' /\ WithinBound'
    BY DEF FeedIsCurrent, WithinBound, NoFeed
  <1>6. QED
    BY <1>1, <1>3, <1>4, <1>5 DEF Discipline

LEMMA FeedRollBackKeeps ==
    ASSUME TxInv, TypeOK', FeedRollBack
    PROVE  Discipline'
  <1>1. lock' = Unlocked(Sync) /\ UNCHANGED <<rows, held, call, sharing>>
    BY DEF FeedRollBack
  <1>2. feed' \in FeedRun /\ feed'.pc = "idle"
    BY DEF FeedRollBack, FeedRun, NoFeed
  <1>3. TxTypeOK'
    BY <1>1, <1>2 DEF TxInv, TxTypeOK, Unlocked
  <1>4. \A c \in Callers : call[c].pc \in Holding =>
            call[c].row \in RowIds /\ lock[call[c].row] = c
    BY DEF TxInv, LocksHeld, Holding, TxTypeOK, Call, NoCall
  <1>5. LocksHeld'
    BY <1>1, <1>2, <1>4, InventoryTxAssumption DEF LocksHeld, Holding, Unlocked
  <1>6. NoLostUpdate' /\ FeedIsCurrent' /\ WithinBound'
    BY <1>1, <1>2 DEF TxInv, NoLostUpdate, FeedIsCurrent, WithinBound
  <1>7. QED
    BY <1>3, <1>5, <1>6 DEF Discipline

LEMMA RowStays ==
    ASSUME InventoryInv, [Next]_vars, NEW r \in RowIds, rows[r] # NoRow
    PROVE  rows'[r] # NoRow
  <1> USE DEF InventoryInv, TypeOK
  <1>1. ASSUME NEW q \in RowIds, NEW row \in CreateInputs, Create(q, row)
        PROVE  rows'[r] # NoRow
    BY <1>1 DEF Create
  <1>2. ASSUME NEW q \in RowIds, NEW cmd \in Commands, Mutate(q, cmd)
        PROVE  rows'[r] # NoRow
    <2>1. rows[q] \in Row /\ Accepts(rows[q], cmd)
      BY <1>2 DEF Mutate
    <2>2. Apply(rows[q], cmd) \in Row
      BY <2>1, ApplyFacts, CommandsTyped
    <2>3. QED
      BY <1>2, <2>2, NoRowAssumption DEF Mutate
  <1>3. ASSUME NEW levels \in Feeds, BulkUpsert(levels)
        PROVE  rows'[r] # NoRow
    <2>1. \A q \in DOMAIN levels : levels[q] \in Nat
      BY FeedLevels
    <2>2. r \in DOMAIN levels => FeedWrite(rows[r], levels[r]) # NoRow
      BY <2>1, FeedWriteFacts, NoRowAssumption
    <2>3. QED
      BY <1>3, <2>2 DEF BulkUpsert
  <1>4. ASSUME NEW delisted \in SUBSET RowIds, ZeroOut(delisted)
        PROVE  rows'[r] # NoRow
    BY <1>4, DelistedFacts, NoRowAssumption DEF ZeroOut
  <1>5. CASE UNCHANGED vars
    BY <1>5 DEF vars
  <1>6. QED
    BY <1>1, <1>2, <1>3, <1>4, <1>5 DEF Next

LEMMA RowThereKeeps == TxInv /\ [TxNext]_txVars => RowThere'
  <1> SUFFICES ASSUME TxInv, [TxNext]_txVars, NEW c \in Callers, call'[c].pc = "joining"
               PROVE  rows'[call'[c].row] # NoRow
    BY DEF RowThere
  <1>0. call \in [Callers -> Call]
    BY DEF TxInv, TxTypeOK
  <1>1. ASSUME NEW d \in Callers,
               \/ \E r \in RowIds, cmd \in Commands : Ask(d, r, cmd)
               \/ LockRow(d) \/ LockProduct(d) \/ WriteRow(d) \/ CommitCall(d)
               \/ RollBackCall(d)
        PROVE  \/ call'[c] = call[c]
               \/ call'[c].row = call[c].row /\ call[c].pc = "waiting" /\ rows[call[c].row] # NoRow
    <2>1. CASE c # d
      BY <1>0, <1>1, <2>1 DEF Ask, LockRow, LockProduct, WriteRow, CommitCall, RollBackCall
    <2>2. CASE c = d
      <3>1. LockRow(c)
        BY <1>0, <1>1, <2>2 DEF Ask, LockProduct, WriteRow, CommitCall, RollBackCall, NoCall
      <3>2. call[c] \in [pc : {"waiting", "joining"}, row : RowIds, cmd : Commands]
        BY <1>0, <3>1 DEF LockRow, Call, NoCall
      <3>3. rows[call[c].row] # NoRow /\ call' = [call EXCEPT ![c].pc = "joining"]
        BY <1>0, <3>1 DEF LockRow, NoCall
      <3> QED
        BY <1>0, <3>1, <3>2, <3>3 DEF LockRow
    <2> QED
      BY <2>1, <2>2
  <1>2. \/ call'[c] = call[c]
        \/ call'[c].row = call[c].row /\ call[c].pc = "waiting" /\ rows[call[c].row] # NoRow
    <2>1. ASSUME \/ \E d \in Callers : \/ \E products \in SUBSET Products : InsertLines(d, products)
                                        \/ EndOrder(d)
                 \/ \E r \in RowIds, row \in CreateInputs : InsertRow(r, row)
                 \/ \E keep \in SUBSET Products :
                       \E levels \in [keep \X FeedBranches -> Levels] : FeedStart(keep, levels)
                 \/ FeedStep \/ FeedRollBack \/ UNCHANGED txVars
          PROVE  UNCHANGED call
      <3>1. ASSUME NEW d, NEW products, InsertLines(d, products) \/ EndOrder(d) PROVE UNCHANGED call
        BY <3>1 DEF InsertLines, EndOrder
      <3>2. ASSUME NEW r, NEW row, InsertRow(r, row) PROVE UNCHANGED call
        BY <3>2 DEF InsertRow
      <3>3. ASSUME NEW keep, NEW levels, FeedStart(keep, levels) PROVE UNCHANGED call
        BY <3>3 DEF FeedStart
      <3>4. ASSUME NEW r, FeedUpsertRow(r) \/ DelistRow(r) PROVE UNCHANGED call
        BY <3>4 DEF FeedUpsertRow, DelistRow
      <3>5. ASSUME FeedCommit \/ DelistStart \/ DelistCommit \/ FeedRollBack \/ UNCHANGED txVars
            PROVE  UNCHANGED call
        BY <3>5 DEF FeedCommit, DelistStart, DelistCommit, FeedRollBack, txVars
      <3> QED
        BY <2>1, <3>1, <3>2, <3>3, <3>4, <3>5 DEF FeedStep
    <2> QED
      BY <1>1, <2>1 DEF TxNext
  <1>3. rows[call'[c].row] # NoRow /\ call'[c].row \in RowIds
    BY <1>0, <1>2 DEF TxInv, RowThere, Call, NoCall
  <1>4. QED
    BY <1>3, RowStays, TxStepIsStep DEF TxInv

LEMMA TxStepInv == TxInv /\ [TxNext]_txVars => TxInv'
  <1> SUFFICES ASSUME TxInv, [TxNext]_txVars PROVE TxInv'
    OBVIOUS
  <1>1. InventoryInv'
    <2>1. InventoryInv /\ [Next]_vars
      BY TxStepIsStep DEF TxInv
    <2>2. QED
      BY <2>1, InventoryStep
  <1>2. TypeOK'
    BY <1>1 DEF InventoryInv
  <1>3. ASSUME UNCHANGED txVars PROVE Discipline'
    BY <1>2, <1>3 DEF txVars, TxInv, Discipline, TxTypeOK, LocksHeld, Holding, NoLostUpdate,
                      FeedIsCurrent, WithinBound
  <1>4. ASSUME TxNext PROVE Discipline'
    <2>1. ASSUME NEW c \in Callers,
                 \/ \E r \in RowIds, cmd \in Commands : Ask(c, r, cmd)
                 \/ LockRow(c) \/ LockProduct(c) \/ WriteRow(c) \/ CommitCall(c)
                 \/ RollBackCall(c)
          PROVE  Discipline'
      BY <1>2, <2>1, AskKeeps, LockRowKeeps, LockProductKeeps, WriteRowKeeps, CommitCallKeeps,
         RollBackCallKeeps
    <2>0. ASSUME NEW c \in Callers,
                 \/ \E products \in SUBSET Products : InsertLines(c, products)
                 \/ EndOrder(c)
          PROVE  Discipline'
      BY <1>2, <2>0, OrderKeeps
    <2>2. ASSUME NEW r \in RowIds, NEW row \in CreateInputs, InsertRow(r, row)
          PROVE  Discipline'
      BY <1>2, <2>2, InsertRowKeeps
    <2>3. ASSUME NEW keep \in SUBSET Products,
                 NEW levels \in [keep \X FeedBranches -> Levels], FeedStart(keep, levels)
          PROVE  Discipline'
      BY <1>2, <2>3, FeedStartKeeps
    <2>4. ASSUME NEW r \in RowIds, FeedUpsertRow(r) \/ DelistRow(r)
          PROVE  Discipline'
      BY <1>2, <2>4, FeedUpsertRowKeeps, DelistRowKeeps
    <2>5. ASSUME FeedCommit \/ DelistStart \/ DelistCommit \/ FeedRollBack
          PROVE  Discipline'
      BY <1>2, <2>5, FeedCommitKeeps, DelistStartKeeps, DelistCommitKeeps, FeedRollBackKeeps
    <2>6. QED
      BY <1>4, <2>0, <2>1, <2>2, <2>3, <2>4, <2>5 DEF TxNext, FeedStep
  <1>5. Discipline'
    BY <1>3, <1>4
  <1>6. RowThere'
    BY RowThereKeeps
  <1>7. QED
    BY <1>1, <1>5, <1>6 DEF TxInv, Discipline

-------------------------------------------------------------------------------

LEMMA TxInvariant == TxSpec => []TxInv
  <1>1. QED
    BY TxInitInv, TxStepInv, PTL DEF TxSpec

(* The transactions never leave the states their handlers can be in.       *)
THEOREM TxTypeCorrect == TxSpec => []TxTypeOK
  <1>1. TxInv => TxTypeOK
    BY DEF TxInv
  <1>2. QED
    BY <1>1, TxInvariant, PTL

(* No mutate() writes over another's commit.                               *)
THEOREM TxNoLostUpdate == TxSpec => []NoLostUpdate
  <1>1. TxInv => NoLostUpdate
    BY DEF TxInv
  <1>2. QED
    BY <1>1, TxInvariant, PTL

(* The repository implements what Inventory promises.                      *)
THEOREM TxImplementsInventory == TxSpec => KeepsInventoryPromise
  <1>1. TxInit => Init
    BY DEF TxInit
  <1>2. TxInv /\ [TxNext]_txVars => [Next]_vars
    BY TxStepIsStep
  <1>3. QED
    BY <1>1, <1>2, TxInvariant, PTL DEF TxSpec, Spec, KeepsInventoryPromise

(* So whatever holds of Inventory holds of the repository.                 *)
COROLLARY TxReservedIsHeld == TxSpec => []ReservedIsHeld
  BY TxImplementsInventory, InventoryReservedIsHeld, PTL DEF KeepsInventoryPromise

COROLLARY TxSoundStaysSound == TxSpec => SoundStaysSound
  BY TxImplementsInventory, InventorySoundStaysSound, PTL DEF KeepsInventoryPromise

COROLLARY TxUnsoundOnlyRepaired == TxSpec => UnsoundOnlyRepaired
  BY TxImplementsInventory, InventoryUnsoundOnlyRepaired, PTL DEF KeepsInventoryPromise

-------------------------------------------------------------------------------
(***************************************************************************)
(* Who waits for whom.                                                     *)
(***************************************************************************)

Transactions == Callers \cup {Sync}

(* t wants what u has: a call the row it asked for, or the product of the  *)
(* row it has locked; the feed any row it has still to write, or, for a    *)
(* new one, its product.                                                   *)
WaitsForRow(t, u) ==
    \/ t \in Callers /\ call[t].pc = "waiting" /\ lock[call[t].row] = u
    \/ t = Sync /\ feed.pc \in {"upsert", "delist"} /\ \E r \in feed.todo : lock[r] = u

HasProduct(u, p) ==
    \/ u \in Callers /\ (Updates(u, p) \/ p \in sharing[u])
    \/ u = Sync /\ FeedShares(p)

WaitsForProduct(t, u) ==
    \/ t \in Callers /\ call[t].pc = "joining" /\ HasProduct(u, call[t].row[1])
    \/ /\ t = Sync /\ feed.pc = "upsert" /\ u \in Callers
       /\ \E r \in feed.todo : ChecksKeys(r) /\ Updates(u, r[1])

Waits(t, u) == WaitsForRow(t, u) \/ WaitsForProduct(t, u)

(* A call that has both its locks comes first.  One that still wants its   *)
(* product comes before the feed, unless the feed has the product: then    *)
(* the feed has no row of it left to lock.  A call with no lock is last.   *)
Rank(t) ==
    CASE t = Sync -> 2
      [] t # Sync /\ call[t].pc = "waiting" -> 4
      [] t # Sync /\ call[t].pc = "joining" -> IF FeedShares(call[t].row[1]) THEN 3 ELSE 1
      [] OTHER -> 0

(* While no order reserves its lines inside its own transaction.           *)
NoCircularWait ==
    (\A c \in Callers : sharing[c] = {} \/ call[c] = NoCall)
        => \A t, u \in Transactions : Waits(t, u) => Rank(u) < Rank(t)

(* The converse of LocksHeld: a lock is held by somebody who uses it, and  *)
(* the feed does not come back to a row it has locked.                     *)
LocksUsed ==
    \A r \in RowIds :
        /\ lock[r] \in Callers => call[lock[r]].pc \in Holding /\ call[lock[r]].row = r
        /\ lock[r] = Sync => feed.pc \in {"upsert", "delist"} /\ feed.pending[r] # NoRow

TodoUnwritten ==
    feed.pc \in {"upsert", "delist"} =>
        feed.todo \subseteq RowIds /\ \A r \in feed.todo : feed.pending[r] = NoRow

WaitInv == LocksUsed /\ TodoUnwritten

(* A step of a call: it takes its own lock, keeps it or frees it.          *)
LEMMA CallKeepsWaits ==
    ASSUME TxInv, WaitInv, NEW c \in Callers,
           \/ \E r \in RowIds, cmd \in Commands : Ask(c, r, cmd)
           \/ LockRow(c) \/ LockProduct(c) \/ WriteRow(c) \/ CommitCall(c) \/ RollBackCall(c)
    PROVE  WaitInv'
  <1>0. /\ call \in [Callers -> Call] /\ lock \in [RowIds -> Callers \cup {Sync, Free}]
        /\ Sync \notin Callers /\ Free \notin Callers /\ Free # Sync
    BY InventoryTxAssumption DEF TxInv, TxTypeOK
  <1>1. UNCHANGED feed
    BY DEF Ask, LockRow, LockProduct, WriteRow, CommitCall, RollBackCall
  <1>2. TodoUnwritten'
    BY <1>1 DEF WaitInv, TodoUnwritten
  <1>3. \A d \in Callers \ {c} : call'[d] = call[d]
    BY <1>0 DEF Ask, LockRow, LockProduct, WriteRow, CommitCall, RollBackCall
  <1>4. ASSUME call[c].pc \notin Holding, UNCHANGED lock PROVE LocksUsed'
    BY <1>0, <1>1, <1>3, <1>4 DEF WaitInv, LocksUsed
  <1>5. CASE \E r \in RowIds, cmd \in Commands : Ask(c, r, cmd)
    BY <1>2, <1>4, <1>5 DEF Ask, NoCall, Holding, WaitInv
  <1>6. CASE LockRow(c)
    <2>1. call[c].pc = "waiting" /\ call[c].row \in RowIds
      BY <1>0, <1>6 DEF LockRow, Call, NoCall
    <2>2. CASE rows[call[c].row] = NoRow
      BY <1>2, <1>4, <1>6, <2>1, <2>2 DEF LockRow, Holding, WaitInv
    <2>3. CASE rows[call[c].row] # NoRow
      <3>1. call[c] \in [pc : {"waiting", "joining"}, row : RowIds, cmd : Commands]
        BY <1>0, <2>1 DEF Call, NoCall
      <3>2. /\ call' = [call EXCEPT ![c].pc = "joining"]
            /\ lock' = [lock EXCEPT ![call[c].row] = c]
        BY <1>6, <2>3 DEF LockRow
      <3>3. call'[c].pc = "joining" /\ call'[c].row = call[c].row
        BY <1>0, <3>1, <3>2
      <3> QED
        BY <1>0, <1>1, <1>2, <1>3, <2>1, <3>2, <3>3 DEF WaitInv, LocksUsed, Holding
    <2> QED
      BY <2>2, <2>3
  <1>7. CASE LockProduct(c) \/ WriteRow(c)
    <2>1. call[c].pc \in Holding /\ call'[c].pc \in Holding /\ call'[c].row = call[c].row
          /\ UNCHANGED lock
      BY <1>0, <1>7 DEF LockProduct, WriteRow, Holding
    <2> QED
      BY <1>0, <1>1, <1>2, <1>3, <2>1 DEF WaitInv, LocksUsed
  <1>8. CASE CommitCall(c) \/ RollBackCall(c)
    <2>1. lock' = [lock EXCEPT ![call[c].row] = Free]
      BY <1>8 DEF CommitCall, RollBackCall
    <2>2. \A r \in RowIds : lock'[r] # c /\ (lock'[r] # Free => lock'[r] = lock[r])
      BY <1>0, <2>1 DEF WaitInv, LocksUsed
    <2> QED
      BY <1>0, <1>1, <1>2, <1>3, <2>2 DEF WaitInv, LocksUsed
  <1> QED
    BY <1>2, <1>5, <1>6, <1>7, <1>8 DEF WaitInv

(* A step of the feed that locks a row and writes it.                      *)
LEMMA FeedWritesKeepWaits ==
    ASSUME TxInv, WaitInv, NEW r \in RowIds, NEW row, row # NoRow,
           feed.pc \in {"upsert", "delist"}, feed'.pc = feed.pc, feed'.todo = feed.todo \ {r},
           feed'.pending = [feed.pending EXCEPT ![r] = row],
           lock' = [lock EXCEPT ![r] = Sync], UNCHANGED call
    PROVE  WaitInv'
  <1>0. /\ lock \in [RowIds -> Callers \cup {Sync, Free}] /\ DOMAIN feed.pending = RowIds
        /\ Sync \notin Callers
    BY InventoryTxAssumption DEF TxInv, TxTypeOK, FeedRun, NoFeed
  <1>1. LocksUsed'
    BY <1>0 DEF WaitInv, LocksUsed
  <1>2. TodoUnwritten'
    BY <1>0 DEF WaitInv, TodoUnwritten
  <1> QED
    BY <1>1, <1>2 DEF WaitInv

(* A step of the feed that ends a transaction of its own.                  *)
LEMMA FeedEndsKeepWaits ==
    ASSUME TxInv, WaitInv, lock' = Unlocked(Sync), UNCHANGED call,
           feed'.pc \notin {"upsert", "delist"}
    PROVE  WaitInv'
  <1>1. lock \in [RowIds -> Callers \cup {Sync, Free}]
        /\ Sync \notin Callers /\ Free \notin Callers /\ Free # Sync
    BY InventoryTxAssumption DEF TxInv, TxTypeOK
  <1>2. \A r \in RowIds : lock'[r] # Sync /\ (lock'[r] # Free => lock'[r] = lock[r])
    BY <1>1 DEF Unlocked
  <1> QED
    BY <1>1, <1>2 DEF WaitInv, LocksUsed, TodoUnwritten

LEMMA FeedKeepsWaits ==
    ASSUME TxInv, WaitInv, FeedStep \/ FeedRollBack PROVE WaitInv'
  <1>1. ASSUME NEW r \in RowIds, FeedUpsertRow(r) PROVE WaitInv'
    <2>1. /\ feed.pc = "upsert" /\ feed.levels \in Feeds /\ r \in DOMAIN feed.levels
          /\ feed \in [pc : {"upsert"}, levels : Feeds, todo : SUBSET RowIds,
                       pending : [RowIds -> Row \cup {NoRow}]]
      BY <1>1 DEF FeedUpsertRow, TxInv, TxTypeOK, FeedRun, NoFeed, FeedIsCurrent
    <2>2. PICK row : row = FeedWrite(rows[r], feed.levels[r])
      OBVIOUS
    <2>3. row # NoRow
      BY <2>1, <2>2, FeedLevels, FeedWriteFacts, NoRowAssumption DEF TxInv, InventoryInv, TypeOK
    <2>4. /\ feed' = [feed EXCEPT !.todo = @ \ {r}, !.pending[r] = row]
          /\ lock' = [lock EXCEPT ![r] = Sync] /\ UNCHANGED call
      BY <1>1, <2>2 DEF FeedUpsertRow
    <2>5. /\ feed'.pc = feed.pc /\ feed'.todo = feed.todo \ {r}
          /\ feed'.pending = [feed.pending EXCEPT ![r] = row]
      BY <2>1, <2>4
    <2> QED
      BY <2>1, <2>3, <2>4, <2>5, FeedWritesKeepWaits
  <1>2. ASSUME NEW r \in RowIds, DelistRow(r) PROVE WaitInv'
    <2>1. /\ feed \in [pc : {"delist"}, todo : SUBSET RowIds, pending : [RowIds -> Row \cup {NoRow}]]
          /\ UNCHANGED call
      BY <1>2 DEF TxInv, TxTypeOK, FeedRun, NoFeed, DelistRow
    <2>2. CASE Delistable(rows[r])
      <3>1. PICK row : row = Delisted(rows[r])
        OBVIOUS
      <3>2. row # NoRow
        BY <2>2, <3>1, DelistedFacts, NoRowAssumption DEF TxInv, InventoryInv, TypeOK, Delistable
      <3>3. /\ feed' = [feed EXCEPT !.todo = @ \ {r}, !.pending[r] = row]
            /\ lock' = [lock EXCEPT ![r] = Sync]
        BY <1>2, <2>2, <3>1 DEF DelistRow
      <3>4. /\ feed'.pc = feed.pc /\ feed'.todo = feed.todo \ {r}
            /\ feed'.pending = [feed.pending EXCEPT ![r] = row]
        BY <2>1, <3>3
      <3> QED
        BY <2>1, <3>2, <3>3, <3>4, FeedWritesKeepWaits
    <2>3. CASE ~Delistable(rows[r])
      <3>1. /\ feed'.pc = feed.pc /\ feed'.todo = feed.todo \ {r} /\ feed'.pending = feed.pending
            /\ UNCHANGED lock
        BY <1>2, <2>1, <2>3 DEF DelistRow
      <3> QED
        BY <2>1, <3>1 DEF WaitInv, LocksUsed, TodoUnwritten
    <2> QED
      BY <2>2, <2>3
  <1>3. CASE FeedCommit \/ DelistCommit \/ FeedRollBack
    <2>1. lock' = Unlocked(Sync) /\ UNCHANGED call /\ feed'.pc \in {"upserted", "idle"}
      BY <1>3 DEF FeedCommit, DelistCommit, FeedRollBack, NoFeed
    <2> QED
      BY <2>1, FeedEndsKeepWaits
  <1>4. CASE DelistStart
    <2>1. /\ feed.pc = "upserted" /\ UNCHANGED <<lock, call>> /\ feed'.todo \subseteq RowIds
          /\ feed'.pending = Nothing
      BY <1>4 DEF DelistStart
    <2>2. TodoUnwritten'
      BY <2>1 DEF TodoUnwritten, Nothing
    <2> QED
      BY <2>1, <2>2 DEF WaitInv, LocksUsed
  <1> QED
    BY <1>1, <1>2, <1>3, <1>4 DEF FeedStep

LEMMA WaitStep == TxInv /\ WaitInv /\ [TxNext]_txVars => WaitInv'
  <1> SUFFICES ASSUME TxInv, WaitInv, [TxNext]_txVars PROVE WaitInv'
    OBVIOUS
  <1>1. ASSUME NEW c \in Callers,
               \/ \E r \in RowIds, cmd \in Commands : Ask(c, r, cmd)
               \/ LockRow(c) \/ LockProduct(c) \/ WriteRow(c) \/ CommitCall(c) \/ RollBackCall(c)
        PROVE  WaitInv'
    BY <1>1, CallKeepsWaits
  <1>6. ASSUME NEW c \in Callers,
               (\E products \in SUBSET Products : InsertLines(c, products)) \/ EndOrder(c)
        PROVE  WaitInv'
    BY <1>6 DEF InsertLines, EndOrder, WaitInv, LocksUsed, TodoUnwritten
  <1>2. ASSUME NEW r \in RowIds, NEW row \in CreateInputs, InsertRow(r, row) PROVE WaitInv'
    BY <1>2 DEF InsertRow, WaitInv, LocksUsed, TodoUnwritten
  <1>3. ASSUME NEW keep \in SUBSET Products,
               NEW levels \in [keep \X FeedBranches -> Levels], FeedStart(keep, levels)
        PROVE  WaitInv'
    <2>1. /\ feed.pc = "idle" /\ UNCHANGED <<lock, call>> /\ feed'.pc = "upsert"
          /\ feed'.todo = DOMAIN levels /\ feed'.pending = Nothing
      BY <1>3 DEF FeedStart, NoFeed
    <2>2. DOMAIN levels \subseteq RowIds
      BY InventoryTxAssumption DEF RowIds
    <2>3. TodoUnwritten'
      BY <2>1, <2>2 DEF TodoUnwritten, Nothing
    <2> QED
      BY <2>1, <2>3 DEF WaitInv, LocksUsed
  <1>4. CASE FeedStep \/ FeedRollBack
    BY <1>4, FeedKeepsWaits
  <1>5. CASE UNCHANGED txVars
    BY <1>5 DEF txVars, WaitInv, LocksUsed, TodoUnwritten
  <1> QED
    BY <1>1, <1>2, <1>3, <1>4, <1>5, <1>6 DEF TxNext

(* The calls and the feed never wait for each other in a circle, whatever  *)
(* rows and products the calls ask for, however long the feed keeps its    *)
(* locks and whichever orders are being created beside them: a call locks  *)
(* its row before its product, the feed a product only after all the rows  *)
(* of it, and an order only products.  The premise is needed: an order     *)
(* that reserves before it commits waits for itself.  It is what           *)
(* EveryTransactionEnds rests on besides fairness.                         *)
THEOREM TxNoCircularWait == TxSpec => []NoCircularWait
  <1>1. TxInit => WaitInv
    BY InventoryTxAssumption DEF TxInit, NoFeed, WaitInv, LocksUsed, TodoUnwritten
  <1>2. TxInv /\ WaitInv => NoCircularWait
    <2> SUFFICES ASSUME TxInv, WaitInv, \A c \in Callers : sharing[c] = {} \/ call[c] = NoCall,
                        NEW t \in Transactions, NEW u \in Transactions, Waits(t, u)
                 PROVE  Rank(u) < Rank(t)
      BY DEF NoCircularWait
    <2>1. /\ call \in [Callers -> Call] /\ Sync \notin Callers
      BY InventoryTxAssumption DEF TxInv, TxTypeOK
    <2>2. CASE t \in Callers /\ WaitsForRow(t, u)
      <3>1. call[t].pc = "waiting" /\ call[t].row \in RowIds /\ lock[call[t].row] = u
        BY <2>1, <2>2 DEF WaitsForRow, Call, NoCall
      <3>2. Rank(t) = 4
        BY <2>1, <2>2, <3>1 DEF Rank
      <3>3. u = Sync \/ (u \in Callers /\ call[u].pc # "waiting")
        BY <3>1 DEF Transactions, WaitInv, LocksUsed, Holding
      <3> QED
        BY <3>2, <3>3 DEF Rank
    <2>3. CASE t \in Callers /\ WaitsForProduct(t, u)
      <3>1. call[t].pc = "joining" /\ HasProduct(u, call[t].row[1])
        BY <2>1, <2>3 DEF WaitsForProduct
      <3>2. Rank(t) = IF FeedShares(call[t].row[1]) THEN 3 ELSE 1
        BY <2>1, <2>3, <3>1 DEF Rank
      <3>3. CASE u = Sync
        BY <2>1, <3>1, <3>2, <3>3 DEF HasProduct, Rank
      <3>4. CASE u \in Callers
        <4>1. Updates(u, call[t].row[1]) \/ call[u] = NoCall
          BY <2>1, <3>1, <3>4 DEF HasProduct
        <4>2. call[u].pc \in {"idle", "locked", "written"}
          BY <4>1 DEF Updates, NoCall
        <4>3. Rank(u) = 0
          BY <2>1, <3>4, <4>2 DEF Rank
        <4> QED
          BY <3>2, <4>3
      <3> QED
        BY <3>3, <3>4 DEF Transactions
    <2>4. CASE t = Sync /\ WaitsForRow(t, u)
      <3>1. PICK r \in feed.todo : lock[r] = u /\ feed.pc \in {"upsert", "delist"}
        BY <2>1, <2>4 DEF WaitsForRow
      <3>2. r \in RowIds /\ feed.pending[r] = NoRow
        BY <3>1 DEF WaitInv, TodoUnwritten
      <3>3. u # Sync
        BY <3>1, <3>2 DEF WaitInv, LocksUsed
      <3>4. u \in Callers /\ call[u].pc \in Holding /\ call[u].row = r
        BY <3>1, <3>2, <3>3 DEF Transactions, WaitInv, LocksUsed
      <3>5. ~FeedShares(r[1])
        BY <3>1 DEF FeedShares
      <3> QED
        BY <2>1, <2>4, <3>3, <3>4, <3>5 DEF Rank, Holding
    <2>5. CASE t = Sync /\ WaitsForProduct(t, u)
      <3>1. u \in Callers /\ call[u].pc \in {"locked", "written"}
        BY <2>1, <2>5 DEF WaitsForProduct, Updates
      <3> QED
        BY <2>1, <2>5, <3>1 DEF Rank
    <2> QED
      BY <2>2, <2>3, <2>4, <2>5 DEF Transactions, Waits
  <1> QED
    BY <1>1, <1>2, TxInvariant, WaitStep, PTL DEF TxSpec

-------------------------------------------------------------------------------
(* What an order that is being created waits for. *)

CreateNeverReserves ==
    \A c \in Callers : sharing[c] # {} => call[c].pc \notin {"locked", "written"}

(* Until it commits an order only asks for products of its own lines.      *)
OwnProducts ==
    \A c \in Callers : sharing[c] # {} =>
        \/ call[c].pc = "idle"
        \/ call[c].pc \in {"waiting", "joining"} /\ call[c].row[1] \in sharing[c]

LEMMA OwnProductsStep == TxInv /\ OwnProducts /\ [TxNext]_txVars => OwnProducts'
  <1> SUFFICES ASSUME TxInv, OwnProducts, [TxNext]_txVars PROVE OwnProducts'
    OBVIOUS
  <1>0. call \in [Callers -> Call] /\ sharing \in [Callers -> SUBSET Products]
    BY DEF TxInv, TxTypeOK
  <1>1. ASSUME NEW c \in Callers, NEW r \in RowIds, NEW cmd \in Commands, Ask(c, r, cmd)
        PROVE  OwnProducts'
    <2>1. /\ call' = [call EXCEPT ![c] = [pc |-> "waiting", row |-> r, cmd |-> cmd]]
          /\ UNCHANGED sharing /\ (sharing[c] # {} => r[1] \in sharing[c])
      BY <1>1 DEF Ask
    <2> QED
      BY <1>0, <2>1 DEF OwnProducts
  <1>2. ASSUME NEW c \in Callers, LockRow(c) PROVE OwnProducts'
    <2>1. call[c] \in [pc : {"waiting", "joining"}, row : RowIds, cmd : Commands]
      BY <1>0, <1>2 DEF LockRow, Call, NoCall
    <2>2. /\ UNCHANGED sharing
          /\ call' = [call EXCEPT ![c] = NoCall] \/ call' = [call EXCEPT ![c].pc = "joining"]
      BY <1>2 DEF LockRow
    <2> QED
      BY <1>0, <2>1, <2>2 DEF OwnProducts, NoCall
  <1>3. ASSUME NEW c \in Callers, LockProduct(c) PROVE OwnProducts'
    <2>1. call[c].row[1] \notin sharing[c] /\ call[c].pc = "joining" /\ UNCHANGED sharing
      BY <1>3 DEF LockProduct, Shared
    <2>2. sharing[c] = {}
      BY <2>1 DEF OwnProducts
    <2>3. \A d \in Callers \ {c} : call'[d] = call[d]
      BY <1>0, <1>3 DEF LockProduct
    <2> QED
      BY <2>1, <2>2, <2>3 DEF OwnProducts
  <1>4. ASSUME NEW c \in Callers, WriteRow(c) PROVE OwnProducts'
    <2>1. sharing[c] = {} /\ UNCHANGED sharing
      BY <1>4 DEF WriteRow, OwnProducts
    <2>2. \A d \in Callers \ {c} : call'[d] = call[d]
      BY <1>0, <1>4 DEF WriteRow
    <2> QED
      BY <2>1, <2>2 DEF OwnProducts
  <1>5. ASSUME NEW c \in Callers, CommitCall(c) \/ RollBackCall(c) PROVE OwnProducts'
    <2>1. call' = [call EXCEPT ![c] = NoCall] /\ UNCHANGED sharing
      BY <1>5 DEF CommitCall, RollBackCall
    <2> QED
      BY <1>0, <2>1 DEF OwnProducts, NoCall
  <1>6. ASSUME NEW c \in Callers, NEW products \in SUBSET Products, InsertLines(c, products)
        PROVE  OwnProducts'
    <2>1. call[c].pc = "idle" /\ UNCHANGED call /\ sharing' = [sharing EXCEPT ![c] = products]
      BY <1>6 DEF InsertLines, NoCall
    <2> QED
      BY <1>0, <2>1 DEF OwnProducts
  <1>7. ASSUME NEW c \in Callers, EndOrder(c) PROVE OwnProducts'
    <2>1. UNCHANGED call /\ sharing' = [sharing EXCEPT ![c] = {}]
      BY <1>7 DEF EndOrder
    <2> QED
      BY <1>0, <2>1 DEF OwnProducts
  <1>8. ASSUME \/ \E r \in RowIds, row \in CreateInputs : InsertRow(r, row)
               \/ \E keep \in SUBSET Products :
                     \E levels \in [keep \X FeedBranches -> Levels] : FeedStart(keep, levels)
               \/ FeedStep \/ FeedRollBack \/ UNCHANGED txVars
        PROVE  OwnProducts'
    <2>1. ASSUME NEW r, NEW row, InsertRow(r, row) PROVE UNCHANGED <<call, sharing>>
      BY <2>1 DEF InsertRow
    <2>2. ASSUME NEW keep, NEW levels, FeedStart(keep, levels) PROVE UNCHANGED <<call, sharing>>
      BY <2>2 DEF FeedStart
    <2>3. ASSUME NEW r, FeedUpsertRow(r) \/ DelistRow(r) PROVE UNCHANGED <<call, sharing>>
      BY <2>3 DEF FeedUpsertRow, DelistRow
    <2>4. ASSUME FeedCommit \/ DelistStart \/ DelistCommit \/ FeedRollBack \/ UNCHANGED txVars
          PROVE  UNCHANGED <<call, sharing>>
      BY <2>4 DEF FeedCommit, DelistStart, DelistCommit, FeedRollBack, txVars
    <2>5. UNCHANGED <<call, sharing>>
      BY <1>8, <2>1, <2>2, <2>3, <2>4 DEF FeedStep
    <2> QED
      BY <2>5 DEF OwnProducts
  <1> QED
    BY <1>1, <1>2, <1>3, <1>4, <1>5, <1>6, <1>7, <1>8 DEF TxNext

(* A create as `confirmed` does not get a single unit of what it orders:   *)
(* the mutate() it waits for wants a product FOR UPDATE which the order's  *)
(* own line holds FOR KEY SHARE until that very mutate() has answered.     *)
THEOREM TxCreateNeverReserves == TxSpec => []CreateNeverReserves
  <1>1. TxInit => OwnProducts
    BY DEF TxInit, OwnProducts
  <1>2. OwnProducts => CreateNeverReserves
    BY DEF OwnProducts, CreateNeverReserves
  <1> QED
    BY <1>1, <1>2, OwnProductsStep, TxInvariant, PTL DEF TxSpec
===============================================================================
