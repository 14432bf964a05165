------------------------------ MODULE InventoryTx -----------------------------
(***************************************************************************)
(* How the TypeORM repository carries out the operations of Inventory:     *)
(* mutate() is SELECT ... FOR UPDATE, the aggregate, UPDATE and COMMIT on  *)
(* one row; the feed upserts its rows in chunks inside one transaction and *)
(* then delists in one statement.  rows holds what is committed; what a    *)
(* transaction has written and not committed is in its own record.         *)
(*                                                                         *)
(* The product rows are locked as well.  mutate() joins the product and    *)
(* its FOR UPDATE names no table, so it locks the inventory row and then   *)
(* the product; a row that refers to a product - an order's line, a new    *)
(* inventory row - locks it FOR KEY SHARE by its foreign key.  FOR UPDATE  *)
(* excludes both, FOR KEY SHARE only FOR UPDATE.                           *)
(*                                                                         *)
(* PostgreSQL is modelled as the code relies on it: a row lock (or, for a  *)
(* row being inserted, its entry in the unique index) is kept to the end   *)
(* of the transaction, and a statement that waited for a lock sees the row *)
(* as last committed (READ COMMITTED).                                     *)
(***************************************************************************)
EXTENDS Inventory

CONSTANTS
    Callers,   \* requests that may be inside mutate() at the same time
    Creators,  \* those of them that may also be creating an order
    Sync,      \* the one feed run; PostgresSyncLock keeps a second one out
    FeedBranches,  \* the branches the supplier feed reports (NV and TN)
    Free       \* the row is locked by nobody

ASSUME InventoryTxAssumption ==
    /\ Sync \notin Callers
    /\ Creators \subseteq Callers
    /\ Free \notin Callers \cup {Sync}
    /\ FeedBranches \subseteq Branches /\ FeedBranches # {}

VARIABLES
    lock,    \* who holds the lock of each inventory row
    call,    \* per caller: where its mutate() stands
    feed,    \* the feed run: where it stands and what it has not committed
    sharing  \* per caller: the products of the order it has not committed

txVars == <<rows, held, lock, call, feed, sharing>>

NoCall == [pc |-> "idle"]

Call ==
    {NoCall}
        \cup [pc : {"waiting", "joining"}, row : RowIds, cmd : Commands]
        \cup [pc : {"locked"}, row : RowIds, cmd : Commands, copy : Row]
        \cup [pc : {"written"}, row : RowIds, cmd : Commands, copy : Row]

NoFeed == [pc |-> "idle"]

Nothing == [r \in RowIds |-> NoRow]

(* levels: the feed; todo: rows still to write; pending: what is written   *)
(* and not yet committed, NoRow for a row not written.                     *)
FeedRun ==
    {NoFeed}
        \cup [pc : {"upsert"}, levels : Feeds, todo : SUBSET RowIds,
              pending : [RowIds -> Row \cup {NoRow}]]
        \cup [pc : {"upserted"}, levels : Feeds]
        \cup [pc : {"delist"}, todo : SUBSET RowIds,
              pending : [RowIds -> Row \cup {NoRow}]]

TxInit ==
    /\ Init
    /\ lock = [r \in RowIds |-> Free]
    /\ call = [c \in Callers |-> NoCall]
    /\ feed = NoFeed
    /\ sharing = [c \in Callers |-> {}]

-------------------------------------------------------------------------------
(* The locks of the product rows: a call that has both its locks holds its *)
(* product FOR UPDATE; orders and new rows of the feed hold theirs FOR KEY *)
(* SHARE.  The feed's foreign keys are checked when a chunk is written,    *)
(* and a chunk has all the rows of a product: the rows come in pairs, one  *)
(* for each branch, and 1000 is even.                                      *)

Updates(c, p) == call[c].pc \in {"locked", "written"} /\ call[c].row[1] = p

FeedShares(p) ==
    /\ feed.pc = "upsert"
    /\ \A r \in feed.todo : r[1] # p
    /\ \E r \in DOMAIN feed.levels : r[1] = p /\ rows[r] = NoRow

Shared(p) == FeedShares(p) \/ \E c \in Callers : p \in sharing[c]

-------------------------------------------------------------------------------
(* mutate() *)

(* A request that is creating an order has its lines reserved before its   *)
(* own transaction commits.                                                *)
Ask(c, r, cmd) ==
    /\ call[c] = NoCall
    /\ sharing[c] # {} => r[1] \in sharing[c] /\ cmd.kind = "reserve"
    /\ call' = [call EXCEPT ![c] = [pc |-> "waiting", row |-> r, cmd |-> cmd]]
    /\ UNCHANGED <<rows, held, lock, feed, sharing>>

\* mutant: a plain SELECT in place of SELECT ... FOR UPDATE
ReadRowUnlocked(c) ==
    /\ call[c].pc = "waiting"
    /\ rows[call[c].row] # NoRow
    /\ call' = [call EXCEPT ![c] = [pc |-> "locked", row |-> @.row, cmd |-> @.cmd,
                                   copy |-> rows[@.row]]]
    /\ UNCHANGED <<rows, held, lock, feed, sharing>>

(* The inventory row is locked; no row, InventoryNotFoundError.            *)
LockRow(c) ==
    /\ call[c].pc = "waiting"
    /\ LET r == call[c].row
       IN  /\ lock[r] = Free
           /\ IF rows[r] = NoRow
              THEN /\ call' = [call EXCEPT ![c] = NoCall]
                   /\ UNCHANGED lock
              ELSE /\ call' = [call EXCEPT ![c].pc = "joining"]
                   /\ lock' = [lock EXCEPT ![r] = c]
    /\ UNCHANGED <<rows, held, feed, sharing>>

(* Its product is locked too, and the row is read.                         *)
LockProduct(c) ==
    /\ call[c].pc = "joining"
    /\ LET r == call[c].row
       IN  /\ ~Shared(r[1]) /\ \A d \in Callers : ~Updates(d, r[1])
           /\ call' = [call EXCEPT ![c] =
                          [pc |-> "locked", row |-> r, cmd |-> @.cmd, copy |-> rows[r]]]
    /\ UNCHANGED <<rows, held, lock, feed, sharing>>

(* fromSnapshot and the command run on the copy; then UPDATE.              *)
WriteRow(c) ==
    /\ call[c].pc = "locked"
    /\ Accepts(call[c].copy, call[c].cmd)
    /\ Apply(call[c].copy, call[c].cmd).stock <= MaxStock
    /\ call' = [call EXCEPT ![c] =
                   [pc |-> "written", row |-> @.row, cmd |-> @.cmd,
                    copy |-> Apply(@.copy, @.cmd)]]
    /\ UNCHANGED <<rows, held, lock, feed, sharing>>

CommitCall(c) ==
    /\ call[c].pc = "written"
    /\ rows' = [rows EXCEPT ![call[c].row] = call[c].copy]
    /\ held' = [held EXCEPT ![call[c].row] = @ + HeldChange(call[c].cmd)]
    /\ lock' = [lock EXCEPT ![call[c].row] = Free]
    /\ call' = [call EXCEPT ![c] = NoCall]
    /\ UNCHANGED <<feed, sharing>>

\* mutant: the connection goes back to the pool with its transaction open
LeaveCallOpen(c) ==
    /\ call[c].pc \in {"locked", "written"}
    /\ call' = [call EXCEPT ![c] = NoCall]
    /\ UNCHANGED <<rows, held, lock, feed, sharing>>

(* The aggregate threw, or the connection was lost before COMMIT.          *)
RollBackCall(c) ==
    /\ call[c].pc \in {"joining", "locked", "written"}
    /\ lock' = [lock EXCEPT ![call[c].row] = Free]
    /\ call' = [call EXCEPT ![c] = NoCall]
    /\ UNCHANGED <<rows, held, feed, sharing>>

(* One INSERT: it waits for an uncommitted insert of the same pair, and    *)
(* then fails on the unique key, and for its product.                      *)
InsertRow(r, row) ==
    /\ lock[r] = Free
    /\ \A c \in Callers : ~Updates(c, r[1])
    /\ Create(r, row)
    /\ UNCHANGED <<lock, call, feed, sharing>>

-------------------------------------------------------------------------------
(* persist(): the transaction that creates an order inserts its lines, and *)
(* a create as `confirmed` reserves them, each by a mutate() that has a    *)
(* transaction of its own, before it commits.                              *)

InsertLines(c, products) ==
    /\ c \in Creators /\ call[c] = NoCall /\ sharing[c] = {}
    /\ products # {}
    /\ \A p \in products, d \in Callers : ~Updates(d, p)
    /\ sharing' = [sharing EXCEPT ![c] = products]
    /\ UNCHANGED <<rows, held, lock, call, feed>>

(* COMMIT, or ROLLBACK when a reservation was refused; or the connection   *)
(* is lost, perhaps while a reservation is under way.                      *)
EndOrder(c) ==
    /\ sharing[c] # {}
    /\ sharing' = [sharing EXCEPT ![c] = {}]
    /\ UNCHANGED <<rows, held, lock, call, feed>>

-------------------------------------------------------------------------------
(* bulkUpsertStock and zeroOutMissing, called one after the other *)

(* The run bails out before this when no SKU of the feed is known.         *)
FeedStart(keep, levels) ==
    /\ feed = NoFeed
    /\ keep # {}
    /\ feed' = [pc |-> "upsert", levels |-> levels, todo |-> DOMAIN levels, pending |-> Nothing]
    /\ UNCHANGED <<rows, held, lock, call, sharing>>

\* mutant: read the reserved units first, write the row later
FeedUpsertRowUnlocked(r) ==
    /\ feed.pc = "upsert"
    /\ r \in feed.todo
    /\ feed' = [feed EXCEPT !.todo = @ \ {r},
                            !.pending[r] = FeedWrite(rows[r], feed.levels[r])]
    /\ UNCHANGED <<rows, held, lock, call, sharing>>

(* r is the last row of its product, and one of them is new.               *)
ChecksKeys(r) ==
    /\ \A q \in feed.todo \ {r} : q[1] # r[1]
    /\ \E q \in DOMAIN feed.levels : q[1] = r[1] /\ rows[q] = NoRow

FeedUpsertRow(r) ==
    /\ feed.pc = "upsert"
    /\ r \in feed.todo
    /\ lock[r] = Free
    /\ ChecksKeys(r) => \A c \in Callers : ~Updates(c, r[1])
    /\ lock' = [lock EXCEPT ![r] = Sync]
    /\ feed' = [feed EXCEPT !.todo = @ \ {r},
                            !.pending[r] = FeedWrite(rows[r], feed.levels[r])]
    /\ UNCHANGED <<rows, held, call, sharing>>

Committed ==
    [r \in RowIds |-> IF feed.pending[r] # NoRow THEN feed.pending[r] ELSE rows[r]]

Unlocked(t) == [r \in RowIds |-> IF lock[r] = t THEN Free ELSE lock[r]]

FeedCommit ==
    /\ feed.pc = "upsert"
    /\ feed.todo = {}
    /\ rows' = Committed
    /\ lock' = Unlocked(Sync)
    /\ feed' = [pc |-> "upserted", levels |-> feed.levels]
    /\ UNCHANGED <<held, call, sharing>>

(* keepSkus are the products of the feed; the candidates are the rows the  *)
(* statement finds when it starts.                                         *)
DelistStart ==
    /\ feed.pc = "upserted"
    /\ LET keep == {r[1] : r \in DOMAIN feed.levels}
       IN  feed' = [pc |-> "delist", pending |-> Nothing,
                    todo |-> {r \in RowIds : /\ r[1] \notin keep
                                             /\ r[2] \in FeedBranches
                                             /\ Delistable(rows[r])}]
    /\ UNCHANGED <<rows, held, lock, call, sharing>>

(* The statement locks a candidate and tests it again before writing it.   *)
DelistRow(r) ==
    /\ feed.pc = "delist"
    /\ r \in feed.todo
    /\ lock[r] = Free
    /\ IF Delistable(rows[r])
       THEN /\ lock' = [lock EXCEPT ![r] = Sync]
            /\ feed' = [feed EXCEPT !.todo = @ \ {r},
                                    !.pending[r] = Delisted(rows[r])]
       ELSE /\ feed' = [feed EXCEPT !.todo = @ \ {r}]
            /\ UNCHANGED lock
    /\ UNCHANGED <<rows, held, call, sharing>>

DelistCommit ==
    /\ feed.pc = "delist"
    /\ feed.todo = {}
    /\ rows' = Committed
    /\ lock' = Unlocked(Sync)
    /\ feed' = NoFeed
    /\ UNCHANGED <<held, call, sharing>>

(* A chunk failed or the process died: the whole transaction is undone.    *)
FeedRollBack ==
    /\ feed # NoFeed
    /\ lock' = Unlocked(Sync)
    /\ feed' = NoFeed
    /\ UNCHANGED <<rows, held, call, sharing>>

FeedStep ==
    \/ \E r \in RowIds : FeedUpsertRow(r) \/ DelistRow(r)
    \/ FeedCommit
    \/ DelistStart
    \/ DelistCommit

TxNext ==
    \/ \E c \in Callers, r \in RowIds, cmd \in Commands : Ask(c, r, cmd)
    \/ \E c \in Callers :
          \/ LockRow(c) \/ LockProduct(c) \/ WriteRow(c) \/ CommitCall(c) \/ RollBackCall(c)
          \/ \E products \in SUBSET Products : InsertLines(c, products)
          \/ EndOrder(c)
    \/ \E r \in RowIds, row \in CreateInputs : InsertRow(r, row)
    \/ \E keep \in SUBSET Products :
          \E levels \in [keep \X FeedBranches -> Levels] : FeedStart(keep, levels)
    \/ FeedStep
    \/ FeedRollBack

(* A transaction that can go on does go on, and lock waits are served in   *)
(* the order of the queue, so none is passed over for ever.  Nothing makes *)
(* a call give up while it waits: the code sets no statement or lock       *)
(* timeout.                                                                *)
TxFairness ==
    /\ \A c \in Callers :
          /\ SF_txVars(LockRow(c))
          /\ SF_txVars(LockProduct(c))
          /\ WF_txVars(WriteRow(c) \/ CommitCall(c) \/ (call[c].pc = "locked" /\ RollBackCall(c)))
    /\ SF_txVars(FeedStep)

TxSpec == TxInit /\ [][TxNext]_txVars
FairTxSpec == TxSpec /\ TxFairness

-------------------------------------------------------------------------------

TxTypeOK ==
    /\ TypeOK
    /\ lock \in [RowIds -> Callers \cup {Sync, Free}]
    /\ call \in [Callers -> Call]
    /\ feed \in FeedRun
    /\ sharing \in [Callers -> SUBSET Products]

(* What mutate() is about to write was computed from the row as it is      *)
(* still committed: nobody changed the row between its SELECT FOR UPDATE   *)
(* and its COMMIT, so no reservation is lost under another's write.        *)
NoLostUpdate ==
    \A c \in Callers :
        /\ call[c].pc = "locked" => rows[call[c].row] = call[c].copy
        /\ call[c].pc = "written" =>
              /\ rows[call[c].row] # NoRow
              /\ Accepts(rows[call[c].row], call[c].cmd)
              /\ call[c].copy = Apply(rows[call[c].row], call[c].cmd)

(* Once no order is being created every mutate() ends, and so does every   *)
(* feed run: the calls and the feed, which lock rows and products in       *)
(* different orders, never wait for each other in a circle.  An order in   *)
(* the making has to be left out: a create as `confirmed` waits, in its    *)
(* own reservation, for the products its own lines have locked, and does   *)
(* not end.                                                                *)
EveryTransactionEnds ==
    <>[](\A c \in Callers : sharing[c] = {}) =>
        /\ \A c \in Callers : []<>(call[c] = NoCall)
        /\ []<>(feed = NoFeed)

(* The repository keeps the promise of Inventory: each commit is one of    *)
(* its atomic operations, whatever ran in between.                         *)
KeepsInventoryPromise == Spec
===============================================================================
