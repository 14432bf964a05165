-------------------------------- MODULE Quotes --------------------------------
(***************************************************************************)
(* The quotes a sales rep writes for one customer: QuoteService, and the   *)
(* part of CustomerProfileService that gives a prospect's quotes their     *)
(* reader once the prospect has an account.  Every handler loads a row,    *)
(* works on the copy and saves it in a step of its own; only the claim of  *)
(* convert and the link of a profile are compare-and-set statements.       *)
(* Saves overwrite the row's own columns with the copy's.                  *)
(***************************************************************************)
EXTENDS Naturals, Sequences, FiniteSets

CONSTANTS
    Handlers,     \* requests in progress at the same time
    Quotes,       \* quote ids
    Accounts,     \* account ids of the auth service
    None,         \* NULL
    Lines,        \* what a quote's lines may say
    Overlap,      \* whether requests that save a whole row overlap others
    MayFail,      \* whether a request may fail, or the process die, midway
    MaxTime,      \* bounds of the model: the clock,
    MaxRequests   \* and the requests in a behaviour

ASSUME QuotesAssumption ==
    /\ None \notin Accounts \cup Lines
    /\ Overlap \in BOOLEAN /\ MayFail \in BOOLEAN
    /\ MaxTime \in Nat /\ MaxRequests \in Nat

VARIABLES
    quotes,    \* quotes.quotes, without its amounts
    lines,     \* quotes.quote_items of each quote
    orders,    \* orders.orders: what each quote became, in order
    profile,   \* auth_customer_id of the customer's profile
    selves,    \* accounts with a profile they provisioned themselves
    now,       \* the clock, in days of validity
    req,       \* what each handler is doing
    started,   \* requests begun so far
    approved,  \* ghost: the lines each quote had when it was approved
    missed     \* ghost: a sweep for the quotes of a new account failed

quoteVars == <<quotes, lines, orders, profile, selves, now, req, started, approved, missed>>
clients == <<profile, selves, now>>
ghosts == <<approved, missed>>

Life == INSTANCE QuoteLifecycle WITH
            status <- [q \in Quotes |-> quotes[q].status],
            made <- [q \in Quotes |-> Len(orders[q])]

Row == [status : Life!Statuses \cup {"none", "gone"}, reader : Accounts \cup {None},
        profiled : BOOLEAN, until : 0..MaxTime, order : Nat]

NoReq == [pc |-> "idle"]

QuoteInit ==
    /\ quotes = [q \in Quotes |-> [status |-> "none", reader |-> None, profiled |-> FALSE,
                                   until |-> 0, order |-> 0]]
    /\ lines = [q \in Quotes |-> None]
    /\ orders = [q \in Quotes |-> <<>>]
    /\ profile = None /\ selves = {}
    /\ now = 0
    /\ req = [h \in Handlers |-> NoReq]
    /\ started = 0
    /\ approved = [q \in Quotes |-> None]
    /\ missed = FALSE

Goto(h, r) == req' = [req EXCEPT ![h] = r]

(* The requests that carry a copy of a row to the save that ends them.     *)
Writing == {"creating", "editing", "moving", "removing", "profiling"}

Take(h, r) ==
    /\ req[h] = NoReq
    /\ started < MaxRequests
    /\ Overlap \/ \A g \in Handlers \ {h} :
                     req[g].pc \notin Writing /\ (r.pc \in Writing => req[g] = NoReq)
    /\ started' = started + 1
    /\ Goto(h, r)

SaveRow(q, row) == quotes' = [quotes EXCEPT ![q] = row]

Exists(q) == quotes[q].status \in Life!Statuses

(* effectiveStatus: `expired` is derived from a sent quote's validity.     *)
Effective(row) == IF row.status = "sent" /\ row.until < now THEN "expired" ELSE row.status

(* isEditable.                                                             *)
IsEditable(row) == row.status = "draft"

\* mutant: an approved quote may be edited too
IsOpen(row) == row.status \in {"draft", "approved"}

Editable(row) == IsEditable(row)

-------------------------------------------------------------------------------
(* create and update *)

\* mutant: the quote is addressed to an account only when one is sent
TargetOfBody(a) == [reader |-> a, profiled |-> a = None \/ profile = a]

(* resolveTarget: the body names an account, or (None) the profile, whose  *)
(* account is the reader if it has one.                                    *)
Target(a) ==
    IF a = None THEN [reader |-> profile, profiled |-> TRUE]
    ELSE [reader |-> a, profiled |-> profile = a]

BeginCreate(h, q) ==
    /\ quotes[q].status = "none"
    /\ \A g \in Handlers : req[g].pc = "creating" => req[g].quote # q
    /\ \E a \in Accounts \cup {None}, l \in Lines, u \in now..MaxTime :
          Take(h, [pc |-> "creating", quote |-> q, lines |-> l,
                   row |-> [status |-> "draft", reader |-> Target(a).reader,
                            profiled |-> Target(a).profiled, until |-> u, order |-> 0]])
    /\ UNCHANGED <<quotes, lines, orders, clients, ghosts>>

(* A change of the validity counts from now; the copy is saved as it is.   *)
BeginEdit(h, q) ==
    /\ Exists(q) /\ Editable(quotes[q])
    /\ \E l \in Lines, u \in (now..MaxTime) \cup {quotes[q].until} :
          Take(h, [pc |-> "editing", quote |-> q, lines |-> l,
                   row |-> [quotes[q] EXCEPT !.until = u]])
    /\ UNCHANGED <<quotes, lines, orders, clients, ghosts>>

(* The transaction that ends create and update.                            *)
SaveQuote(h) ==
    /\ req[h].pc \in {"creating", "editing"}
    /\ SaveRow(req[h].quote, req[h].row)
    /\ lines' = [lines EXCEPT ![req[h].quote] = req[h].lines]
    /\ Goto(h, NoReq)
    /\ UNCHANGED <<orders, clients, started, ghosts>>

-------------------------------------------------------------------------------
(* send, approve, reject and remove *)

\* mutant: the row that is saved is the view of it, whose status is derived
MovedView(row, to) == [row EXCEPT !.status = Effective([row EXCEPT !.status = to])]

Moved(row, to) == [row EXCEPT !.status = to]

(* transition: the quote's status is the action's, and it has not expired. *)
BeginMove(h, q, a) ==
    /\ Exists(q)
    /\ quotes[q].status = Life!From[a]
    /\ Effective(quotes[q]) # "expired"
    /\ Take(h, [pc |-> "moving", quote |-> q, row |-> quotes[q], to |-> Life!To[a]])
    /\ UNCHANGED <<quotes, lines, orders, clients, ghosts>>

SaveMove(h) ==
    /\ req[h].pc = "moving"
    /\ LET q == req[h].quote
       IN /\ SaveRow(q, Moved(req[h].row, req[h].to))
          /\ approved' = IF req[h].to = "approved" THEN [approved EXCEPT ![q] = lines[q]]
                         ELSE approved
    /\ Goto(h, NoReq)
    /\ UNCHANGED <<lines, orders, clients, started, missed>>

BeginRemove(h, q) ==
    /\ Exists(q) /\ IsEditable(quotes[q])
    /\ Take(h, [pc |-> "removing", quote |-> q])
    /\ UNCHANGED <<quotes, lines, orders, clients, ghosts>>

Remove(h) ==
    /\ req[h].pc = "removing"
    /\ SaveRow(req[h].quote, [quotes[req[h].quote] EXCEPT !.status = "gone"])
    /\ Goto(h, NoReq)
    /\ UNCHANGED <<lines, orders, clients, started, ghosts>>

-------------------------------------------------------------------------------
(* convert *)

(* The row and its lines are loaded in whatever status they are.           *)
BeginConvert(h, q) ==
    /\ Exists(q)
    /\ Take(h, [pc |-> "claiming", quote |-> q, row |-> quotes[q], lines |-> lines[q]])
    /\ UNCHANGED <<quotes, lines, orders, clients, ghosts>>

\* mutant: the status that was loaded is tested, not the row's
ClaimLoaded(h) ==
    /\ req[h].pc = "claiming"
    /\ LET q == req[h].quote
       IN /\ req[h].row.status = "approved"
          /\ SaveRow(q, [quotes[q] EXCEPT !.status = "converted"])
    /\ Goto(h, [req[h] EXCEPT !.pc = "ordering"])
    /\ UNCHANGED <<lines, orders, clients, started, ghosts>>

(* The claim: UPDATE ... WHERE status = 'approved'.                        *)
Claim(h) ==
    /\ req[h].pc = "claiming"
    /\ LET q == req[h].quote
       IN /\ quotes[q].status = Life!From["convert"]
          /\ SaveRow(q, [quotes[q] EXCEPT !.status = Life!To["convert"]])
    /\ Goto(h, [req[h] EXCEPT !.pc = "ordering"])
    /\ UNCHANGED <<lines, orders, clients, started, ghosts>>

ClaimRefused(h) ==
    /\ req[h].pc = "claiming"
    /\ quotes[req[h].quote].status # Life!From["convert"]
    /\ Goto(h, NoReq)
    /\ UNCHANGED <<quotes, lines, orders, clients, started, ghosts>>

(* validateOrReject and createInternal: an order needs a customer's        *)
(* account, and a quote loaded before it had one ends here, converted.     *)
CreateOrder(h) ==
    /\ req[h].pc = "ordering"
    /\ LET q == req[h].quote
       IN \/ /\ req[h].row.reader = None
             /\ Goto(h, NoReq)
             /\ UNCHANGED orders
          \/ /\ req[h].row.reader # None
             /\ orders' = [orders EXCEPT ![q] = Append(@, req[h].lines)]
             /\ Goto(h, [pc |-> "recording", quote |-> q, order |-> Len(orders[q]) + 1])
    /\ UNCHANGED <<quotes, lines, clients, started, ghosts>>

RecordOrder(h) ==
    /\ req[h].pc = "recording"
    /\ SaveRow(req[h].quote, [quotes[req[h].quote] EXCEPT !.order = req[h].order])
    /\ Goto(h, NoReq)
    /\ UNCHANGED <<lines, orders, clients, started, ghosts>>

-------------------------------------------------------------------------------
(* The customer's profile *)

(* link: canLink on the profile as it was loaded.                          *)
BeginLink(h, a) ==
    /\ profile = None
    /\ Take(h, [pc |-> "linking", account |-> a])
    /\ UNCHANGED <<quotes, lines, orders, clients, ghosts>>

(* UPDATE ... WHERE auth_customer_id IS NULL, under the unique index.      *)
Link(h) ==
    /\ req[h].pc = "linking"
    /\ \/ /\ profile = None /\ req[h].account \notin selves
          /\ profile' = req[h].account
          /\ Goto(h, [req[h] EXCEPT !.pc = "sweeping"])
       \/ /\ profile # None \/ req[h].account \in selves
          /\ Goto(h, NoReq)
          /\ UNCHANGED profile
    /\ UNCHANGED <<quotes, lines, orders, selves, now, started, ghosts>>

(* claimPendingQuotes; an error of it is logged, and the link stands.      *)
Sweep(h) ==
    /\ req[h].pc = "sweeping"
    /\ \/ /\ quotes' = [q \in Quotes |->
                          IF quotes[q].profiled /\ quotes[q].reader = None /\ Exists(q)
                          THEN [quotes[q] EXCEPT !.reader = req[h].account]
                          ELSE quotes[q]]
          /\ UNCHANGED missed
       \/ MayFail /\ missed' = TRUE /\ UNCHANGED quotes
    /\ Goto(h, NoReq)
    /\ UNCHANGED <<lines, orders, clients, started, approved>>

(* update and reassignOwner of the profile.                                *)
BeginProfile(h) ==
    /\ Take(h, [pc |-> "profiling", account |-> profile])
    /\ UNCHANGED <<quotes, lines, orders, clients, ghosts>>

SaveProfile(h) ==
    /\ req[h].pc = "profiling"
    /\ profile' = req[h].account
    /\ Goto(h, NoReq)
    /\ UNCHANGED <<quotes, lines, orders, selves, now, started, ghosts>>

(* ensureSelfServiceProfile: a shopper's own profile, once per account.    *)
EnsureSelf(a) ==
    /\ a \notin selves /\ profile # a
    /\ selves' = selves \cup {a}
    /\ UNCHANGED <<quotes, lines, orders, profile, now, req, started, ghosts>>

-------------------------------------------------------------------------------

Tick ==
    /\ now < MaxTime
    /\ now' = now + 1
    /\ UNCHANGED <<quotes, lines, orders, profile, selves, req, started, ghosts>>

(* A request ends where it is: an error of the database, or the process    *)
(* dies.                                                                   *)
Fail(h) ==
    /\ MayFail /\ req[h] # NoReq
    /\ missed' = (missed \/ req[h].pc = "sweeping")
    /\ Goto(h, NoReq)
    /\ UNCHANGED <<quotes, lines, orders, clients, started, approved>>

QuoteNext ==
    \/ \E h \in Handlers :
          \/ \E q \in Quotes :
                \/ BeginCreate(h, q) \/ BeginEdit(h, q) \/ BeginRemove(h, q) \/ BeginConvert(h, q)
                \/ \E a \in {"send", "approve", "reject"} : BeginMove(h, q, a)
          \/ SaveQuote(h) \/ SaveMove(h) \/ Remove(h)
          \/ Claim(h) \/ ClaimRefused(h) \/ CreateOrder(h) \/ RecordOrder(h)
          \/ \E a \in Accounts : BeginLink(h, a)
          \/ Link(h) \/ Sweep(h) \/ BeginProfile(h) \/ SaveProfile(h) \/ Fail(h)
    \/ \E a \in Accounts : EnsureSelf(a)
    \/ Tick

QuoteSpec == QuoteInit /\ [][QuoteNext]_quoteVars

-------------------------------------------------------------------------------

(* Type correctness of the rows and of what the handlers carry; `expired`, *)
(* which is only derived, is never the status of a row.                    *)
QuoteTypeOK ==
    /\ quotes \in [Quotes -> Row]
    /\ lines \in [Quotes -> Lines \cup {None}]
    /\ orders \in [Quotes -> Seq(Lines)]
    /\ profile \in Accounts \cup {None}
    /\ selves \subseteq Accounts
    /\ now \in 0..MaxTime
    /\ started \in 0..MaxRequests
    /\ approved \in [Quotes -> Lines \cup {None}]
    /\ missed \in BOOLEAN
    /\ \A h \in Handlers :
          \/ req[h] = NoReq
          \/ req[h].pc \in {"creating", "editing"} /\ req[h].quote \in Quotes
             /\ req[h].row \in Row /\ req[h].lines \in Lines
          \/ req[h].pc = "moving" /\ req[h].quote \in Quotes /\ req[h].row \in Row
             /\ req[h].to \in Life!Statuses
          \/ req[h].pc = "removing" /\ req[h].quote \in Quotes
          \/ req[h].pc \in {"claiming", "ordering"} /\ req[h].quote \in Quotes
             /\ req[h].row \in Row /\ req[h].lines \in Lines
          \/ req[h].pc = "recording" /\ req[h].quote \in Quotes /\ req[h].order \in Nat
          \/ req[h].pc \in {"linking", "sweeping"} /\ req[h].account \in Accounts
          \/ req[h].pc = "profiling" /\ req[h].account \in Accounts \cup {None}

(* Whatever claims race and wherever a conversion dies, a quote moves only *)
(* along QUOTE_TRANSITIONS and becomes one order at most.                  *)
KeepsLifecycle == Life!LifeSpec

(* The order a quote became says what the quote said when it was approved. *)
OrderIsAsApproved ==
    \A q \in Quotes : \A i \in DOMAIN orders[q] : orders[q][i] = approved[q]

(* Once a profile is linked and the sweep has run, every quote written for *)
(* the customer has the linked account as its reader: those written before *)
(* the link as well as those written after it.                             *)
ReaderFound ==
    \/ missed \/ profile = None
    \/ \E h \in Handlers : req[h].pc = "sweeping"
    \/ \A q \in Quotes : Exists(q) /\ quotes[q].profiled => quotes[q].reader = profile

(* "Claiming first means two concurrent calls can never produce two        *)
(* orders".  Requests that overlap break it: an approval that loaded the   *)
(* quote before another one approved it takes it back from converted.      *)
OneOrderPerQuote == \A q \in Quotes : Len(orders[q]) <= 1
===============================================================================
