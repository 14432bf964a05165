---------------------------- MODULE BackofficeProofs ----------------------------
(***************************************************************************)
(* Proofs about Backoffice: the main branch of the address books, the      *)
(* fiscal stamp of an invoice and the prices of carts, quotes and orders,  *)
(* for any number of branches, of requests and of changes to the prices;   *)
(* and about the rules it prices, packs and filters by, for every input.   *)
(***************************************************************************)
EXTENDS Backoffice, Visibility, FiniteSetTheorems, TLAPS

(* A finite set has one element at most when any two of them are the same. *)
LEMMA AtMostOne ==
    ASSUME NEW S, IsFiniteSet(S)
    PROVE  Cardinality(S) <= 1 <=> \A x, y \in S : x = y
<1>1. Cardinality(S) \in Nat
  BY FS_CardinalityType
<1>2. ASSUME Cardinality(S) <= 1 PROVE \A x, y \in S : x = y
  <2>1. Cardinality(S) = 0 \/ Cardinality(S) = 1
    BY <1>1, <1>2
  <2>2. S = {} \/ \E x : S = {x}
    BY <2>1, FS_EmptySet, FS_Singleton
  <2> QED
    BY <2>2
<1>3. ASSUME \A x, y \in S : x = y PROVE Cardinality(S) <= 1
  <2>1. S = {} \/ \E x : S = {x}
    BY <1>3
  <2>2. Cardinality(S) = 0 \/ Cardinality(S) = 1
    BY <2>1, FS_EmptySet, FS_Singleton
  <2> QED
    BY <2>2
<1> QED
  BY <1>2, <1>3

-------------------------------------------------------------------------------
(* Address books *)

Kinds == {"main", "plain"}

BranchCall ==
    {Idle}
      \cup [pc : {"demote", "save"}, branch : BranchIds, kind : Kinds, demoted : SUBSET BranchIds]
      \cup [pc : {"delete"}, branch : BranchIds, demoted : {{}}]

(* Type correctness of the address book and of what its requests carry.    *)
BranchTypeOK ==
    /\ book \in {"customer", "provider"}
    /\ branch \in [BranchIds -> Kinds \cup {"none"}]
    /\ call \in [BranchCalls -> BranchCall]
    /\ calls \in Nat
    /\ overlapped \in BOOLEAN

(* What makes the main branch stay while requests come one after another:  *)
(* a request that is about to save a main branch has demoted every other   *)
(* one or saves the one there is, and none is about to delete it.          *)
Covered(c) ==
    /\ c.pc = "save" /\ c.kind = "main" => Mains \subseteq c.demoted \cup {c.branch}
    /\ c.pc = "save" => c.branch \notin c.demoted /\ c.demoted \subseteq Mains
    /\ c.pc = "save" /\ c.kind = "plain" => c.demoted = {}
    /\ c.pc = "demote" => c.kind = "main" /\ c.demoted = {}
    /\ c.pc = "delete" => c.branch \notin Mains

MainInv ==
    /\ BranchTypeOK
    /\ OneMainPerCustomer
    /\ ~overlapped =>
         /\ \A x, y \in Mains : x = y
         /\ \A p, q \in BranchCalls : call[p] # Idle /\ call[q] # Idle => p = q
         /\ \A p \in BranchCalls : call[p] # Idle => Covered(call[p])

LEMMA MainsFinite == IsFiniteSet(Mains)
<1>1. Mains \in SUBSET BranchIds
  BY DEF Mains
<1> QED
  BY <1>1, FS_Subset, BranchAssumption

LEMMA BranchInitMain == ASSUME BranchInit PROVE MainInv
<1>1. BranchTypeOK
  BY DEF BranchInit, BranchTypeOK, BranchCall
<1>2. Mains = {}
  BY DEF BranchInit, Mains
<1>3. OneMainPerCustomer
  BY <1>2, FS_EmptySet DEF OneMainPerCustomer
<1> QED
  BY <1>1, <1>2, <1>3 DEF BranchInit, MainInv

(* A request that begins leaves the book as it is.                         *)
LEMMA BeginMain ==
    ASSUME MainInv, NEW r \in BranchCalls, NEW c \in BranchCall \ {Idle},
           ~overlapped => Covered(c), Begin(r, c)
    PROVE  MainInv'
<1>1. BranchTypeOK'
  BY DEF MainInv, BranchTypeOK, Begin
<1>2. Mains' = Mains
  BY DEF Begin, Mains
<1>3. OneMainPerCustomer'
  BY <1>2 DEF MainInv, OneMainPerCustomer, Begin
<1>4. ASSUME ~overlapped'
      PROVE  /\ \A x, y \in Mains' : x = y
             /\ \A p, q \in BranchCalls : call'[p] # Idle /\ call'[q] # Idle => p = q
             /\ \A p \in BranchCalls : call'[p] # Idle => Covered(call[p])'
  <2>1. ~overlapped /\ \A q \in BranchCalls \ {r} : call[q] = Idle
    BY <1>4 DEF Begin, MainInv, BranchTypeOK
  <2>2. call' = [call EXCEPT ![r] = c]
    BY DEF Begin
  <2>3. \A q \in BranchCalls \ {r} : call'[q] = Idle
    BY <2>1, <2>2 DEF MainInv, BranchTypeOK
  <2>4. call'[r] = c
    BY <2>2 DEF MainInv, BranchTypeOK
  <2>5. Covered(call[r])'
    BY <2>1, <2>4, <1>2 DEF Covered
  <2> QED
    BY <1>2, <2>1, <2>3, <2>5 DEF MainInv
<1> QED
  BY <1>1, <1>3, <1>4 DEF MainInv


LEMMA UncoveredCallsMain ==
    ASSUME MainInv, UNCHANGED bvars PROVE MainInv'
<1>1. Mains' = Mains
  BY DEF bvars, Mains
<1>2. \A p \in BranchCalls : Covered(call[p])' <=> Covered(call[p])
  BY <1>1 DEF bvars, Covered
<1> QED
  BY <1>1, <1>2 DEF MainInv, BranchTypeOK, OneMainPerCustomer, bvars

(* A request that ends and leaves the branches alone.                      *)
LEMMA EndMain ==
    ASSUME MainInv, NEW r \in BranchCalls, call' = [call EXCEPT ![r] = Idle],
           UNCHANGED <<book, calls, overlapped>>,
           branch' \in [BranchIds -> Kinds \cup {"none"}], OneMainPerCustomer',
           ~overlapped => \A x, y \in Mains' : x = y,
           ~overlapped => call[r] # Idle
    PROVE  MainInv'
<1>1. BranchTypeOK'
  BY DEF MainInv, BranchTypeOK, BranchCall
<1>2. ASSUME ~overlapped, NEW q \in BranchCalls PROVE call'[q] = Idle
  BY <1>2 DEF MainInv, BranchTypeOK
<1> QED
  BY <1>1, <1>2 DEF MainInv

LEMMA CreateBranchMain ==
    ASSUME MainInv, NEW r \in BranchCalls, CreateBranch(r) PROVE MainInv'
<1>1. PICK b \in BranchIds \ Stored, kind \in Kinds : Begin(r, Saving(b, kind, kind = "main"))
  BY DEF CreateBranch, Kinds
<1>2. Saving(b, kind, kind = "main") \in BranchCall \ {Idle}
  BY DEF Saving, BranchCall, Kinds, Idle
<1>3. Covered(Saving(b, kind, kind = "main"))
  BY DEF Saving, Covered, Kinds
<1> QED
  BY <1>1, <1>2, <1>3, BeginMain

LEMMA UpdateBranchMain ==
    ASSUME MainInv, NEW r \in BranchCalls, UpdateBranch(r) PROVE MainInv'
<1>1. PICK b \in Stored, sent \in {"main", "plain", "unsent"} :
        LET kind == IF sent = "unsent" THEN branch[b] ELSE sent
        IN  Begin(r, Saving(b, kind, Promotes(sent, branch[b])))
  BY DEF UpdateBranch
<1> DEFINE kind == IF sent = "unsent" THEN branch[b] ELSE sent
           c == Saving(b, kind, Promotes(sent, branch[b]))
<1>2. b \in BranchIds /\ branch[b] \in Kinds /\ kind \in Kinds
  BY DEF Stored, Kinds, MainInv, BranchTypeOK
<1>3. c \in BranchCall \ {Idle}
  BY <1>2 DEF Saving, BranchCall, Kinds, Idle
<1>4. ASSUME ~overlapped PROVE Covered(c)
  <2>1. CASE Promotes(sent, branch[b])
    BY <1>2, <2>1 DEF Covered, Saving, Promotes
  <2>2. CASE ~Promotes(sent, branch[b])
    <3>1. c = [pc |-> "save", branch |-> b, kind |-> kind, demoted |-> {}]
      BY <2>2 DEF Saving
    <3>2. ASSUME kind = "main" PROVE Mains \subseteq {b}
      <4>1. branch[b] = "main"
        BY <2>2, <3>2 DEF Promotes
      <4>2. b \in Mains
        BY <4>1, <1>2 DEF Mains
      <4> QED
        BY <4>2, <1>4 DEF MainInv
    <3> HIDE DEF kind
    <3> QED
      BY <3>1, <3>2 DEF Covered
  <2> QED
    BY <2>1, <2>2
<1> HIDE DEF c
<1>5. Begin(r, c)
  BY <1>1 DEF c
<1> QED
  BY <1>3, <1>4, <1>5, BeginMain

LEMMA RemoveBranchMain ==
    ASSUME MainInv, NEW r \in BranchCalls, RemoveBranch(r) PROVE MainInv'
<1>1. PICK b \in BranchIds : Removable(b) /\ Begin(r, [pc |-> "delete", branch |-> b, demoted |-> {}])
  BY DEF RemoveBranch
<1>2. [pc |-> "delete", branch |-> b, demoted |-> {}] \in BranchCall \ {Idle}
  BY DEF BranchCall, Idle
<1>3. Covered([pc |-> "delete", branch |-> b, demoted |-> {}])
  BY <1>1 DEF Covered, Removable
<1> QED
  BY <1>1, <1>2, <1>3, BeginMain

LEMMA DemoteOthersMain ==
    ASSUME MainInv, NEW r \in BranchCalls, DemoteOthers(r) PROVE MainInv'
<1> DEFINE others == Mains \ {call[r].branch}
<1>1. /\ call[r].pc = "demote"
      /\ call' = [call EXCEPT ![r].pc = "save", ![r].demoted = others]
      /\ UNCHANGED <<book, branch, calls, overlapped>>
  BY DEF DemoteOthers
<1>2. Mains' = Mains /\ others \in SUBSET BranchIds
  BY <1>1 DEF Mains
<1>3. call[r] \in [pc : {"demote", "save"}, branch : BranchIds, kind : Kinds, demoted : SUBSET BranchIds]
  BY <1>1 DEF MainInv, BranchTypeOK, BranchCall, Idle
<1>4. call'[r] = [call[r] EXCEPT !.pc = "save", !.demoted = others]
  BY <1>1 DEF MainInv, BranchTypeOK
<1>5. call'[r] \in BranchCall
  BY <1>2, <1>3, <1>4 DEF BranchCall
<1>6. BranchTypeOK'
  BY <1>1, <1>5 DEF MainInv, BranchTypeOK
<1>7. OneMainPerCustomer'
  BY <1>1, <1>2 DEF MainInv, OneMainPerCustomer
<1>8. ASSUME ~overlapped
      PROVE  /\ \A p, q \in BranchCalls : call'[p] # Idle /\ call'[q] # Idle => p = q
             /\ \A p \in BranchCalls : call'[p] # Idle => Covered(call[p])'
  <2>1. call[r] # Idle
    BY <1>1 DEF Idle
  <2>2. \A q \in BranchCalls \ {r} : call[q] = Idle /\ call'[q] = Idle
    BY <1>1, <1>8, <2>1 DEF MainInv, BranchTypeOK
  <2>3. Covered(call[r])
    BY <1>8, <2>1 DEF MainInv
  <2>4. call'[r].pc = "save" /\ call'[r].kind = "main" /\ call'[r].branch = call[r].branch
        /\ call'[r].demoted = others
    <3>1. call[r].kind = "main"
      BY <1>1, <2>3 DEF Covered
    <3> HIDE DEF others
    <3>2. /\ call'[r].pc = "save" /\ call'[r].kind = call[r].kind
          /\ call'[r].branch = call[r].branch /\ call'[r].demoted = others
      BY <1>3, <1>4
    <3> QED
      BY <3>1, <3>2
  <2>5. Covered(call[r])'
    BY <2>4, <1>2 DEF Covered
  <2> QED
    BY <2>2, <2>5
<1> QED
  BY <1>1, <1>2, <1>6, <1>7, <1>8 DEF MainInv

(* What a save that is not refused makes of the branches.                  *)
LEMMA SaveEffect ==
    ASSUME MainInv, NEW r \in BranchCalls, Save(r)
    PROVE  /\ call[r] # Idle /\ call[r].branch \in BranchIds /\ call[r].kind \in Kinds
           /\ call' = [call EXCEPT ![r] = Idle] /\ UNCHANGED <<book, calls, overlapped>>
           /\ branch' \in [BranchIds -> Kinds \cup {"none"}]
           /\ \/ branch' = branch
              \/ /\ book = "customer" => Cardinality(Mains') <= 1
                 /\ branch'[call[r].branch] = call[r].kind
                 /\ \A b \in BranchIds \ {call[r].branch} :
                      branch'[b] = IF b \in call[r].demoted /\ b \in Stored THEN "plain" ELSE branch[b]
<1> DEFINE c == call[r]
           after == [b \in BranchIds |-> IF b = c.branch THEN c.kind
                                         ELSE IF b \in c.demoted /\ b \in Stored THEN "plain"
                                         ELSE branch[b]]
<1>1. c.pc = "save" /\ branch' = (IF UniqueMain(after) THEN after ELSE branch)
  BY DEF Save
<1>2. c \in [pc : {"demote", "save"}, branch : BranchIds, kind : Kinds, demoted : SUBSET BranchIds]
  BY <1>1 DEF MainInv, BranchTypeOK, BranchCall, Idle
<1>3. after \in [BranchIds -> Kinds \cup {"none"}]
  BY <1>2 DEF MainInv, BranchTypeOK, Kinds
<1>4. ASSUME UniqueMain(after), branch' = after, book = "customer" PROVE Cardinality(Mains') <= 1
  <2>1. Mains' = {b \in BranchIds : after[b] = "main"}
    BY <1>4 DEF Mains
  <2> QED
    BY <1>4, <2>1 DEF UniqueMain
<1>5. branch' = after => /\ branch'[c.branch] = c.kind
                         /\ \A b \in BranchIds \ {c.branch} :
                              branch'[b] = IF b \in c.demoted /\ b \in Stored THEN "plain" ELSE branch[b]
  BY <1>2
<1>6. call' = [call EXCEPT ![r] = Idle] /\ UNCHANGED <<book, calls, overlapped>>
  BY DEF Save
<1>7. c # Idle
  BY <1>1 DEF Idle
<1>8. branch \in [BranchIds -> Kinds \cup {"none"}]
  BY DEF MainInv, BranchTypeOK
<1> HIDE DEF after, c
<1>9. \/ branch' = branch
      \/ UniqueMain(after) /\ branch' = after
  BY <1>1
<1>10. c.branch \in BranchIds /\ c.kind \in Kinds
  BY <1>2
<1> QED
  BY <1>3, <1>4, <1>5, <1>6, <1>7, <1>8, <1>9, <1>10 DEF c


LEMMA SaveMain ==
    ASSUME MainInv, NEW r \in BranchCalls, Save(r) PROVE MainInv'
<1> DEFINE c == call[r]
<1>1. /\ c # Idle /\ c.branch \in BranchIds /\ c.kind \in Kinds
      /\ call' = [call EXCEPT ![r] = Idle] /\ UNCHANGED <<book, calls, overlapped>>
      /\ branch' \in [BranchIds -> Kinds \cup {"none"}]
  BY SaveEffect
<1>2. CASE branch' = branch
  <2>1. Mains' = Mains
    BY <1>2 DEF Mains
  <2>2. OneMainPerCustomer'
    BY <1>1, <2>1 DEF MainInv, OneMainPerCustomer
  <2> QED
    BY <1>1, <2>1, <2>2, EndMain DEF MainInv
<1>3. CASE /\ book = "customer" => Cardinality(Mains') <= 1
           /\ branch'[c.branch] = c.kind
           /\ \A b \in BranchIds \ {c.branch} :
                branch'[b] = IF b \in c.demoted /\ b \in Stored THEN "plain" ELSE branch[b]
  <2>1. OneMainPerCustomer'
    BY <1>1, <1>3 DEF OneMainPerCustomer
  <2>2. ASSUME ~overlapped PROVE \A x, y \in Mains' : x = y
    <3>1. Covered(c) /\ c.pc = "save"
      BY <1>1, <2>2 DEF MainInv, Save
    <3>2. \A x \in Mains : x \in Stored /\ x \in BranchIds
      BY DEF Mains, Stored
    <3>3. \A x \in Mains' : x \in BranchIds /\ (x # c.branch => x \in Mains /\ x \notin c.demoted)
      BY <1>3, <3>2 DEF Mains
    <3>4. \A x, y \in Mains : x = y
      BY <2>2 DEF MainInv
    <3>5. CASE c.kind = "main"
      BY <3>1, <3>3, <3>5 DEF Covered
    <3>6. CASE c.kind = "plain"
      <4>1. c.branch \notin Mains'
        BY <1>3, <3>6 DEF Mains
      <4> QED
        BY <3>3, <3>4, <4>1
    <3> QED
      BY <1>1, <3>5, <3>6 DEF Kinds
  <2> QED
    BY <1>1, <2>1, <2>2, EndMain
<1> QED
  BY <1>2, <1>3, SaveEffect

LEMMA DeleteBranchMain ==
    ASSUME MainInv, NEW r \in BranchCalls, DeleteBranch(r) PROVE MainInv'
<1>1. /\ call' = [call EXCEPT ![r] = Idle] /\ UNCHANGED <<book, calls, overlapped>>
      /\ branch' = [branch EXCEPT ![call[r].branch] = "none"]
      /\ call[r] # Idle
  BY DEF DeleteBranch, Idle
<1>2. branch' \in [BranchIds -> Kinds \cup {"none"}]
  BY <1>1 DEF MainInv, BranchTypeOK
<1>3. Mains' \in SUBSET Mains
  BY <1>1 DEF Mains, MainInv, BranchTypeOK
<1>4. Cardinality(Mains') <= Cardinality(Mains) /\ Cardinality(Mains) \in Nat /\ Cardinality(Mains') \in Nat
  BY <1>3, MainsFinite, FS_Subset, FS_CardinalityType
<1>5. OneMainPerCustomer'
  BY <1>1, <1>4 DEF MainInv, OneMainPerCustomer
<1>6. ~overlapped => \A x, y \in Mains' : x = y
  BY <1>3 DEF MainInv
<1> QED
  BY <1>1, <1>2, <1>5, <1>6, EndMain

LEMMA AbortBranchMain ==
    ASSUME MainInv, NEW r \in BranchCalls, AbortBranch(r) PROVE MainInv'
<1>1. /\ call' = [call EXCEPT ![r] = Idle] /\ UNCHANGED <<book, branch, calls, overlapped>>
      /\ call[r] # Idle
  BY DEF AbortBranch
<1>2. Mains' = Mains
  BY <1>1 DEF Mains
<1>3. OneMainPerCustomer'
  BY <1>1, <1>2 DEF MainInv, OneMainPerCustomer
<1> QED
  BY <1>1, <1>2, <1>3, EndMain DEF MainInv, BranchTypeOK

LEMMA BranchNextMain == ASSUME MainInv, BranchNext PROVE MainInv'
<1>1. PICK r \in BranchCalls :
        \/ CreateBranch(r) \/ UpdateBranch(r) \/ RemoveBranch(r)
        \/ DemoteOthers(r) \/ Save(r) \/ DeleteBranch(r) \/ AbortBranch(r)
  BY DEF BranchNext
<1> QED
  BY <1>1, CreateBranchMain, UpdateBranchMain, RemoveBranchMain, DemoteOthersMain, SaveMain,
     DeleteBranchMain, AbortBranchMain

(* The step that MainIsKept speaks of.                                     *)
Keeps ==
    ~overlapped' =>
      /\ Mains \subseteq {b \in BranchIds : branch'[b] # "none"}
      /\ Cardinality({b \in BranchIds : branch'[b] = "main"}) <= 1
      /\ \A b \in Mains : branch'[b] = "plain" =>
           \/ \E r \in BranchCalls : call[r] # Idle /\ call[r].branch = b
           \/ \E c \in BranchIds \ Mains : branch'[c] = "main"

LEMMA BranchNextKeeps == ASSUME MainInv, BranchNext PROVE Keeps
<1> SUFFICES ASSUME ~overlapped' PROVE Keeps
  BY DEF Keeps
<1>1. MainInv'
  BY BranchNextMain
<1>2. Cardinality(Mains') <= 1
  <2>1. \A x, y \in Mains' : x = y
    BY <1>1 DEF MainInv
  <2>2. IsFiniteSet(Mains')
    <3>1. Mains' \in SUBSET BranchIds
      BY DEF Mains
    <3> QED
      BY <3>1, FS_Subset, BranchAssumption
  <2> QED
    BY <2>1, <2>2, AtMostOne
<1>3. Cardinality({b \in BranchIds : branch'[b] = "main"}) <= 1
  BY <1>2 DEF Mains
<1>4. PICK r \in BranchCalls :
        \/ CreateBranch(r) \/ UpdateBranch(r) \/ RemoveBranch(r)
        \/ DemoteOthers(r) \/ Save(r) \/ DeleteBranch(r) \/ AbortBranch(r)
  BY DEF BranchNext
<1>5. CASE branch' = branch
  <2>1. \A b \in Mains : b \in BranchIds /\ branch'[b] = "main"
    BY <1>5 DEF Mains
  <2> QED
    BY <1>3, <2>1 DEF Keeps
<1>6. CASE Save(r) /\ branch' # branch
  <2> DEFINE c == call[r]
  <2>1. /\ c # Idle /\ c.branch \in BranchIds /\ c.kind \in Kinds /\ overlapped' = overlapped
        /\ branch'[c.branch] = c.kind
        /\ \A b \in BranchIds \ {c.branch} :
             branch'[b] = IF b \in c.demoted /\ b \in Stored THEN "plain" ELSE branch[b]
    BY <1>6, SaveEffect
  <2>2. Covered(c) /\ c.pc = "save" /\ \A x, y \in Mains : x = y
    BY <1>6, <2>1 DEF MainInv, Save
  <2>3. \A b \in Mains : b \in BranchIds /\ branch[b] = "main"
    BY DEF Mains
  <2>4. \A b \in Mains : branch'[b] # "none"
    BY <2>1, <2>3 DEF Kinds
  <2>5. ASSUME NEW b \in Mains, branch'[b] = "plain", c.branch # b
        PROVE  \E d \in BranchIds \ Mains : branch'[d] = "main"
    <3>1. b \in c.demoted
      BY <2>1, <2>3, <2>5
    <3>2. c.kind = "main"
      BY <2>1, <2>2, <3>1 DEF Covered, Kinds
    <3>3. c.branch \notin Mains
      BY <2>2, <2>5
    <3> QED
      BY <2>1, <3>2, <3>3
  <2> QED
    BY <1>3, <2>1, <2>3, <2>4, <2>5 DEF Keeps
<1>7. CASE DeleteBranch(r)
  <2>1. call[r] # Idle /\ overlapped' = overlapped /\ call[r].pc = "delete"
        /\ branch' = [branch EXCEPT ![call[r].branch] = "none"]
    BY <1>7 DEF DeleteBranch, Idle
  <2>2. call[r].branch \notin Mains
    BY <2>1 DEF MainInv, Covered
  <2>3. \A b \in Mains : b \in BranchIds /\ branch'[b] = "main"
    BY <2>1, <2>2 DEF Mains, MainInv, BranchTypeOK
  <2> QED
    BY <1>3, <2>3 DEF Keeps
<1> QED
  BY <1>4, <1>5, <1>6, <1>7 DEF CreateBranch, UpdateBranch, RemoveBranch, Begin, DemoteOthers, AbortBranch

(* However the requests of the back office overlap or end, a customer has  *)
(* one main branch at most.                                                *)
THEOREM BackofficeOneMain == Spec => []OneMainPerCustomer
<1> DEFINE all == <<bvars, svars, dvars, place>>
<1>1. Init => MainInv
  BY BranchInitMain DEF Init
<1>2. MainInv /\ [AddressBook \/ Invoicing \/ Dealing]_all => MainInv'
  <2>1. ASSUME MainInv, AddressBook PROVE MainInv'
    BY <2>1, BranchNextMain DEF AddressBook
  <2>2. ASSUME MainInv, Invoicing \/ Dealing \/ UNCHANGED all PROVE MainInv'
    BY <2>2, UncoveredCallsMain DEF Invoicing, Dealing
  <2> QED
    BY <2>1, <2>2
<1>3. MainInv => OneMainPerCustomer
  BY DEF MainInv
<1> QED
  BY <1>1, <1>2, <1>3, PTL DEF Spec

(* While requests come one after another the main branch, a customer's or  *)
(* a provider's, stays until its own update ends it or another is promoted.*)
THEOREM BackofficeKeepsMain == Spec => MainIsKept
<1> DEFINE all == <<bvars, svars, dvars, place>>
<1>1. Init => MainInv
  BY BranchInitMain DEF Init
<1>2. MainInv /\ [AddressBook \/ Invoicing \/ Dealing]_all => MainInv' /\ [Keeps]_bvars
  <2>1. ASSUME MainInv, AddressBook PROVE MainInv' /\ Keeps
    BY <2>1, BranchNextMain, BranchNextKeeps DEF AddressBook
  <2>2. ASSUME MainInv, Invoicing \/ Dealing \/ UNCHANGED all PROVE MainInv' /\ UNCHANGED bvars
    BY <2>2, UncoveredCallsMain DEF Invoicing, Dealing
  <2> QED
    BY <2>1, <2>2
<1>3. [][Keeps]_bvars => MainIsKept
  BY DEF MainIsKept, Keeps
<1> QED
  BY <1>1, <1>2, <1>3, PTL DEF Spec

-------------------------------------------------------------------------------
(* Invoices *)

Invoice ==
    [stored : BOOLEAN, uuid : Nat, sat : {"none", "vigente", "cancelado"},
     cancel : {"none", "cancelado"}]

Working == {"stamp", "cancel", "patch", "remove", "save"}

(* Type correctness of the invoice, of its stamps and of the copies the    *)
(* requests carry; an uuid is one the PAC has given.                       *)
StampTypeOK ==
    /\ row \in Invoice /\ row.uuid <= issued
    /\ issued \in Nat /\ cancelled \subseteq 1..issued
    /\ work \in [InvoiceCalls -> {Free} \cup [pc : Working, copy : Invoice]]
    /\ \A r \in InvoiceCalls : work[r] # Free =>
         /\ work[r].copy.uuid <= issued
         /\ work[r].pc = "stamp" => work[r].copy.uuid = 0
         /\ work[r].pc = "cancel" => work[r].copy.uuid # 0
    /\ quiet \in BOOLEAN

(* The stamps that are live are what the copy of the invoice says.         *)
Names(copy) ==
    /\ copy.stored
    /\ copy.uuid = 0 => copy.cancel = "none"
    /\ LiveStamps = IF copy.uuid # 0 /\ copy.cancel = "none" THEN {copy.uuid} ELSE {}

(* While requests come one after another and none dies, the row, or the    *)
(* copy of the request that is about to save it, names the live stamp.     *)
StampInv ==
    /\ StampTypeOK
    /\ quiet =>
         /\ \A x, y \in LiveStamps : x = y
         /\ \A p, q \in InvoiceCalls : work[p] # Free /\ work[q] # Free => p = q
         /\ (row.stored /\ \A p \in InvoiceCalls : work[p] = Free) => Names(row)
         /\ \A p \in InvoiceCalls : work[p] # Free =>
              Names(work[p].copy) /\ (work[p].pc # "save" => work[p].copy = row)

LEMMA LiveStampsFinite == ASSUME StampTypeOK PROVE IsFiniteSet(LiveStamps)
<1>1. LiveStamps \in SUBSET (1..issued) /\ issued \in Nat
  BY DEF LiveStamps, StampTypeOK
<1>2. IsFiniteSet(1..issued)
  BY <1>1, FS_Interval
<1> QED
  BY <1>1, <1>2, FS_Subset

LEMMA StampInitInv == ASSUME StampInit PROVE StampInv
<1>1. LiveStamps = {}
  BY DEF StampInit, LiveStamps
<1> QED
  BY <1>1 DEF StampInit, StampInv, StampTypeOK, Unstamped, Invoice, Names, Free

LEMMA UnstampedCallsInv == ASSUME StampInv, UNCHANGED svars PROVE StampInv'
<1>1. LiveStamps' = LiveStamps
  BY DEF svars, LiveStamps
<1>2. Names(row)' <=> Names(row)
  BY <1>1 DEF svars, Names
<1>3. \A p \in InvoiceCalls : Names(work[p].copy)' <=> Names(work[p].copy)
  BY <1>1 DEF svars, Names
<1> QED
  BY <1>1, <1>2, <1>3 DEF StampInv, StampTypeOK, svars

(* A request that loads the invoice.                                       *)
LEMMA LoadInv ==
    ASSUME StampInv, NEW r \in InvoiceCalls, NEW pc \in Working \ {"save"}, Load(r, pc),
           pc = "stamp" => row.uuid = 0, pc = "cancel" => row.uuid # 0
    PROVE  StampInv'
<1> DEFINE w == [pc |-> pc, copy |-> row]
<1>1. /\ work[r] = Free /\ row.stored /\ work' = [work EXCEPT ![r] = w]
      /\ quiet' = (quiet /\ \A q \in InvoiceCalls : work[q] = Free)
      /\ UNCHANGED <<row, issued, cancelled>>
  BY DEF Load
<1>2. row \in Invoice /\ work \in [InvoiceCalls -> {Free} \cup [pc : Working, copy : Invoice]]
  BY DEF StampInv, StampTypeOK
<1>3. w \in [pc : Working, copy : Invoice] /\ w # Free /\ work'[r] = w
  BY <1>1, <1>2 DEF Working, Free
<1>4. \A q \in InvoiceCalls \ {r} : work'[q] = work[q]
  BY <1>1, <1>2
<1>5. LiveStamps' = LiveStamps
  BY <1>1 DEF LiveStamps
<1>6. StampTypeOK'
  BY <1>1, <1>2, <1>3, <1>4 DEF StampInv, StampTypeOK
<1>7. ASSUME quiet' PROVE Names(work[r].copy)'
  <2>1. Names(row)
    BY <1>1, <1>7 DEF StampInv
  <2> QED
    BY <1>3, <1>5, <2>1 DEF Names
<1>8. ASSUME quiet' PROVE quiet /\ \A q \in InvoiceCalls \ {r} : work'[q] = Free
  BY <1>1, <1>4, <1>8 DEF StampInv, StampTypeOK
<1>9. ASSUME quiet' PROVE \A x, y \in LiveStamps' : x = y
  BY <1>5, <1>8, <1>9 DEF StampInv
<1>10. work'[r].copy = row'
  BY <1>1, <1>3
<1> HIDE DEF w
<1> QED
  BY <1>3, <1>6, <1>7, <1>8, <1>9, <1>10 DEF StampInv

(* What a copy is after a change of some of its columns.                   *)
(* What the PAC makes of the copy a request carries.                       *)
WithStamp(c, u) == [c EXCEPT !.uuid = u, !.sat = "vigente"]

LEMMA CopyStamped ==
    ASSUME NEW c \in Invoice, NEW u \in Nat
    PROVE  /\ WithStamp(c, u) \in Invoice /\ WithStamp(c, u).uuid = u
           /\ WithStamp(c, u).stored = c.stored /\ WithStamp(c, u).cancel = c.cancel
  BY DEF Invoice, WithStamp

LEMMA CopyCancelled ==
    ASSUME NEW c \in Invoice, NEW d, d = [c EXCEPT !.cancel = "cancelado", !.sat = "cancelado"]
    PROVE  d \in Invoice /\ d.uuid = c.uuid /\ d.stored = c.stored /\ d.cancel = "cancelado" /\ d.uuid \in Nat
  BY DEF Invoice

LEMMA CopyPatched ==
    ASSUME NEW c \in Invoice, NEW s \in {c.sat, "none", "vigente"}, NEW d, d = [c EXCEPT !.sat = s]
    PROVE  d \in Invoice /\ d.uuid = c.uuid /\ d.stored = c.stored /\ d.cancel = c.cancel
  BY DEF Invoice

(* A request that goes on with another copy: what the copy says is so.     *)
LEMMA ThenInv ==
    ASSUME StampInv, NEW r \in InvoiceCalls, work[r] # Free, NEW copy \in Invoice,
           work' = [work EXCEPT ![r] = [pc |-> "save", copy |-> copy]],
           UNCHANGED <<row, quiet>>, issued' \in Nat, issued <= issued', cancelled' \subseteq 1..issued',
           copy.uuid <= issued', quiet => Names(copy)'
    PROVE  StampInv'
<1> DEFINE w == [pc |-> "save", copy |-> copy]
<1>1. work \in [InvoiceCalls -> {Free} \cup [pc : Working, copy : Invoice]] /\ row \in Invoice
      /\ issued \in Nat /\ row.uuid <= issued
      /\ \A q \in InvoiceCalls : work[q] # Free => work[q].copy.uuid <= issued
  BY DEF StampInv, StampTypeOK
<1>2. w \in [pc : Working, copy : Invoice] /\ w # Free /\ work'[r] = w
      /\ \A q \in InvoiceCalls \ {r} : work'[q] = work[q]
  BY <1>1 DEF Working, Free
<1>3. \A q \in InvoiceCalls : work[q] # Free => work[q].copy.uuid \in Nat
  BY <1>1 DEF Invoice
<1>4. row.uuid \in Nat /\ copy.uuid \in Nat
  BY <1>1 DEF Invoice
<1>5. StampTypeOK'
  BY <1>1, <1>2, <1>3, <1>4 DEF StampInv, StampTypeOK
<1>6. ASSUME quiet
      PROVE  /\ \A q \in InvoiceCalls \ {r} : work'[q] = Free
             /\ \A x, y \in LiveStamps' : x = y
  <2>1. \A q \in InvoiceCalls \ {r} : work'[q] = Free
    BY <1>2, <1>6 DEF StampInv
  <2>2. Names(copy)'
    BY <1>6
  <2> QED
    BY <2>1, <2>2 DEF Names
<1>7. quiet => Names(work[r].copy)'
  BY <1>2 DEF Names
<1> QED
  BY <1>2, <1>5, <1>6, <1>7 DEF StampInv

LEMMA Loaded ==
    ASSUME StampInv, NEW r \in InvoiceCalls, work[r].pc \in Working
    PROVE  /\ work[r] # Free /\ work[r].copy \in Invoice /\ work[r].copy.uuid <= issued
           /\ issued \in Nat /\ cancelled \subseteq 1..issued
           /\ quiet => Names(work[r].copy)
<1>1. work[r] # Free
  BY DEF Working, Free
<1> QED
  BY <1>1 DEF StampInv, StampTypeOK

LEMMA PacStampsInv == ASSUME StampInv, NEW r \in InvoiceCalls, PacStamps(r) PROVE StampInv'
<1>0. PICK saved : saved = [work[r].copy EXCEPT !.uuid = issued + 1, !.sat = "vigente"]
  OBVIOUS
<1>1. /\ work[r].pc = "stamp" /\ issued' = issued + 1
      /\ work' = [work EXCEPT ![r] = [pc |-> "save", copy |-> saved]]
      /\ UNCHANGED <<row, quiet, cancelled>>
  BY <1>0 DEF PacStamps, Then
<1>2. /\ work[r] # Free /\ work[r].copy \in Invoice /\ issued \in Nat /\ cancelled \subseteq 1..issued
      /\ quiet => Names(work[r].copy)
  BY <1>1, Loaded DEF Working
<1>3. saved \in Invoice /\ saved.uuid = issued + 1 /\ saved.stored = work[r].copy.stored
      /\ saved.cancel = work[r].copy.cancel
  <2>1. saved = WithStamp(work[r].copy, issued + 1)
    BY <1>0 DEF WithStamp
  <2>2. issued + 1 \in Nat
    BY <1>2
  <2> QED
    BY <1>2, <2>1, <2>2, CopyStamped
<1>4. cancelled' \subseteq 1..issued'
  BY <1>1, <1>2
<1>5. ASSUME quiet PROVE Names(saved)'
  <2>1. work[r].copy.uuid = 0
    BY <1>1, <1>2 DEF StampInv, StampTypeOK
  <2>2. LiveStamps = {} /\ work[r].copy.cancel = "none" /\ work[r].copy.stored
    BY <1>2, <1>5, <2>1 DEF Names
  <2>3. LiveStamps' = LiveStamps \cup {issued + 1}
    BY <1>1, <1>2 DEF LiveStamps
  <2> QED
    BY <1>2, <1>3, <2>2, <2>3 DEF Names
<1>6. issued' \in Nat /\ issued <= issued' /\ saved.uuid <= issued'
  BY <1>1, <1>2, <1>3
<1> QED
  BY <1>1, <1>2, <1>3, <1>4, <1>5, <1>6, ThenInv

LEMMA PacCancelsInv == ASSUME StampInv, NEW r \in InvoiceCalls, PacCancels(r) PROVE StampInv'
<1>0. PICK saved : saved = [work[r].copy EXCEPT !.cancel = "cancelado", !.sat = "cancelado"]
  OBVIOUS
<1>1. /\ work[r].pc = "cancel" /\ cancelled' = cancelled \cup {work[r].copy.uuid}
      /\ work' = [work EXCEPT ![r] = [pc |-> "save", copy |-> saved]]
      /\ UNCHANGED <<row, quiet, issued>>
  BY <1>0 DEF PacCancels, Then
<1>2. /\ work[r] # Free /\ work[r].copy \in Invoice /\ issued \in Nat /\ cancelled \subseteq 1..issued
      /\ work[r].copy.uuid <= issued /\ (quiet => Names(work[r].copy))
  BY <1>1, Loaded DEF Working
<1>3. saved \in Invoice /\ saved.uuid = work[r].copy.uuid /\ saved.stored = work[r].copy.stored
      /\ saved.cancel = "cancelado" /\ saved.uuid \in Nat
  BY <1>0, <1>2, CopyCancelled
<1>4. LiveStamps' = LiveStamps \ {saved.uuid}
  BY <1>1, <1>3 DEF LiveStamps
<1>5. saved.uuid # 0
  BY <1>1, <1>2, <1>3 DEF StampInv, StampTypeOK
<1>6. quiet => Names(saved)'
  BY <1>2, <1>3, <1>4, <1>5 DEF Names
<1>7. saved.uuid \in 1..issued
  BY <1>2, <1>3, <1>5
<1>8. cancelled' \subseteq 1..issued'
  BY <1>1, <1>2, <1>3, <1>7
<1>9. issued' \in Nat /\ issued <= issued' /\ saved.uuid <= issued'
  BY <1>1, <1>2, <1>3
<1> QED
  BY <1>1, <1>2, <1>3, <1>6, <1>8, <1>9, ThenInv

LEMMA PatchInv == ASSUME StampInv, NEW r \in InvoiceCalls, Patch(r) PROVE StampInv'
<1>1. PICK sat \in {work[r].copy.sat, "none", "vigente"} :
        work' = [work EXCEPT ![r] = [pc |-> "save", copy |-> [work[r].copy EXCEPT !.sat = sat]]]
  BY DEF Patch, Then
<1>0. PICK saved : saved = [work[r].copy EXCEPT !.sat = sat]
  OBVIOUS
<1>2. work[r].pc = "patch" /\ UNCHANGED <<row, quiet, issued, cancelled>>
  BY DEF Patch
<1>3. /\ work[r] # Free /\ work[r].copy \in Invoice /\ issued \in Nat /\ cancelled \subseteq 1..issued
      /\ work[r].copy.uuid <= issued /\ (quiet => Names(work[r].copy))
  BY <1>2, Loaded DEF Working
<1>4. saved \in Invoice /\ saved.uuid = work[r].copy.uuid /\ saved.stored = work[r].copy.stored
      /\ saved.cancel = work[r].copy.cancel
  BY <1>0, <1>1, <1>3, CopyPatched
<1>5. LiveStamps' = LiveStamps
  BY <1>2 DEF LiveStamps
<1>6. quiet => Names(saved)'
  BY <1>3, <1>4, <1>5 DEF Names
<1>7. issued' \in Nat /\ issued <= issued' /\ saved.uuid <= issued' /\ cancelled' \subseteq 1..issued'
  BY <1>2, <1>3, <1>4
<1>8. work' = [work EXCEPT ![r] = [pc |-> "save", copy |-> saved]]
  BY <1>0, <1>1
<1> QED
  BY <1>2, <1>3, <1>4, <1>6, <1>7, <1>8, ThenInv

(* A request that ends, and what it leaves in the row.                     *)
LEMMA FinishInv ==
    ASSUME StampInv, NEW r \in InvoiceCalls, work[r] # Free, work' = [work EXCEPT ![r] = Free],
           row' \in Invoice, row'.uuid <= issued, UNCHANGED <<issued, cancelled>>,
           quiet' \in BOOLEAN, quiet' => quiet, quiet' /\ row'.stored => Names(row)'
    PROVE  StampInv'
<1>1. work \in [InvoiceCalls -> {Free} \cup [pc : Working, copy : Invoice]]
  BY DEF StampInv, StampTypeOK
<1>2. work'[r] = Free /\ \A q \in InvoiceCalls \ {r} : work'[q] = work[q]
  BY <1>1
<1>3. LiveStamps' = LiveStamps
  BY DEF LiveStamps
<1>4. StampTypeOK'
  BY <1>1, <1>2 DEF StampInv, StampTypeOK
<1>5. ASSUME quiet' PROVE \A q \in InvoiceCalls : work'[q] = Free
  BY <1>2, <1>5 DEF StampInv
<1> QED
  BY <1>3, <1>4, <1>5 DEF StampInv

LEMMA SaveInvoiceInv == ASSUME StampInv, NEW r \in InvoiceCalls, SaveInvoice(r) PROVE StampInv'
<1>1. /\ work[r].pc = "save" /\ row' = work[r].copy /\ work' = [work EXCEPT ![r] = Free]
      /\ UNCHANGED <<issued, cancelled, quiet>>
  BY DEF SaveInvoice, Finish, Then
<1>2. /\ work[r] # Free /\ work[r].copy \in Invoice /\ work[r].copy.uuid <= issued
      /\ quiet => Names(work[r].copy)
  BY <1>1, Loaded DEF Working
<1>3. LiveStamps' = LiveStamps
  BY <1>1 DEF LiveStamps
<1>4. quiet' => Names(row)'
  BY <1>1, <1>2, <1>3 DEF Names
<1>5. quiet \in BOOLEAN
  BY DEF StampInv, StampTypeOK
<1> QED
  BY <1>1, <1>2, <1>4, <1>5, FinishInv

LEMMA DeleteInvoiceInv == ASSUME StampInv, NEW r \in InvoiceCalls, DeleteInvoice(r) PROVE StampInv'
<1>1. /\ work[r].pc = "remove" /\ row' = [Unstamped EXCEPT !.stored = FALSE]
      /\ work' = [work EXCEPT ![r] = Free] /\ UNCHANGED <<issued, cancelled, quiet>>
  BY DEF DeleteInvoice, Finish, Then
<1>2. work[r] # Free /\ issued \in Nat
  BY <1>1, Loaded DEF Working
<1>3. row' \in Invoice /\ ~row'.stored /\ row'.uuid = 0
  BY <1>1 DEF Unstamped, Invoice
<1>4. quiet \in BOOLEAN /\ row'.uuid <= issued
  BY <1>2, <1>3 DEF StampInv, StampTypeOK
<1> QED
  BY <1>1, <1>2, <1>3, <1>4, FinishInv

LEMMA DieInv == ASSUME StampInv, NEW r \in InvoiceCalls, Die(r) PROVE StampInv'
<1>1. /\ work[r] # Free /\ work' = [work EXCEPT ![r] = Free] /\ quiet' = FALSE
      /\ UNCHANGED <<row, issued, cancelled>>
  BY DEF Die, Then
<1>2. row \in Invoice /\ row.uuid <= issued
  BY DEF StampInv, StampTypeOK
<1> QED
  BY <1>1, <1>2, FinishInv

LEMMA PacRefusesInv == ASSUME StampInv, NEW r \in InvoiceCalls, PacRefuses(r) PROVE StampInv'
<1>1. /\ work[r].pc \in {"stamp", "cancel"} /\ work' = [work EXCEPT ![r] = Free]
      /\ UNCHANGED <<row, issued, cancelled, quiet>>
  BY DEF PacRefuses, Finish, Then
<1>2. work[r] # Free /\ (quiet => Names(work[r].copy))
  BY <1>1, Loaded DEF Working
<1>3. quiet \in BOOLEAN /\ row \in Invoice /\ row.uuid <= issued
  BY DEF StampInv, StampTypeOK
<1>4. LiveStamps' = LiveStamps
  BY <1>1 DEF LiveStamps
<1>5. quiet => Names(row)'
  <2>1. quiet => work[r].copy = row
    BY <1>1, <1>2 DEF StampInv
  <2> QED
    BY <1>1, <1>2, <1>4, <2>1 DEF Names
<1> QED
  BY <1>1, <1>2, <1>3, <1>5, FinishInv

LEMMA StampNextInv == ASSUME StampInv, StampNext PROVE StampInv'
<1> SUFFICES ASSUME NEW r \in InvoiceCalls,
                    \/ BeginStamp(r) \/ PacStamps(r) \/ BeginCancel(r) \/ PacCancels(r)
                    \/ PacRefuses(r) \/ BeginPatch(r) \/ Patch(r) \/ SaveInvoice(r)
                    \/ BeginRemove(r) \/ DeleteInvoice(r) \/ Die(r)
             PROVE  StampInv'
  BY DEF StampNext
<1>1. CASE BeginStamp(r)
  BY <1>1, LoadInv DEF BeginStamp, Stampable, Working
<1>2. CASE BeginCancel(r)
  BY <1>2, LoadInv DEF BeginCancel, Working
<1>3. CASE BeginPatch(r) \/ BeginRemove(r)
  BY <1>3, LoadInv DEF BeginPatch, BeginRemove, Working
<1> QED
  BY <1>1, <1>2, <1>3, PacStampsInv, PacCancelsInv, PacRefusesInv, PatchInv, SaveInvoiceInv,
     DeleteInvoiceInv, DieInv

LEMMA StampInvStamped == ASSUME StampInv PROVE StampedOnce
<1>1. IsFiniteSet(LiveStamps)
  BY LiveStampsFinite DEF StampInv
<1>2. quiet => Cardinality(LiveStamps) <= 1
  BY <1>1, AtMostOne DEF StampInv
<1> QED
  BY <1>2 DEF StampedOnce, StampInv, Names

(* While requests come one after another and none dies, the SAT holds one  *)
(* live stamp of an invoice at most, and the invoice names it.             *)
THEOREM BackofficeStampedOnce == Spec => []StampedOnce
<1> DEFINE all == <<bvars, svars, dvars, place>>
<1>1. Init => StampInv
  BY StampInitInv DEF Init
<1>2. StampInv /\ [AddressBook \/ Invoicing \/ Dealing]_all => StampInv'
  <2>1. ASSUME StampInv, Invoicing PROVE StampInv'
    BY <2>1, StampNextInv DEF Invoicing
  <2>2. ASSUME StampInv, AddressBook \/ Dealing \/ UNCHANGED all PROVE StampInv'
    BY <2>2, UnstampedCallsInv DEF AddressBook, Dealing
  <2> QED
    BY <2>1, <2>2
<1>3. StampInv => StampedOnce
  BY StampInvStamped
<1> QED
  BY <1>1, <1>2, <1>3, PTL DEF Spec

-------------------------------------------------------------------------------
(* Prices *)

(* Rounding moves a number by half a unit at most, in either direction.    *)
LEMMA RoundedIsNearest ==
    ASSUME NEW n \in Int, NEW d \in Nat \ {0}
    PROVE  /\ Rounded(n, d) \in Int
           /\ 2 * (Rounded(n, d) * d - n) <= d
           /\ 2 * (n - Rounded(n, d) * d) <= d
<1> DEFINE q == (2 * n + d) \div (2 * d)
           p == (d - 2 * n) \div (2 * d)
<1>1. q \in Int /\ q * (2 * d) <= 2 * n + d /\ 2 * n + d < q * (2 * d) + 2 * d
  OBVIOUS
<1>2. p \in Int /\ p * (2 * d) <= d - 2 * n /\ d - 2 * n < p * (2 * d) + 2 * d
  OBVIOUS
<1>3. CASE n >= 0
  <2>1. Rounded(n, d) = q
    BY <1>3 DEF Rounded
  <2> HIDE DEF q
  <2> QED
    BY <1>1, <2>1
<1>4. CASE ~(n >= 0)
  <2>1. Rounded(n, d) = -p
    BY <1>4 DEF Rounded
  <2> HIDE DEF p
  <2> QED
    BY <1>2, <2>1
<1> QED
  BY <1>3, <1>4

(* A price that a client asserts and that passes is within a cent and a    *)
(* half of the price the order service resolves.                           *)
THEOREM ClaimIsClose ==
    ASSUME NEW claimed \in Nat, NEW resolved \in Nat, quotedPriceMatches(claimed, resolved)
    PROVE  claimed - resolved < 15 /\ resolved - claimed < 15
  BY DEF quotedPriceMatches, Rounded, Abs

(* Whatever the items of a list, a bigger quantity is not priced by a      *)
(* lower tier than a smaller one.                                          *)
THEOREM BiggerNeverLower ==
    ASSUME NEW tiers, \A i \in tiers : i.minQty \in Nat /\ i.createdAt \in Nat,
           NEW list, NEW on, NEW p \in Nat, NEW q \in Nat, p <= q,
           NEW i \in Tier(tiers, list, p, on), NEW j \in Tier(tiers, list, q, on)
    PROVE  MinQty(i) <= MinQty(j)
  BY DEF Tier, Qualifies, Before, MinQty

(* Between nothing and everything off, in hundredths of a percent.         *)
Percent == {pct \in Int : 0 <= pct /\ pct <= 10000}

LEMMA PercentLeaves == ASSUME NEW pct \in Percent PROVE 10000 - pct \in Nat
  BY DEF Percent

LEMMA PercentIs == ASSUME NEW r \in Int, ~(r <= -1), ~(r >= 10001) PROVE r \in Percent
  BY DEF Percent

(* A price a rep negotiated shows as a discount of 0 to 100 percent.       *)
THEOREM DiscountInRange ==
    ASSUME NEW listPrice \in Nat, NEW unitPrice \in Nat
    PROVE  negotiatedPrice(listPrice, unitPrice, Unsent).discountPct \in Percent
<1> DEFINE e == Kept(unitPrice)
           n == (listPrice - e) * 10000
           r == Rounded(n, listPrice)
<1>1. negotiatedPrice(listPrice, unitPrice, Unsent).discountPct = derivedPct(listPrice, e)
  <2>1. unitPrice # Unsent
    BY DEF Unsent
  <2> QED
    BY <2>1 DEF negotiatedPrice
<1>2. e \in Nat
  <2>1. Rounded(unitPrice, 10) \in Nat
    BY DEF Rounded
  <2> QED
    BY <2>1 DEF Kept
<1>3. derivedPct(listPrice, e) = IF listPrice <= e THEN 0 ELSE r
  BY DEF derivedPct
<1> HIDE DEF e
<1>4. ASSUME listPrice <= e PROVE derivedPct(listPrice, e) \in Percent
  <2>1. derivedPct(listPrice, e) = 0
    BY <1>3, <1>4
  <2> QED
    BY <2>1 DEF Percent
<1>5. ASSUME ~(listPrice <= e) PROVE derivedPct(listPrice, e) \in Percent
  <2>1. n \in Int /\ 0 <= n /\ n <= listPrice * 10000 /\ listPrice \in Nat \ {0}
    BY <1>2, <1>5
  <2> HIDE DEF n
  <2>2. r \in Int /\ 2 * (r * listPrice - n) <= listPrice /\ 2 * (n - r * listPrice) <= listPrice
    BY <2>1, RoundedIsNearest
  <2> HIDE DEF r
  <2>3. ASSUME r <= -1 PROVE FALSE
    <3>1. r * listPrice <= -listPrice
      BY <2>1, <2>2, <2>3
    <3> QED
      BY <2>1, <2>2, <3>1
  <2>4. ASSUME r >= 10001 PROVE FALSE
    <3>1. r * listPrice >= 10001 * listPrice
      BY <2>1, <2>2, <2>4
    <3> QED
      BY <2>1, <2>2, <3>1
  <2>5. r \in Percent
    <3>1. r \in Int
      BY <2>2
    <3>2. ~(r <= -1)
      BY <2>3
    <3>3. ~(r >= 10001)
      BY <2>4
    <3> QED
      BY <3>1, <3>2, <3>3, PercentIs
  <2>6. derivedPct(listPrice, e) = r
    BY <1>3, <1>5
  <2> QED
    BY <2>5, <2>6
<1>6. derivedPct(listPrice, e) \in Percent
  BY <1>4, <1>5
<1> QED
  BY <1>1, <1>6

(* A line that the columns of a quote keep whole costs in the order what   *)
(* it cost in the quote.                                                   *)
THEOREM ConversionKeepsLine ==
    ASSUME NEW c \in Nat, NEW p \in Nat, NEW taxRate \in Nat
    PROVE  LET line == PricedLine(10 * c, 10 * p, taxRate)
           IN  SnapshotLine(KeptLine(line)) = line
<1> DEFINE line == PricedLine(10 * c, 10 * p, taxRate)
           net == Rounded(10 * c * (10 * p), 10000)
           tax == Rounded(net * taxRate, 10000)
<1>1. line = [qty |-> 10 * c, unitPrice |-> 10 * p, net |-> net, tax |-> tax, lineTotal |-> net + tax]
  BY DEF PricedLine, Line, priceLine
<1>2. Kept(10 * c) = 10 * c /\ Kept(10 * p) = 10 * p
  BY DEF Kept, Rounded
<1> HIDE DEF net, tax
<1>3. KeptLine(line) = line
  <2>1. PICK l : l = line
    OBVIOUS
  <2> HIDE DEF line
  <2>2. l = [qty |-> 10 * c, unitPrice |-> 10 * p, net |-> net, tax |-> tax, lineTotal |-> net + tax]
    BY <1>1, <2>1
  <2>3. KeptLine(l) = [l EXCEPT !.qty = Kept(l.qty), !.unitPrice = Kept(l.unitPrice)]
    BY DEF KeptLine
  <2>4. Kept(l.qty) = l.qty /\ Kept(l.unitPrice) = l.unitPrice
    BY <1>2, <2>2
  <2>5. KeptLine(l) = l
    BY <2>2, <2>3, <2>4
  <2> QED
    BY <2>1, <2>5
<1>4. SnapshotLine(line) = [qty |-> 10 * c, unitPrice |-> 10 * p, net |-> net, tax |-> tax, lineTotal |-> net + tax]
  BY <1>1 DEF SnapshotLine, Line, net
<1> QED
  BY <1>1, <1>3, <1>4

(* What the columns keep is half a cent away at most.                      *)
LEMMA KeptIsNear ==
    ASSUME NEW n \in Nat
    PROVE  Kept(n) \in Nat /\ Kept(n) - n <= 5 /\ n - Kept(n) <= 5
<1>1. PICK r \in Int : r = Rounded(n, 10) /\ 2 * (r * 10 - n) <= 10 /\ 2 * (n - r * 10) <= 10
  <2>1. n \in Int /\ 10 \in Nat \ {0}
    OBVIOUS
  <2> QED
    BY <2>1, RoundedIsNearest
<1>2. r >= 0
  BY <1>1
<1> QED
  BY <1>1, <1>2 DEF Kept

LEMMA NetIsNear ==
    ASSUME NEW n \in Int
    PROVE  \E r \in Int : r = Rounded(n, 10000) /\ 2 * (10000 * r - n) <= 10000
                                                /\ 2 * (n - 10000 * r) <= 10000
<1>1. 10000 \in Nat \ {0}
  OBVIOUS
<1>2. /\ Rounded(n, 10000) \in Int
      /\ 2 * (Rounded(n, 10000) * 10000 - n) <= 10000
      /\ 2 * (n - Rounded(n, 10000) * 10000) <= 10000
  BY <1>1, RoundedIsNearest
<1>3. PICK r \in Int : r = Rounded(n, 10000)
  BY <1>2
<1>4. 2 * (10000 * r - n) <= 10000 /\ 2 * (n - 10000 * r) <= 10000
  BY <1>2, <1>3
<1> QED
  BY <1>3, <1>4

(* Two nets differ by what their products do, and by one rounding.         *)
LEMMA NetsDiffer ==
    ASSUME NEW x \in Int, NEW y \in Int, NEW d \in Nat, x - y <= d, y - x <= d
    PROVE  10000 * Abs(Rounded(x, 10000) - Rounded(y, 10000)) <= d + 10000
<1>1. PICK a \in Int : a = Rounded(x, 10000) /\ 2 * (10000 * a - x) <= 10000
                       /\ 2 * (x - 10000 * a) <= 10000
  BY NetIsNear
<1>2. PICK b \in Int : b = Rounded(y, 10000) /\ 2 * (10000 * b - y) <= 10000
                       /\ 2 * (y - 10000 * b) <= 10000
  BY NetIsNear
<1>3. 10000 * (a - b) <= d + 10000 /\ 10000 * (b - a) <= d + 10000
  BY <1>1, <1>2
<1> QED
  BY <1>1, <1>2, <1>3 DEF Abs

(* A percentage off never charges more than the list price.                *)
LEMMA PercentOffIsLess ==
    ASSUME NEW l \in Nat, NEW d \in Percent
    PROVE  10 * Rounded(l * (10000 - d), 100000) \in 0..Kept(l)
<1>1. PICK a \in Nat : a = l * (10000 - d) /\ a <= 10000 * l
  <2>1. 10000 - d \in Nat /\ d \in Nat
    BY DEF Percent
  <2>2. PICK k \in Nat : k = 10000 - d /\ k <= 10000
    BY <2>1
  <2>3. l * k \in Nat /\ l * k <= 10000 * l
    BY <2>2
  <2> QED
    BY <2>2, <2>3
<1>2. PICK r \in Nat : r = Rounded(a, 100000) /\ 200000 * r <= 2 * a + 100000
  BY DEF Rounded
<1>3. PICK k \in Nat : k = Rounded(l, 10) /\ 20 * k > 2 * l - 10
  BY DEF Rounded
<1>4. r <= k
  BY <1>1, <1>2, <1>3
<1> QED
  BY <1>1, <1>2, <1>3, <1>4 DEF Kept

(* What the percentage that is shown for a negotiated price would charge.  *)
LEMMA ShownIsNear ==
    ASSUME NEW l \in Nat, NEW e \in Nat, e < l, NEW p \in Percent, p = derivedPct(l, e),
           NEW a \in Int, a = l * (10000 - p)
    PROVE  2 * (a - 10000 * e) <= l /\ 2 * (10000 * e - a) <= l
<1>1. PICK n \in Nat : n = (l - e) * 10000
  OBVIOUS
<1>2. p = Rounded(n, l) /\ l \in Nat \ {0}
  <2>1. ~(l <= e) /\ l \in Nat \ {0}
    OBVIOUS
  <2>2. derivedPct(l, e) = Rounded(n, l)
    BY <1>1, <2>1 DEF derivedPct
  <2> QED
    BY <2>1, <2>2
<1>3. 2 * (p * l - n) <= l /\ 2 * (n - p * l) <= l
  BY <1>2, RoundedIsNearest
<1>4. p \in Int
  BY DEF Percent
<1>5. l * (10000 - p) = 10000 * l - p * l
  BY <1>4
<1>6. PICK x \in Int : x = p * l
  BY <1>4
<1>7. 2 * (x - n) <= l /\ 2 * (n - x) <= l
  BY <1>3, <1>6
<1>8. a = 10000 * l - x
  BY <1>5, <1>6
<1> QED
  BY <1>1, <1>7, <1>8

(* A line whose price a rep negotiated at or below the list can be         *)
(* explained by the percentage it shows: taking that off the list price    *)
(* gives the price charged, within half a cent and the rounding of the     *)
(* percentage; and a negotiated percentage charges from nothing to the     *)
(* list price.                                                             *)
THEOREM NegotiatedIsExplained ==
    ASSUME NEW l \in Nat, NEW u \in Nat, NEW d \in Percent \ {0}
    PROVE  /\ negotiatedPrice(l, Unsent, d).effective \in 0..Kept(l)
           /\ LET byPrice == negotiatedPrice(l, u, Unsent)
                  again == negotiatedPrice(l, Unsent, byPrice.discountPct)
              IN  Kept(u) <= l =>
                    Abs(again.effective - byPrice.effective) <= 5 + Ceiling(l, 20000)
<1>1. d \in Percent /\ d \notin {Unsent, 0}
  BY DEF Percent, Unsent
<1>2. negotiatedPrice(l, Unsent, d).effective = 10 * Rounded(l * (10000 - d), 100000)
  BY <1>1 DEF negotiatedPrice
<1>3. negotiatedPrice(l, Unsent, d).effective \in 0..Kept(l)
  BY <1>1, <1>2, PercentOffIsLess
<1>4. PICK e \in Nat : e = Kept(u)
  BY KeptIsNear
<1>5. u # Unsent
  BY DEF Unsent
<1>6. PICK p : p = derivedPct(l, e)
  OBVIOUS
<1>7. negotiatedPrice(l, u, Unsent) = [effective |-> e, discountPct |-> p]
  BY <1>4, <1>5, <1>6 DEF negotiatedPrice
<1>8. p \in Percent
  BY <1>7, DiscountInRange
<1>9. PICK c \in Int : c = Ceiling(l, 20000) /\ l <= 20000 * c
  BY DEF Ceiling
<1>10. PICK again : again = negotiatedPrice(l, Unsent, p).effective
  OBVIOUS
<1>11. ASSUME e <= l PROVE Abs(again - e) <= 5 + c
  <2>1. CASE l <= e
    <3>1. e = l /\ p = 0
      BY <1>6, <1>11, <2>1 DEF derivedPct
    <3>2. again = l
      BY <1>10, <3>1 DEF negotiatedPrice
    <3> QED
      BY <1>9, <3>1, <3>2 DEF Abs
  <2>2. CASE ~(l <= e) /\ p = 0
    <3>1. again = l
      BY <1>10, <2>2 DEF negotiatedPrice
    <3>2. PICK a \in Int : a = l * (10000 - p) /\ a = 10000 * l
      BY <2>2
    <3>a. e < l
      BY <2>2
    <3>b. 2 * (a - 10000 * e) <= l
      BY <1>6, <1>8, <3>2, <3>a, ShownIsNear
    <3>3. 20000 * (l - e) <= l
      BY <3>2, <3>b
    <3> QED
      BY <1>9, <2>2, <3>1, <3>3 DEF Abs
  <2>3. CASE ~(l <= e) /\ p # 0
    <3>1. p \notin {Unsent, 0}
      BY <1>8, <2>3 DEF Percent, Unsent
    <3>2. again = 10 * Rounded(l * (10000 - p), 100000)
      BY <1>10, <3>1 DEF negotiatedPrice
    <3>3. p \in Int
      BY <1>8 DEF Percent
    <3>4. PICK a \in Int : a = l * (10000 - p)
      BY <3>3
    <3>a. e < l
      BY <2>3
    <3>5. 2 * (a - 10000 * e) <= l /\ 2 * (10000 * e - a) <= l
      BY <1>6, <1>8, <3>4, <3>a, ShownIsNear
    <3>b. /\ Rounded(a, 100000) \in Int
          /\ 2 * (Rounded(a, 100000) * 100000 - a) <= 100000
          /\ 2 * (a - Rounded(a, 100000) * 100000) <= 100000
      <4>1. 100000 \in Nat \ {0}
        OBVIOUS
      <4> QED
        BY <4>1, RoundedIsNearest
    <3>6. PICK r \in Int : r = Rounded(a, 100000)
      BY <3>b
    <3>c. 2 * (r * 100000 - a) <= 100000 /\ 2 * (a - r * 100000) <= 100000
      BY <3>b, <3>6
    <3>7. again = 10 * r
      BY <3>2, <3>4, <3>6
    <3>8. 10000 * (again - e) <= 50000 + 10000 * c /\ 10000 * (e - again) <= 50000 + 10000 * c
      BY <1>9, <3>5, <3>7, <3>c
    <3> QED
      BY <3>7, <3>8 DEF Abs
  <2> QED
    BY <2>1, <2>2, <2>3
<1> QED
  BY <1>3, <1>4, <1>7, <1>9, <1>10, <1>11

(* A quantity at a claimed price and at the price that matches it.         *)
LEMMA ClaimMovesNet ==
    ASSUME NEW qty \in Nat, NEW claimed \in Nat, NEW resolved \in Nat,
           quotedPriceMatches(claimed, resolved)
    PROVE  10000 * Abs(Rounded(qty * resolved, 10000) - Rounded(qty * claimed, 10000))
              <= 15 * qty + 10000
<1>1. PICK c \in Int : c = resolved - claimed /\ c <= 15 /\ -c <= 15
  BY ClaimIsClose
<1>2. qty * resolved - qty * claimed = qty * c /\ qty * claimed - qty * resolved = qty * (-c)
  BY <1>1
<1>3. qty * c <= 15 * qty /\ qty * (-c) <= 15 * qty
  BY <1>1
<1>4. PICK x \in Int, y \in Int, d \in Nat : x = qty * resolved /\ y = qty * claimed /\ d = 15 * qty
  OBVIOUS
<1>5. x - y <= d /\ y - x <= d
  BY <1>2, <1>3, <1>4
<1> QED
  BY <1>4, <1>5, NetsDiffer

(* A quantity and a price, and what the columns keep of the two.           *)
LEMMA KeepingMovesNet ==
    ASSUME NEW qty \in Nat, NEW price \in Nat
    PROVE  10000 * Abs(Rounded(Kept(qty) * Kept(price), 10000) - Rounded(qty * price, 10000))
              <= 5 * (Kept(qty) + Kept(price)) + 10025
<1>1. PICK kq \in Nat, kp \in Nat : kq = Kept(qty) /\ kp = Kept(price)
  BY KeptIsNear
<1>2. PICK a \in Int, b \in Int : /\ a = qty - kq /\ a <= 5 /\ -a <= 5
                                  /\ b = price - kp /\ b <= 5 /\ -b <= 5
  BY <1>1, KeptIsNear
<1>3. a * kp <= 5 * kp /\ -(a * kp) <= 5 * kp
  BY <1>2
<1>4. b * kq <= 5 * kq /\ -(b * kq) <= 5 * kq
  BY <1>2
<1>5. a * b <= 25 /\ -(a * b) <= 25
  BY <1>2
<1>6. qty = kq + a /\ price = kp + b
  BY <1>2
<1>7. (kq + a) * (kp + b) = kq * kp + a * kp + b * kq + a * b
  OBVIOUS
<1>8. PICK x \in Int, y \in Int, d \in Nat :
         x = kq * kp /\ y = qty * price /\ d = 5 * (kq + kp) + 25
  OBVIOUS
<1>9. y - x = a * kp + b * kq + a * b
  BY <1>6, <1>7, <1>8
<1>10. x - y <= d /\ y - x <= d
  BY <1>3, <1>4, <1>5, <1>8, <1>9
<1>11. 10000 * Abs(Rounded(x, 10000) - Rounded(y, 10000)) <= d + 10000
  BY <1>10, NetsDiffer
<1> QED
  BY <1>1, <1>8, <1>11

(* Induction up to a number, the property as the set of what has it: the   *)
(* prefix 1..n of a number that lacked it would have a smallest one.       *)
LEMMA UpTo ==
    ASSUME NEW m \in Nat, NEW F, 0 \in F, \A n \in 0..(m - 1) : n \in F => n + 1 \in F
    PROVE  \A n \in 0..m : n \in F
<1> DEFINE Lacks == {T \in SUBSET (1..m) : \E n \in 0..m : T = 1..n /\ n \notin F}
<1>1. SUFFICES ASSUME NEW k \in 0..m, k \notin F PROVE FALSE
  OBVIOUS
<1>2. IsWellFoundedOn(StrictSubsetOrdering(1..m), SUBSET (1..m))
  <2>1. PICK S : S = 1..m
    OBVIOUS
  <2>2. IsFiniteSet(S)
    BY <2>1, FS_Interval
  <2>3. IsWellFoundedOn(StrictSubsetOrdering(S), SUBSET S)
    BY <2>2, FS_StrictSubsetOrderingWellFounded, FS_FiniteSubsetsOfFinite
  <2> QED
    BY <2>1, <2>3
<1>3. 1..k \in Lacks
  BY <1>1
<1>4. PICK T \in Lacks : \A U \in Lacks : <<U, T>> \notin StrictSubsetOrdering(1..m)
  <2>1. Lacks \subseteq SUBSET (1..m)
    OBVIOUS
  <2> HIDE DEF Lacks
  <2> QED
    BY <1>2, <1>3, <2>1, WFMin
<1>5. PICK n \in 0..m : T = 1..n /\ n \notin F
  OBVIOUS
<1>6. n # 0 /\ n - 1 \in 0..(m - 1) /\ (n - 1) + 1 = n
  BY <1>5
<1>7. n - 1 \notin F
  BY <1>5, <1>6
<1>8. PICK U \in SUBSET (1..m) : U = 1..(n - 1)
  BY <1>6
<1>9. U \in Lacks
  BY <1>6, <1>7, <1>8
<1>10. n \in T /\ n \notin U /\ U \subseteq T
  BY <1>5, <1>6, <1>8
<1> QED
  BY <1>4, <1>9, <1>10 DEF StrictSubsetOrdering

(* The table of the partial sums of f, and what it is.                     *)
Table(f, n, s) == s = [i \in 0..n |-> IF i = 0 THEN 0 ELSE s[i - 1] + f[i]]
Partial(f, n, s) == s[0] = 0 /\ \A i \in 1..n : s[i] = s[i - 1] + f[i]

LEMMA TableIs ==
    ASSUME NEW n \in Nat, NEW f, NEW s, Table(f, n, s)
    PROVE  Partial(f, n, s)
<1>1. \A i \in 0..n : s[i] = IF i = 0 THEN 0 ELSE s[i - 1] + f[i]
  BY DEF Table
<1>2. 0 \in 0..n /\ \A i \in 1..n : i \in 0..n /\ i # 0
  OBVIOUS
<1> QED
  BY <1>1, <1>2 DEF Partial

LEMMA TableExists == ASSUME NEW m \in Nat, NEW f PROVE \E s : Table(f, m, s)
<1> DEFINE F == {n \in 0..m : \E s : Table(f, n, s)}
<1>1. 0 \in F
  <2>1. Table(f, 0, [i \in 0..0 |-> 0])
    BY DEF Table
  <2> QED
    BY <2>1
<1>2. ASSUME NEW n \in 0..(m - 1), n \in F PROVE n + 1 \in F
  <2>1. PICK s : Table(f, n, s)
    BY <1>2
  <2>2. n \in Nat
    OBVIOUS
  <2>3. s[0] = 0 /\ \A i \in 1..n : s[i] = s[i - 1] + f[i]
    BY <2>1, <2>2, TableIs DEF Partial
  <2>4. PICK t : t = [i \in 0..(n + 1) |-> IF i <= n THEN s[i] ELSE s[n] + f[n + 1]]
    OBVIOUS
  <2>5. ASSUME NEW i \in 0..(n + 1)
        PROVE  t[i] = IF i = 0 THEN 0 ELSE t[i - 1] + f[i]
    <3>1. CASE i = 0
      BY <2>2, <2>3, <2>4, <3>1
    <3>2. CASE i # 0 /\ i <= n
      <4>1. i \in 1..n /\ i - 1 \in 0..(n + 1) /\ i - 1 <= n
        BY <2>2, <3>2
      <4>2. s[i] = s[i - 1] + f[i]
        BY <2>3, <4>1
      <4> QED
        BY <2>4, <3>2, <4>1, <4>2
    <3>3. CASE i = n + 1
      <4>1. i # 0 /\ i - 1 = n /\ n \in 0..(n + 1) /\ n <= n /\ ~(i <= n)
        BY <2>2, <3>3
      <4> QED
        BY <2>4, <3>3, <4>1
    <3> QED
      BY <3>1, <3>2, <3>3
  <2>6. Table(f, n + 1, t)
    BY <2>4, <2>5 DEF Table
  <2> QED
    BY <2>6
<1> HIDE DEF F
<1>3. \A n \in 0..m : n \in F
  BY <1>1, <1>2, UpTo
<1> QED
  BY <1>3 DEF F

LEMMA SumIs ==
    ASSUME NEW n \in Nat, NEW f
    PROVE  \E s : Partial(f, n, s) /\ Sum(f, n) = s[n]
<1> DEFINE s1 == CHOOSE s : Table(f, n, s)
<1>1. Sum(f, n) = s1[n]
  BY DEF Sum, Table
<1>2. Table(f, n, s1)
  BY TableExists
<1> HIDE DEF s1
<1>3. Partial(f, n, s1)
  BY <1>2, TableIs
<1> QED
  BY <1>1, <1>3

LEMMA SumOfOne == ASSUME NEW f, f[1] \in Int PROVE Sum(f, 1) = f[1]
<1>1. PICK s : Partial(f, 1, s) /\ Sum(f, 1) = s[1]
  BY SumIs
<1>2. s[0] = 0 /\ s[1] = s[1 - 1] + f[1]
  BY <1>1 DEF Partial
<1> QED
  BY <1>1, <1>2

(* Two sums of as many numbers are the sum of the pairs' sums.             *)
LEMMA SumsAdd ==
    ASSUME NEW n \in Nat, NEW f, NEW g, NEW h,
           \A i \in 1..n : f[i] \in Int /\ g[i] \in Int /\ h[i] = f[i] + g[i]
    PROVE  Sum(f, n) \in Int /\ Sum(g, n) \in Int /\ Sum(h, n) = Sum(f, n) + Sum(g, n)
<1>1. PICK a : Partial(f, n, a) /\ Sum(f, n) = a[n]
  BY SumIs
<1>2. PICK b : Partial(g, n, b) /\ Sum(g, n) = b[n]
  BY SumIs
<1>3. PICK c : Partial(h, n, c) /\ Sum(h, n) = c[n]
  BY SumIs
<1> DEFINE F == {i \in 0..n : a[i] \in Int /\ b[i] \in Int /\ c[i] = a[i] + b[i]}
<1>4. 0 \in F
  BY <1>1, <1>2, <1>3 DEF Partial
<1>5. ASSUME NEW i \in 0..(n - 1), i \in F PROVE i + 1 \in F
  <2>1. i + 1 \in 1..n /\ (i + 1) - 1 = i
    OBVIOUS
  <2>2. a[i + 1] = a[i] + f[i + 1] /\ b[i + 1] = b[i] + g[i + 1] /\ c[i + 1] = c[i] + h[i + 1]
    BY <1>1, <1>2, <1>3, <2>1 DEF Partial
  <2>3. f[i + 1] \in Int /\ g[i + 1] \in Int /\ h[i + 1] = f[i + 1] + g[i + 1]
    BY <2>1
  <2>4. a[i] \in Int /\ b[i] \in Int /\ c[i] = a[i] + b[i]
    BY <1>5
  <2>5. a[i + 1] \in Int /\ b[i + 1] \in Int
    BY <2>2, <2>3, <2>4
  <2>6. c[i + 1] = a[i + 1] + b[i + 1]
    BY <2>2, <2>3, <2>4
  <2> QED
    BY <2>1, <2>5, <2>6
<1> HIDE DEF F
<1>6. n \in F
  <2>1. \A i \in 0..n : i \in F
    BY <1>4, <1>5, UpTo
  <2> QED
    BY <2>1
<1> QED
  BY <1>1, <1>2, <1>3, <1>6 DEF F

(* What a cart, a quote or an order of any number of lines costs is what   *)
(* its lines cost: rounding each line's net and tax to cents and adding up *)
(* the nets and the taxes apart loses and gains nothing.                   *)
THEOREM TotalsAreTheLines ==
    ASSUME NEW lines, Len(lines) \in Nat, NEW taxRate \in Nat,
           \A i \in 1..Len(lines) :
             \E qty, unitPrice \in Nat : lines[i] = PricedLine(qty, unitPrice, taxRate)
    PROVE  Totals(lines).grandTotal = Sum([i \in 1..Len(lines) |-> lines[i].lineTotal], Len(lines))
<1> DEFINE n == Len(lines)
<1>1. PICK f, g, h : /\ f = [i \in 1..n |-> lines[i].net] /\ g = [i \in 1..n |-> lines[i].tax]
                     /\ h = [i \in 1..n |-> lines[i].lineTotal]
  OBVIOUS
<1>2. ASSUME NEW i \in 1..n PROVE f[i] \in Int /\ g[i] \in Int /\ h[i] = f[i] + g[i]
  <2>1. PICK qty \in Nat, unitPrice \in Nat : lines[i] = PricedLine(qty, unitPrice, taxRate)
    OBVIOUS
  <2>2. PICK x \in Int : x = qty * unitPrice
    OBVIOUS
  <2>3. PICK net \in Int : net = Rounded(x, 10000)
    BY NetIsNear
  <2>4. PICK tax \in Int : tax = Rounded(net * taxRate, 10000)
    <3>1. net * taxRate \in Int
      OBVIOUS
    <3> QED
      BY <3>1, NetIsNear
  <2>5. lines[i].net = net /\ lines[i].tax = tax /\ lines[i].lineTotal = net + tax
    BY <2>1, <2>2, <2>3, <2>4 DEF PricedLine, Line, priceLine
  <2> QED
    BY <1>1, <2>5
<1>3. n \in Nat
  OBVIOUS
<1>4. Totals(lines).grandTotal = orderGrandTotal(Sum(f, n), Sum(g, n), 0, 0)
  BY <1>1 DEF Totals
<1>5. Sum(f, n) \in Int /\ Sum(g, n) \in Int /\ Sum(h, n) = Sum(f, n) + Sum(g, n)
  BY <1>2, <1>3, SumsAdd
<1> QED
  BY <1>1, <1>4, <1>5 DEF orderGrandTotal

LEMMA TotalsOfOne ==
    ASSUME NEW l, l.net \in Int, l.tax \in Int
    PROVE  Totals(<<l>>) = [subtotal |-> l.net, taxTotal |-> l.tax, grandTotal |-> l.net + l.tax]
<1>1. PICK f, g : /\ f = [i \in 1..1 |-> <<l>>[i].net] /\ g = [i \in 1..1 |-> <<l>>[i].tax]
  OBVIOUS
<1>2. f[1] = l.net /\ g[1] = l.tax
  BY <1>1
<1>3. Sum(f, 1) = l.net /\ Sum(g, 1) = l.tax
  BY <1>2, SumOfOne
<1>4. Totals(<<l>>) = [subtotal |-> Sum(f, 1), taxTotal |-> Sum(g, 1),
                       grandTotal |-> orderGrandTotal(Sum(f, 1), Sum(g, 1), 0, 0)]
  BY <1>1 DEF Totals
<1> QED
  BY <1>3, <1>4 DEF orderGrandTotal

Item ==
    [list : Lists, minQty : {0, 2}, validFrom : {0}, validTo : {0, 1}, createdAt : Int, price : Nat]

(* A quote's line is what its columns keep of a line at some price, and    *)
(* its totals are that line's before.                                      *)
Holds(q, s, list, line, pct) ==
    q = [status |-> s, list |-> list,
         lines |-> <<[line |-> KeptLine(line), discountPct |-> pct]>>,
         totals |-> Totals(<<line>>), whole |-> line = KeptLine(line), given |-> pct]
Written(q) ==
    \E s, list : \E qty, price \in Nat : \E pct \in Percent :
      Holds(q, s, list, PricedLine(qty, price, TaxRate), pct)

DealInv ==
    /\ deals \in Int /\ items \subseteq Item
    /\ catalogue \in Nat \cup {NoPrice}
    /\ cart # <<>> => \E qty, price \in Nat : cart = <<PricedLine(qty, price, TaxRate)>>
    /\ quote = NoQuote \/ Written(quote)

(* Whatever the lists say, a price they or the catalogue have is one.      *)
LEMMA PricesAreNat ==
    ASSUME DealInv, NEW list, NEW qty
    PROVE  /\ OrderPrice(items, list, catalogue, qty, day) \in Nat \cup {NoPrice}
           /\ QuotePrice(items, list, catalogue, qty, day) \in Nat \cup {NoPrice}
<1>1. TierPrice(items, list, qty, day) \in Nat \cup {NoPrice}
  <2>1. PICK T : T = Tier(items, list, qty, day)
    OBVIOUS
  <2>2. T \subseteq items
    BY <2>1 DEF Tier
  <2>3. TierPrice(items, list, qty, day) = IF T = {} THEN NoPrice ELSE (CHOOSE i \in T : TRUE).price
    BY <2>1 DEF TierPrice
  <2>4. ASSUME T # {} PROVE (CHOOSE i \in T : TRUE).price \in Nat
    <3>1. PICK i : i = (CHOOSE j \in T : TRUE)
      OBVIOUS
    <3>2. i \in T
      BY <2>4, <3>1
    <3>3. i \in Item
      BY <2>2, <3>2 DEF DealInv
    <3> QED
      BY <3>1, <3>3 DEF Item
  <2> QED
    BY <2>3, <2>4
<1> QED
  BY <1>1 DEF OrderPrice, QuotePrice, DealInv

(* The parts of a line, and of what the columns keep of it.                *)
IsLine(line, qty, price) ==
    /\ line.qty = qty /\ line.unitPrice = price
    /\ line.net = Rounded(qty * price, 10000)
    /\ line.net \in Int /\ line.tax \in Int
    /\ KeptLine(line).qty = Kept(qty) /\ KeptLine(line).unitPrice = Kept(price)
    /\ KeptLine(line).net = line.net /\ KeptLine(line).tax = line.tax

LEMMA LineIs ==
    ASSUME NEW qty \in Nat, NEW price \in Nat
    PROVE  IsLine(PricedLine(qty, price, TaxRate), qty, price)
<1>1. PICK line : line = PricedLine(qty, price, TaxRate)
  OBVIOUS
<1>2. PICK net \in Int : net = Rounded(qty * price, 10000)
  <2>1. qty * price \in Int
    OBVIOUS
  <2> QED
    BY <2>1, NetIsNear
<1>3. PICK tax \in Int : tax = Rounded(net * TaxRate, 10000)
  <2>1. net * TaxRate \in Int
    BY DealAssumption
  <2> QED
    BY <2>1, NetIsNear
<1>4. line = [qty |-> qty, unitPrice |-> price, net |-> net, tax |-> tax, lineTotal |-> net + tax]
  BY <1>1, <1>2, <1>3 DEF PricedLine, Line, priceLine
<1>5. line.qty = qty /\ line.unitPrice = price /\ line.net = net /\ line.tax = tax
  BY <1>4
<1>6. KeptLine(line) = [qty |-> Kept(qty), unitPrice |-> Kept(price), net |-> net, tax |-> tax,
                        lineTotal |-> net + tax]
  <2>1. PICK kq, kp, tot : kq = Kept(qty) /\ kp = Kept(price) /\ tot = net + tax
    OBVIOUS
  <2>2. line = [qty |-> qty, unitPrice |-> price, net |-> net, tax |-> tax, lineTotal |-> tot]
    BY <1>4, <2>1
  <2>3. KeptLine(line) = [line EXCEPT !.qty = kq, !.unitPrice = kp]
    BY <1>5, <2>1 DEF KeptLine
  <2>4. [[qty |-> qty, unitPrice |-> price, net |-> net, tax |-> tax, lineTotal |-> tot]
            EXCEPT !.qty = kq, !.unitPrice = kp]
          = [qty |-> kq, unitPrice |-> kp, net |-> net, tax |-> tax, lineTotal |-> tot]
    <3>1. [[qty |-> qty, unitPrice |-> price, net |-> net, tax |-> tax, lineTotal |-> tot]
              EXCEPT !.qty = kq]
            = [qty |-> kq, unitPrice |-> price, net |-> net, tax |-> tax, lineTotal |-> tot]
      OBVIOUS
    <3>2. [[qty |-> kq, unitPrice |-> price, net |-> net, tax |-> tax, lineTotal |-> tot]
              EXCEPT !.unitPrice = kp]
            = [qty |-> kq, unitPrice |-> kp, net |-> net, tax |-> tax, lineTotal |-> tot]
      OBVIOUS
    <3> QED
      BY <3>1, <3>2
  <2>5. KeptLine(line) = [qty |-> kq, unitPrice |-> kp, net |-> net, tax |-> tax, lineTotal |-> tot]
    BY <2>2, <2>3, <2>4
  <2> QED
    BY <2>1, <2>5
<1> QED
  BY <1>1, <1>2, <1>3, <1>5, <1>6 DEF IsLine

LEMMA DealsBegin == ASSUME Prices \subseteq Nat, DealInit PROVE DealInv
  BY DEF DealInit, DealInv

(* Somebody at the back office moves a price, a list or the day.           *)
LEMMA OfficeKeeps ==
    ASSUME Prices \subseteq Nat, DealInv,
           AddItem \/ EditItem \/ RemoveItem \/ EditProduct \/ AssignList \/ NextDay
    PROVE  DealInv' /\ quote' = quote /\ order' = order
<1>0. deals \in Int
  BY DEF DealInv
<1>1. CASE AddItem
  <2>1. PICK list \in Lists, p \in Prices, kind \in {<<0, 0>>, <<0, 1>>, <<2, 0>>} :
           items' = items \cup {[list |-> list, minQty |-> kind[1], validFrom |-> 0,
                                 validTo |-> kind[2], createdAt |-> deals + 1, price |-> Kept(p)]}
    BY <1>1 DEF AddItem
  <2>2. Kept(p) \in Nat
    BY <2>1, KeptIsNear
  <2>3. items' \subseteq Item
    BY <1>0, <2>1, <2>2 DEF DealInv, Item
  <2>4. deals' \in Int /\ UNCHANGED <<catalogue, cart, quote, order>>
    BY <1>0, <1>1 DEF AddItem, Count
  <2> QED
    BY <2>3, <2>4 DEF DealInv
<1>2. CASE EditItem
  <2>1. PICK i \in items, p \in Prices : items' = (items \ {i}) \cup {[i EXCEPT !.price = Kept(p)]}
    BY <1>2 DEF EditItem
  <2>2. Kept(p) \in Nat
    BY <2>1, KeptIsNear
  <2>3. [i EXCEPT !.price = Kept(p)] \in Item
    BY <2>1, <2>2 DEF DealInv, Item
  <2>4. items' \subseteq Item
    BY <2>1, <2>3 DEF DealInv
  <2>5. deals' \in Int /\ UNCHANGED <<catalogue, cart, quote, order>>
    BY <1>0, <1>2 DEF EditItem, Count
  <2> QED
    BY <2>4, <2>5 DEF DealInv
<1>3. CASE RemoveItem \/ EditProduct \/ AssignList \/ NextDay
  <2>1. /\ items' \subseteq items /\ catalogue' \in Nat \cup {NoPrice} /\ deals' \in Int
        /\ UNCHANGED <<cart, quote, order>>
    <3>1. CASE RemoveItem
      BY <1>0, <3>1 DEF RemoveItem, Count, DealInv
    <3>2. CASE EditProduct
      BY <1>0, <3>2 DEF EditProduct, Count, DealInv
    <3>3. CASE AssignList
      BY <1>0, <3>3 DEF AssignList, Count, DealInv
    <3>4. CASE NextDay
      BY <1>0, <3>4 DEF NextDay, DealInv
    <3> QED
      BY <1>3, <3>1, <3>2, <3>3, <3>4
  <2> QED
    BY <2>1 DEF DealInv
<1> QED
  BY <1>1, <1>2, <1>3

(* What is negotiated is a price, and a percentage between 0 and 100.      *)
LEMMA NegotiatedIs ==
    ASSUME NEW listPrice \in Nat, NEW unitPrice, unitPrice = Unsent \/ unitPrice \in Nat,
           NEW pct, pct = Unsent \/ pct \in Percent,
           NEW n, n = negotiatedPrice(listPrice, unitPrice, pct)
    PROVE  n.effective \in Nat /\ n.discountPct \in Percent
<1>1. CASE unitPrice # Unsent
  <2>1. PICK u \in Nat : u = unitPrice
    BY <1>1
  <2>2. u # Unsent
    BY <1>1, <2>1
  <2>3. n = negotiatedPrice(listPrice, u, Unsent)
    BY <2>1, <2>2 DEF negotiatedPrice
  <2>4. PICK d : d = negotiatedPrice(listPrice, u, Unsent).discountPct
    OBVIOUS
  <2>5. d \in Percent
    BY <2>1, <2>4, DiscountInRange
  <2>6. n.discountPct = d
    BY <2>3, <2>4
  <2>7. n.effective = Kept(u)
    BY <2>2, <2>3 DEF negotiatedPrice
  <2>8. n.effective \in Nat
    BY <2>7, KeptIsNear
  <2> QED
    BY <2>5, <2>6, <2>8
<1>2. CASE unitPrice = Unsent /\ pct \notin {Unsent, 0}
  <2>1. n = [effective |-> 10 * Rounded(listPrice * (10000 - pct), 100000), discountPct |-> pct]
    BY <1>2 DEF negotiatedPrice
  <2>2. pct \in Percent
    BY <1>2
  <2>3. PICK k \in Nat : k = 10000 - pct
    BY <2>2, PercentLeaves
  <2>4. listPrice * k \in Nat
    OBVIOUS
  <2>5. Rounded(listPrice * k, 100000) \in Nat
    BY <2>4 DEF Rounded
  <2>6. PICK r \in Nat : r = Rounded(listPrice * (10000 - pct), 100000)
    BY <2>3, <2>5
  <2>7. n.effective = 10 * r /\ n.discountPct = pct
    BY <2>1, <2>6
  <2> QED
    BY <2>2, <2>6, <2>7
<1>3. CASE unitPrice = Unsent /\ pct \in {Unsent, 0}
  <2>1. n = [effective |-> listPrice, discountPct |-> 0]
    BY <1>3 DEF negotiatedPrice
  <2>2. n.effective = listPrice /\ n.discountPct = 0
    BY <2>1
  <2>3. 0 \in Percent
    BY DEF Percent
  <2> QED
    BY <2>2, <2>3
<1> QED
  BY <1>1, <1>2, <1>3

(* A percentage that is taken off a list price is the one that is kept.    *)
LEMMA CarriedIsKept ==
    ASSUME NEW listPrice, NEW pct \in Percent, NEW n, n = negotiatedPrice(listPrice, Unsent, pct)
    PROVE  n.discountPct = pct
<1>1. CASE pct = 0
  <2>1. n = [effective |-> listPrice, discountPct |-> 0]
    BY <1>1 DEF negotiatedPrice
  <2> QED
    BY <1>1, <2>1
<1>2. CASE pct # 0
  <2>1. pct \notin {Unsent, 0}
    BY <1>2 DEF Unsent, Percent
  <2>2. n = [effective |-> 10 * Rounded(listPrice * (10000 - pct), 100000), discountPct |-> pct]
    BY <2>1 DEF negotiatedPrice
  <2> QED
    BY <2>2
<1> QED
  BY <1>1, <1>2

(* The quote a rep writes keeps a line at a price, and the percentage.     *)
LEMMA QuotingWrites ==
    ASSUME DealInv, NEW list, NEW qty \in Nat,
           NEW unitPrice, unitPrice = Unsent \/ unitPrice \in Nat,
           NEW pct, pct = Unsent \/ pct \in Percent, NEW given,
           Quotable(list, qty, unitPrice, pct),
           SetQuote(list, QuotedLine(list, qty, unitPrice, pct), given),
           given = QuotedLine(list, qty, unitPrice, pct).discountPct
    PROVE  Written(quote')
<1>1. PICK listPrice \in Nat : listPrice = QuotePrice(items, list, catalogue, qty, day)
  BY PricesAreNat DEF Quotable
<1>2. PICK n : n = negotiatedPrice(listPrice, unitPrice, pct)
  OBVIOUS
<1>3. n.effective \in Nat /\ n.discountPct \in Percent
  BY <1>1, <1>2, NegotiatedIs
<1>4. PICK price \in Nat, d \in Percent : price = n.effective /\ d = n.discountPct
  BY <1>3
<1>5. PICK line : line = PricedLine(qty, price, TaxRate)
  OBVIOUS
<1>6. QuotedLine(list, qty, unitPrice, pct) = [line |-> line, discountPct |-> d]
  BY <1>1, <1>2, <1>4, <1>5 DEF QuotedLine
<1>7. given = d
  BY <1>6
<1>8. SetQuote(list, [line |-> line, discountPct |-> d], d)
  BY <1>6, <1>7
<1>9. Holds(quote', "draft", list, line, d)
  BY <1>8 DEF SetQuote, Holds
<1>10. Holds(quote', "draft", list, PricedLine(qty, price, TaxRate), d)
  BY <1>5, <1>9
<1> QED
  BY <1>4, <1>10 DEF Written

(* A converted line: its tax comes with it, its net is computed anew.      *)
LEMMA SnapshotIs ==
    ASSUME NEW qty \in Nat, NEW price \in Nat, NEW line, line = PricedLine(qty, price, TaxRate)
    PROVE  /\ SnapshotLine(KeptLine(line)).net = Rounded(Kept(qty) * Kept(price), 10000)
           /\ SnapshotLine(KeptLine(line)).net \in Int
           /\ SnapshotLine(KeptLine(line)).tax = line.tax /\ line.tax \in Int
<1>1. PICK l : l = KeptLine(line)
  OBVIOUS
<1>2. l.qty = Kept(qty) /\ l.unitPrice = Kept(price) /\ l.tax = line.tax /\ line.tax \in Int
  <2>1. IsLine(line, qty, price)
    BY LineIs
  <2> QED
    BY <1>1, <2>1 DEF IsLine
<1>3. PICK net : net = Rounded(Kept(qty) * Kept(price), 10000)
  OBVIOUS
<1>4. net \in Int
  <2>1. Kept(qty) * Kept(price) \in Int
    <3>1. Kept(qty) \in Nat /\ Kept(price) \in Nat
      BY KeptIsNear
    <3> QED
      BY <3>1
  <2> QED
    BY <1>3, <2>1, NetIsNear
<1>5. SnapshotLine(l) = [qty |-> l.qty, unitPrice |-> l.unitPrice, net |-> net, tax |-> l.tax,
                         lineTotal |-> net + l.tax]
  BY <1>2, <1>3 DEF SnapshotLine, Line
<1>6. SnapshotLine(l).net = net /\ SnapshotLine(l).tax = l.tax
  BY <1>5
<1> QED
  BY <1>1, <1>2, <1>3, <1>4, <1>6

(* What a quote that has been written holds.                               *)
HasLine(q, qty, price, pct, line) ==
    /\ qty \in Nat /\ price \in Nat /\ pct \in Percent
    /\ line = PricedLine(qty, price, TaxRate)
    /\ Len(q.lines) = 1
    /\ q.lines[1].line = KeptLine(line) /\ q.lines[1].discountPct = pct
    /\ q.totals = Totals(<<line>>) /\ q.whole = (line = KeptLine(line)) /\ q.given = pct

LEMMA WrittenHas ==
    ASSUME NEW q, Written(q)
    PROVE  \E qty, price, pct, line : HasLine(q, qty, price, pct, line)
<1>1. PICK s, list : \E qty, price \in Nat : \E pct \in Percent :
                       Holds(q, s, list, PricedLine(qty, price, TaxRate), pct)
  BY DEF Written
<1>2. PICK qty \in Nat, price \in Nat, pct \in Percent :
         Holds(q, s, list, PricedLine(qty, price, TaxRate), pct)
  BY <1>1
<1>3. PICK line : line = PricedLine(qty, price, TaxRate)
  OBVIOUS
<1>4. Holds(q, s, list, line, pct)
  BY <1>2, <1>3
<1>5. PICK kept, totals : kept = KeptLine(line) /\ totals = Totals(<<line>>)
  OBVIOUS
<1>6. q = [status |-> s, list |-> list, lines |-> <<[line |-> kept, discountPct |-> pct]>>,
           totals |-> totals, whole |-> line = kept, given |-> pct]
  BY <1>4, <1>5 DEF Holds
<1>7. /\ q.lines = <<[line |-> kept, discountPct |-> pct]>>
      /\ q.totals = totals /\ q.whole = (line = kept) /\ q.given = pct
  BY <1>6
<1>8. Len(q.lines) = 1 /\ q.lines[1] = [line |-> kept, discountPct |-> pct]
  BY <1>7
<1>9. q.lines[1].line = kept /\ q.lines[1].discountPct = pct
  BY <1>8
<1>10. HasLine(q, qty, price, pct, line)
  BY <1>2, <1>3, <1>5, <1>7, <1>8, <1>9 DEF HasLine
<1> QED
  BY <1>10

(* Sending, approving and converting a quote move its status alone.        *)
LEMMA StatusMoves ==
    ASSUME NEW q, Written(q), NEW to
    PROVE  Written([q EXCEPT !.status = to])
<1>1. PICK s, list : \E qty, price \in Nat : \E pct \in Percent :
                       Holds(q, s, list, PricedLine(qty, price, TaxRate), pct)
  BY DEF Written
<1>2. PICK qty \in Nat, price \in Nat, pct \in Percent :
         Holds(q, s, list, PricedLine(qty, price, TaxRate), pct)
  BY <1>1
<1>3. PICK line, lines, totals, whole :
         /\ line = PricedLine(qty, price, TaxRate)
         /\ lines = <<[line |-> KeptLine(line), discountPct |-> pct]>>
         /\ totals = Totals(<<line>>) /\ whole = (line = KeptLine(line))
  OBVIOUS
<1>4. q = [status |-> s, list |-> list, lines |-> lines, totals |-> totals, whole |-> whole,
           given |-> pct]
  BY <1>2, <1>3 DEF Holds
<1>5. [[status |-> s, list |-> list, lines |-> lines, totals |-> totals, whole |-> whole,
        given |-> pct] EXCEPT !.status = to]
        = [status |-> to, list |-> list, lines |-> lines, totals |-> totals, whole |-> whole,
           given |-> pct]
  OBVIOUS
<1>6. Holds([q EXCEPT !.status = to], to, list, line, pct)
  BY <1>3, <1>4, <1>5 DEF Holds
<1>7. Holds([q EXCEPT !.status = to], to, list, PricedLine(qty, price, TaxRate), pct)
  BY <1>3, <1>6
<1> QED
  BY <1>7 DEF Written

(* A preview shows a line, and leaves the quote and the order alone.       *)
LEMMA PreviewKeeps ==
    ASSUME DealInv, preview
    PROVE  DealInv' /\ quote' = quote /\ order' = order
<1>1. PICK code \in Lists \cup {NoList}, qty \in Quantities :
         /\ UnitPrice(ListFor(code), qty) # NoPrice
         /\ cart' = <<PricedLine(qty, UnitPrice(ListFor(code), qty), TaxRate)>>
  BY DEF preview
<1>2. PICK price : price = UnitPrice(ListFor(code), qty)
  OBVIOUS
<1>3. price \in Nat
  BY <1>1, <1>2, PricesAreNat DEF UnitPrice
<1>4. qty \in Nat
  BY <1>1, DealAssumption
<1>5. cart' = <<PricedLine(qty, price, TaxRate)>>
  BY <1>1, <1>2
<1>6. \E q, p \in Nat : cart' = <<PricedLine(q, p, TaxRate)>>
  BY <1>3, <1>4, <1>5
<1>7. UNCHANGED <<items, catalogue, deals, quote, order>>
  BY DEF preview, prices
<1> QED
  BY <1>6, <1>7 DEF DealInv, Written

(* An order from a cart costs what the preview showed, within what the     *)
(* claimed price may differ.                                               *)
LEMMA CreateKeeps ==
    ASSUME DealInv, create
    PROVE  /\ DealInv' /\ quote' = quote
           /\ order'.from # "quote"
           /\ order'.from = "cart" => AsShown(order')
<1>0. PICK code \in Lists \cup {NoList}, claims \in BOOLEAN :
         LET unitPrice == UnitPrice(ListFor(code), cart[1].qty)
             line == PricedLine(cart[1].qty, unitPrice, TaxRate)
         IN  /\ cart # <<>> /\ unitPrice # NoPrice
             /\ claims => ClaimHolds(cart[1].unitPrice, unitPrice)
             /\ order' = [from |-> IF claims THEN "cart" ELSE "body", lines |-> <<KeptLine(line)>>,
                          agreed |-> cart, totals |-> Totals(<<line>>)]
  BY DEF create
<1>1. PICK shown, unitPrice, line :
         /\ shown = cart[1] /\ unitPrice = UnitPrice(ListFor(code), shown.qty)
         /\ line = PricedLine(shown.qty, unitPrice, TaxRate)
         /\ cart # <<>> /\ unitPrice # NoPrice
         /\ claims => ClaimHolds(shown.unitPrice, unitPrice)
         /\ order' = [from |-> IF claims THEN "cart" ELSE "body", lines |-> <<KeptLine(line)>>,
                      agreed |-> cart, totals |-> Totals(<<line>>)]
  BY <1>0
<1>2. PICK qty \in Nat, price \in Nat : cart = <<PricedLine(qty, price, TaxRate)>>
  BY <1>1 DEF DealInv
<1>3. shown = PricedLine(qty, price, TaxRate)
  BY <1>1, <1>2
<1>4. /\ shown.qty = qty /\ shown.unitPrice = price
      /\ shown.net = Rounded(qty * price, 10000)
  <2>1. IsLine(shown, qty, price)
    BY <1>3, LineIs
  <2> QED
    BY <2>1 DEF IsLine
<1>5. unitPrice \in Nat
  BY <1>1, PricesAreNat DEF UnitPrice
<1>6. line = PricedLine(qty, unitPrice, TaxRate)
  BY <1>1, <1>4
<1>7. KeptLine(line).net = Rounded(qty * unitPrice, 10000)
  <2>1. IsLine(line, qty, unitPrice)
    BY <1>5, <1>6, LineIs
  <2> QED
    BY <2>1 DEF IsLine
<1>8. PICK kept, totals, from :
         /\ kept = KeptLine(line) /\ totals = Totals(<<line>>)
         /\ from = IF claims THEN "cart" ELSE "body"
  OBVIOUS
<1>9. order' = [from |-> from, lines |-> <<kept>>, agreed |-> cart, totals |-> totals]
  BY <1>1, <1>8
<1>10. order'.from = from /\ order'.lines[1] = kept /\ order'.agreed[1] = shown
  BY <1>1, <1>9
<1>11. from # "quote" /\ (from = "cart" => claims)
  BY <1>8
<1>12. ASSUME order'.from = "cart" PROVE AsShown(order')
  <2>1. quotedPriceMatches(price, unitPrice)
    BY <1>1, <1>4, <1>10, <1>11, <1>12 DEF ClaimHolds
  <2>2. 10000 * Abs(Rounded(qty * unitPrice, 10000) - Rounded(qty * price, 10000))
           <= 15 * qty + 10000
    BY <1>5, <2>1, ClaimMovesNet
  <2>3. 10000 * Abs(kept.net - shown.net) <= 15 * shown.qty + 10000
    BY <1>4, <1>7, <1>8, <2>2
  <2> QED
    BY <1>10, <2>3 DEF AsShown
<1>13. UNCHANGED <<items, catalogue, deals, cart, quote>>
  BY DEF create, prices
<1>14. DealInv'
  BY <1>13 DEF DealInv, Written
<1> QED
  BY <1>10, <1>11, <1>12, <1>13, <1>14

LEMMA WriteQuoteKeeps ==
    ASSUME Prices \subseteq Nat, DealInv, writeQuote
    PROVE  DealInv' /\ order' = order
<1>1. PICK code \in Lists \cup {NoList}, qty \in Quantities, terms \in Terms :
         /\ Quotable(ListFor(code), qty, terms[1], terms[2])
         /\ SetQuote(ListFor(code), QuotedLine(ListFor(code), qty, terms[1], terms[2]),
                     QuotedLine(ListFor(code), qty, terms[1], terms[2]).discountPct)
  BY DEF writeQuote
<1>2. qty \in Nat
  BY <1>1, DealAssumption
<1>3. /\ terms[1] = Unsent \/ terms[1] \in Nat
      /\ terms[2] = Unsent \/ terms[2] \in Percent
  <2>1. CASE \E p \in Prices \cup {Unsent} : terms = <<p, Unsent>>
    BY <2>1
  <2>2. CASE terms = <<Unsent, 1000>>
    <3>1. 1000 \in Percent
      BY DEF Percent
    <3> QED
      BY <2>2, <3>1
  <2> QED
    BY <1>1, <2>1, <2>2 DEF Terms
<1>4. PICK list, price, pct, given :
         /\ list = ListFor(code) /\ price = terms[1] /\ pct = terms[2]
         /\ given = QuotedLine(list, qty, price, pct).discountPct
  OBVIOUS
<1>5. /\ Quotable(list, qty, price, pct)
      /\ SetQuote(list, QuotedLine(list, qty, price, pct), given)
  BY <1>1, <1>4
<1>6. Written(quote')
  BY <1>2, <1>3, <1>4, <1>5, QuotingWrites
<1>7. UNCHANGED <<items, catalogue, deals, cart, order>>
  BY DEF writeQuote, prices
<1> QED
  BY <1>6, <1>7 DEF DealInv

(* A quote that is re-priced with the lines it has keeps their percentage. *)
LEMMA RepriceKeeps ==
    ASSUME DealInv, repriceQuote
    PROVE  DealInv' /\ order' = order
<1>1. PICK code \in Lists \cup {NoList} :
         /\ quote.status = "draft"
         /\ Quotable(ListFor(code), quote.lines[1].line.qty, Unsent, Carried(quote.lines[1]))
         /\ SetQuote(ListFor(code),
                     QuotedLine(ListFor(code), quote.lines[1].line.qty, Unsent,
                                Carried(quote.lines[1])),
                     quote.given)
  BY DEF repriceQuote
<1>2. Written(quote)
  BY <1>1 DEF DealInv, NoQuote
<1>3. PICK qty, price, pct, line : HasLine(quote, qty, price, pct, line)
  BY <1>2, WrittenHas
<1>4. PICK list, q : list = ListFor(code) /\ q = Kept(qty)
  OBVIOUS
<1>5. q \in Nat
  BY <1>3, <1>4, KeptIsNear DEF HasLine
<1>6. quote.lines[1].line.qty = q /\ Carried(quote.lines[1]) = pct
  BY <1>3, <1>4, LineIs DEF Carried, HasLine, IsLine
<1>7. Quotable(list, q, Unsent, pct) /\ SetQuote(list, QuotedLine(list, q, Unsent, pct), pct)
  BY <1>1, <1>3, <1>4, <1>6 DEF HasLine
<1>8. pct = QuotedLine(list, q, Unsent, pct).discountPct
  <2>1. PICK listPrice : listPrice = QuotePrice(items, list, catalogue, q, day)
    OBVIOUS
  <2>2. PICK n : n = negotiatedPrice(listPrice, Unsent, pct)
    OBVIOUS
  <2>3. n.discountPct = pct
    BY <1>3, <2>2, CarriedIsKept DEF HasLine
  <2>4. PICK l : l = PricedLine(q, n.effective, TaxRate)
    OBVIOUS
  <2>5. QuotedLine(list, q, Unsent, pct) = [line |-> l, discountPct |-> pct]
    BY <2>1, <2>2, <2>3, <2>4 DEF QuotedLine
  <2> QED
    BY <2>5
<1>9. Written(quote')
  BY <1>3, <1>5, <1>7, <1>8, QuotingWrites DEF HasLine
<1>10. UNCHANGED <<items, catalogue, deals, cart, order>>
  BY DEF repriceQuote, prices
<1> QED
  BY <1>9, <1>10 DEF DealInv

LEMMA ApproveKeeps ==
    ASSUME DealInv, approve
    PROVE  DealInv' /\ order' = order
<1>1. Written(quote)
  BY DEF DealInv, NoQuote, approve
<1>2. quote' = [quote EXCEPT !.status = "approved"]
  BY DEF approve
<1>3. Written(quote')
  BY <1>1, <1>2, StatusMoves
<1>4. UNCHANGED <<items, catalogue, deals, cart, order>>
  BY DEF approve, prices
<1> QED
  BY <1>3, <1>4 DEF DealInv

(* An order from a quote charges the quote's totals, or what the columns   *)
(* rounded away of its quantity and its price.                             *)
LEMMA ConvertKeeps ==
    ASSUME DealInv, convert
    PROVE  DealInv' /\ order'.from = "quote" /\ AsQuoted(order', quote)
<1>1. Written(quote)
  BY DEF DealInv, NoQuote, convert
<1>2. Written(quote')
  <2>1. quote' = [quote EXCEPT !.status = "converted"]
    BY DEF convert
  <2> QED
    BY <1>1, <2>1, StatusMoves
<1>3. PICK qty, price, pct, line : HasLine(quote, qty, price, pct, line)
  BY <1>1, WrittenHas
<1>4. PICK kept, made, totals :
         kept = KeptLine(line) /\ made = SnapshotLine(kept) /\ totals = Totals(<<made>>)
  OBVIOUS
<1>5. order' = [from |-> "quote", lines |-> <<KeptLine(made)>>, agreed |-> <<kept>>, totals |-> totals]
  BY <1>3, <1>4 DEF convert, HasLine
<1>6. order'.from = "quote" /\ order'.totals = totals
  BY <1>5
<1>7. /\ kept.qty = Kept(qty) /\ kept.unitPrice = Kept(price)
      /\ line.net = Rounded(qty * price, 10000) /\ line.net \in Int /\ line.tax \in Int
  <2>1. IsLine(line, qty, price)
    BY <1>3, LineIs DEF HasLine
  <2> QED
    BY <1>4, <2>1 DEF IsLine
<1>8. /\ made.net = Rounded(Kept(qty) * Kept(price), 10000) /\ made.net \in Int
      /\ made.tax = line.tax
  BY <1>3, <1>4, SnapshotIs DEF HasLine
<1>9. totals = [subtotal |-> made.net, taxTotal |-> made.tax, grandTotal |-> made.net + made.tax]
  BY <1>4, <1>7, <1>8, TotalsOfOne
<1>10. quote.totals = [subtotal |-> line.net, taxTotal |-> line.tax, grandTotal |-> line.net + line.tax]
  BY <1>3, <1>7, TotalsOfOne DEF HasLine
<1>11. ASSUME quote.whole PROVE AsQuoted(order', quote)
  <2>1. line = kept
    BY <1>3, <1>4, <1>11 DEF HasLine
  <2>2. line.qty = qty /\ line.unitPrice = price
    BY <1>3, LineIs DEF HasLine, IsLine
  <2>3. Kept(qty) = qty /\ Kept(price) = price
    BY <1>7, <2>1, <2>2
  <2>4. made.net = line.net
    BY <1>7, <1>8, <2>3
  <2>5. totals = quote.totals
    BY <1>8, <1>9, <1>10, <2>4
  <2> QED
    BY <1>6, <1>11, <2>5 DEF AsQuoted
<1>12. ASSUME ~quote.whole PROVE AsQuoted(order', quote)
  <2>1. totals.taxTotal = quote.totals.taxTotal
    BY <1>8, <1>9, <1>10
  <2>2. totals.subtotal = made.net /\ quote.totals.subtotal = line.net
    BY <1>9, <1>10
  <2>3. 10000 * Abs(Rounded(Kept(qty) * Kept(price), 10000) - Rounded(qty * price, 10000))
           <= 5 * (Kept(qty) + Kept(price)) + 10025
    BY <1>3, KeepingMovesNet DEF HasLine
  <2>4. 10000 * Abs(totals.subtotal - quote.totals.subtotal) <= 5 * (kept.qty + kept.unitPrice) + 10025
    BY <1>7, <1>8, <2>2, <2>3
  <2> QED
    BY <1>3, <1>4, <1>6, <1>12, <2>1, <2>4 DEF AsQuoted, HasLine
<1>13. UNCHANGED <<items, catalogue, deals, cart>>
  BY DEF convert, prices
<1>14. DealInv'
  BY <1>2, <1>13 DEF DealInv
<1> QED
  BY <1>6, <1>11, <1>12, <1>14

(* A step in the prices, as the property has it.                           *)
Charges ==
    /\ order' # order /\ order'.from = "cart" => AsShown(order')
    /\ order' # order /\ order'.from = "quote" => AsQuoted(order', quote)
    /\ \A i \in 1..Len(quote'.lines) : quote'.lines[i].discountPct = quote'.given

LEMMA DealNextCharges == ASSUME Prices \subseteq Nat, DealInv, DealNext PROVE DealInv' /\ Charges
<1>1. /\ DealInv'
      /\ order' # order /\ order'.from = "cart" => AsShown(order')
      /\ order' # order /\ order'.from = "quote" => AsQuoted(order', quote)
  <2>1. CASE AddItem \/ EditItem \/ RemoveItem \/ EditProduct \/ AssignList \/ NextDay
    BY <2>1, OfficeKeeps
  <2>2. CASE preview
    BY <2>2, PreviewKeeps
  <2>3. CASE create
    BY <2>3, CreateKeeps
  <2>4. CASE writeQuote
    BY <2>4, WriteQuoteKeeps
  <2>5. CASE repriceQuote
    BY <2>5, RepriceKeeps
  <2>6. CASE approve
    BY <2>6, ApproveKeeps
  <2>7. CASE convert
    BY <2>7, ConvertKeeps
  <2> QED
    BY <2>1, <2>2, <2>3, <2>4, <2>5, <2>6, <2>7 DEF DealNext
<1>2. \A i \in 1..Len(quote'.lines) : quote'.lines[i].discountPct = quote'.given
  <2>1. CASE quote' = NoQuote
    <3>1. Len(quote'.lines) = 0
      BY <2>1 DEF NoQuote
    <3> QED
      BY <3>1
  <2>2. CASE Written(quote')
    <3>1. /\ Len(quote'.lines) = 1
          /\ quote'.lines[1].discountPct = quote'.given
      BY <2>2, WrittenHas DEF HasLine
    <3>2. \A i \in 1..1 : i = 1
      OBVIOUS
    <3> QED
      BY <3>1, <3>2
  <2> QED
    BY <1>1, <2>1, <2>2 DEF DealInv, Written, NoQuote
<1> QED
  BY <1>1, <1>2 DEF Charges

(* Whatever moves while a cart or a quote holds a price, an order costs    *)
(* what its customer was shown or quoted, and a quote that is re-priced    *)
(* keeps the rep's percentage: for any lists, quantities and tax rate.     *)
(* The prices are not negative: the bodies of price lists, quotes and      *)
(* orders refuse such, that of a product alone does not.                   *)
THEOREM BackofficeAgreedIsCharged == ASSUME Prices \subseteq Nat PROVE Spec => AgreedIsCharged
<1> DEFINE all == <<bvars, svars, dvars, place>>
<1>1. Init => DealInv
  BY DealsBegin DEF Init
<1>2. DealInv /\ [AddressBook \/ Invoicing \/ Dealing]_all => DealInv' /\ [Charges]_dvars
  <2>1. ASSUME DealInv, Dealing PROVE DealInv' /\ Charges
    BY <2>1, DealNextCharges DEF Dealing
  <2>2. ASSUME DealInv, AddressBook \/ Invoicing \/ UNCHANGED all PROVE DealInv' /\ UNCHANGED dvars
    <3>1. UNCHANGED dvars
      BY <2>2 DEF AddressBook, Invoicing
    <3> QED
      BY <2>2, <3>1 DEF dvars, DealInv, Written
  <2> QED
    BY <2>1, <2>2
<1>3. [][Charges]_dvars => AgreedIsCharged
  BY DEF AgreedIsCharged, Charges
<1> QED
  BY <1>1, <1>2, <1>3, PTL DEF Spec

-------------------------------------------------------------------------------
(* Parcels *)

(* A line whose product has its measures.                                  *)
IsMeasured(l) ==
    /\ l.qty \in Nat /\ l.weight \in Nat \ {0}
    /\ l.length \in Nat \ {0} /\ l.width \in Nat \ {0} /\ l.height \in Nat \ {0}
Dims(l) == <<l.length, l.width, l.height>>

(* The sides that come before the i-th when they are sorted, the longest   *)
(* first.                                                                  *)
Ahead(l, i) == {j \in 1..3 : Dims(l)[j] > Dims(l)[i] \/ (Dims(l)[j] = Dims(l)[i] /\ j < i)}
Bit(b) == IF b THEN 1 ELSE 0

LEMMA WithoutOne ==
    ASSUME NEW S, IsFiniteSet(S), NEW x, NEW R, R = S \ {x}
    PROVE  IsFiniteSet(R) /\ Cardinality(R) \in Nat /\ Cardinality(S) = Cardinality(R) + Bit(x \in S)
<1>1. IsFiniteSet(R) /\ Cardinality(R) = IF x \in S THEN Cardinality(S) - 1 ELSE Cardinality(S)
  BY FS_RemoveElement
<1>2. Cardinality(R) \in Nat /\ Cardinality(S) \in Nat
  BY <1>1, FS_CardinalityType
<1>3. CASE x \in S
  BY <1>1, <1>2, <1>3 DEF Bit
<1>4. CASE x \notin S
  BY <1>1, <1>2, <1>4 DEF Bit
<1> QED
  BY <1>3, <1>4

LEMMA ThreeAtMost ==
    ASSUME NEW T, T \subseteq 1..3
    PROVE  Cardinality(T) = Bit(1 \in T) + Bit(2 \in T) + Bit(3 \in T)
<1>1. IsFiniteSet(T)
  <2>1. PICK three \in Int : three = 3
    OBVIOUS
  <2>2. IsFiniteSet(1..three)
    BY FS_Interval
  <2> QED
    BY <2>1, <2>2, FS_Subset
<1>2. PICK A : A = T \ {1}
  OBVIOUS
<1>3. PICK B : B = A \ {2}
  OBVIOUS
<1>4. PICK C : C = B \ {3}
  OBVIOUS
<1>5. IsFiniteSet(A) /\ Cardinality(T) = Cardinality(A) + Bit(1 \in T)
  BY <1>1, <1>2, WithoutOne
<1>6. IsFiniteSet(B) /\ Cardinality(A) = Cardinality(B) + Bit(2 \in A)
  BY <1>3, <1>5, WithoutOne
<1>7. Cardinality(B) = Cardinality(C) + Bit(3 \in B)
  BY <1>4, <1>6, WithoutOne
<1>8. Cardinality(C) = 0
  <2>1. C = {}
    BY <1>2, <1>3, <1>4
  <2> QED
    BY <2>1, FS_EmptySet
<1>9. (2 \in A <=> 2 \in T) /\ (3 \in B <=> 3 \in T)
  BY <1>2, <1>3
<1> QED
  BY <1>5, <1>6, <1>7, <1>8, <1>9 DEF Bit

(* How many sides come before each one.                                    *)
LEMMA AheadOfEach ==
    ASSUME NEW l, IsMeasured(l)
    PROVE  /\ Cardinality(Ahead(l, 1)) = Bit(l.width > l.length) + Bit(l.height > l.length)
           /\ Cardinality(Ahead(l, 2)) = Bit(l.length >= l.width) + Bit(l.height > l.width)
           /\ Cardinality(Ahead(l, 3)) = Bit(l.length >= l.height) + Bit(l.width >= l.height)
<1>1. PICK a \in Nat, b \in Nat, c \in Nat : a = l.length /\ b = l.width /\ c = l.height
  BY DEF IsMeasured
<1>2. Dims(l)[1] = a /\ Dims(l)[2] = b /\ Dims(l)[3] = c
  BY <1>1 DEF Dims
<1>3. \A i \in 1..3 : Ahead(l, i) \subseteq 1..3
  BY DEF Ahead
<1>4. /\ 1 \notin Ahead(l, 1) /\ (2 \in Ahead(l, 1) <=> b > a) /\ (3 \in Ahead(l, 1) <=> c > a)
  BY <1>2 DEF Ahead
<1>5. /\ (1 \in Ahead(l, 2) <=> a >= b) /\ 2 \notin Ahead(l, 2) /\ (3 \in Ahead(l, 2) <=> c > b)
  BY <1>2 DEF Ahead
<1>6. /\ (1 \in Ahead(l, 3) <=> a >= c) /\ (2 \in Ahead(l, 3) <=> b >= c) /\ 3 \notin Ahead(l, 3)
  BY <1>2 DEF Ahead
<1>7. Cardinality(Ahead(l, 1)) = Bit(b > a) + Bit(c > a)
  <2>1. Cardinality(Ahead(l, 1)) = Bit(1 \in Ahead(l, 1)) + Bit(2 \in Ahead(l, 1)) + Bit(3 \in Ahead(l, 1))
    BY <1>3, ThreeAtMost
  <2> QED
    BY <1>4, <2>1 DEF Bit
<1>8. Cardinality(Ahead(l, 2)) = Bit(a >= b) + Bit(c > b)
  <2>1. Cardinality(Ahead(l, 2)) = Bit(1 \in Ahead(l, 2)) + Bit(2 \in Ahead(l, 2)) + Bit(3 \in Ahead(l, 2))
    BY <1>3, ThreeAtMost
  <2> QED
    BY <1>5, <2>1 DEF Bit
<1>9. Cardinality(Ahead(l, 3)) = Bit(a >= c) + Bit(b >= c)
  <2>1. Cardinality(Ahead(l, 3)) = Bit(1 \in Ahead(l, 3)) + Bit(2 \in Ahead(l, 3)) + Bit(3 \in Ahead(l, 3))
    BY <1>3, ThreeAtMost
  <2> QED
    BY <1>6, <2>1 DEF Bit
<1> QED
  BY <1>1, <1>7, <1>8, <1>9

(* Sides sorts the three sides: its entries are all of them, the longest   *)
(* first.                                                                  *)
Turned(l, f) ==
    /\ f \in [0..2 -> 1..3] /\ \A r, s \in 0..2 : f[r] = f[s] => r = s
    /\ \A r \in 0..2 : Sides(l)[r] = Dims(l)[f[r]]
Sorted(l) == Sides(l)[0] >= Sides(l)[1] /\ Sides(l)[1] >= Sides(l)[2]

LEMMA SidesAt ==
    ASSUME NEW l, NEW r \in 0..2, NEW i \in 1..3, Cardinality(Ahead(l, i)) = r,
           \A j \in 1..3 : Cardinality(Ahead(l, j)) = r => j = i
    PROVE  Sides(l)[r] = Dims(l)[i]
<1>1. (CHOOSE j \in 1..3 : Cardinality(Ahead(l, j)) = r) = i
  OBVIOUS
<1>2. Sides(l)[r] = Dims(l)[CHOOSE j \in 1..3 : Cardinality(Ahead(l, j)) = r]
  BY DEF Sides, Ahead, Dims
<1> QED
  BY <1>1, <1>2

LEMMA SidesSort ==
    ASSUME NEW l, IsMeasured(l)
    PROVE  /\ \E f : Turned(l, f)
           /\ Sorted(l)
           /\ \A r \in 0..2 : Sides(l)[r] \in Nat \ {0}
<1>1. PICK a \in Nat \ {0}, b \in Nat \ {0}, c \in Nat \ {0} : a = l.length /\ b = l.width /\ c = l.height
  BY DEF IsMeasured
<1>2. PICK x, y, z : x = Cardinality(Ahead(l, 1)) /\ y = Cardinality(Ahead(l, 2)) /\ z = Cardinality(Ahead(l, 3))
  OBVIOUS
<1>3. x = Bit(b > a) + Bit(c > a) /\ y = Bit(a >= b) + Bit(c > b) /\ z = Bit(a >= c) + Bit(b >= c)
  BY <1>1, <1>2, AheadOfEach
<1>4. PICK d : d = [i \in 1..3 |-> IF i = 1 THEN a ELSE IF i = 2 THEN b ELSE c]
  OBVIOUS
<1>5. PICK k : k = [i \in 1..3 |-> IF i = 1 THEN x ELSE IF i = 2 THEN y ELSE z]
  OBVIOUS
<1>6. \A i \in 1..3 : Dims(l)[i] = d[i] /\ Cardinality(Ahead(l, i)) = k[i] /\ d[i] \in Nat \ {0}
  <2>1. Dims(l)[1] = a /\ Dims(l)[2] = b /\ Dims(l)[3] = c
    BY <1>1 DEF Dims
  <2> QED
    BY <1>2, <1>4, <1>5, <2>1
<1>7. PICK f \in [0..2 -> 1..3] :
         /\ k[f[0]] = 0 /\ k[f[1]] = 1 /\ k[f[2]] = 2
         /\ d[f[0]] >= d[f[1]] /\ d[f[1]] >= d[f[2]]
  <2>1. \E p, q, s \in 1..3 : /\ k[p] = 0 /\ k[q] = 1 /\ k[s] = 2
                              /\ d[p] >= d[q] /\ d[q] >= d[s]
    <3>1. CASE a >= b /\ b >= c
      <4>1. k[1] = 0 /\ k[2] = 1 /\ k[3] = 2 /\ d[1] >= d[2] /\ d[2] >= d[3]
        BY <1>3, <1>4, <1>5, <3>1 DEF Bit
      <4> QED
        BY <4>1
    <3>2. CASE a >= c /\ c > b
      <4>1. k[1] = 0 /\ k[3] = 1 /\ k[2] = 2 /\ d[1] >= d[3] /\ d[3] >= d[2]
        BY <1>3, <1>4, <1>5, <3>2 DEF Bit
      <4> QED
        BY <4>1
    <3>3. CASE b > a /\ a >= c
      <4>1. k[2] = 0 /\ k[1] = 1 /\ k[3] = 2 /\ d[2] >= d[1] /\ d[1] >= d[3]
        BY <1>3, <1>4, <1>5, <3>3 DEF Bit
      <4> QED
        BY <4>1
    <3>4. CASE b >= c /\ c > a
      <4>1. k[2] = 0 /\ k[3] = 1 /\ k[1] = 2 /\ d[2] >= d[3] /\ d[3] >= d[1]
        BY <1>3, <1>4, <1>5, <3>4 DEF Bit
      <4> QED
        BY <4>1
    <3>5. CASE c > a /\ a >= b
      <4>1. k[3] = 0 /\ k[1] = 1 /\ k[2] = 2 /\ d[3] >= d[1] /\ d[1] >= d[2]
        BY <1>3, <1>4, <1>5, <3>5 DEF Bit
      <4> QED
        BY <4>1
    <3>6. CASE c > b /\ b > a
      <4>1. k[3] = 0 /\ k[2] = 1 /\ k[1] = 2 /\ d[3] >= d[2] /\ d[2] >= d[1]
        BY <1>3, <1>4, <1>5, <3>6 DEF Bit
      <4> QED
        BY <4>1
    <3> QED
      BY <3>1, <3>2, <3>3, <3>4, <3>5, <3>6
  <2>2. PICK p \in 1..3, q \in 1..3, s \in 1..3 : /\ k[p] = 0 /\ k[q] = 1 /\ k[s] = 2
                                                  /\ d[p] >= d[q] /\ d[q] >= d[s]
    BY <2>1
  <2>3. PICK f : f = [r \in 0..2 |-> IF r = 0 THEN p ELSE IF r = 1 THEN q ELSE s]
    OBVIOUS
  <2>4. f \in [0..2 -> 1..3] /\ f[0] = p /\ f[1] = q /\ f[2] = s
    BY <2>2, <2>3
  <2> QED
    BY <2>2, <2>4
<1>8. \A r \in 0..2 : f[r] \in 1..3 /\ k[f[r]] = r
  BY <1>7
<1>9. \A r, s \in 0..2 : f[r] = f[s] => r = s
  BY <1>8
<1>10. ASSUME NEW r \in 0..2, NEW j \in 1..3, k[j] = r PROVE j = f[r]
  <2>1. f[0] \in 1..3 /\ f[1] \in 1..3 /\ f[2] \in 1..3
        /\ f[0] # f[1] /\ f[0] # f[2] /\ f[1] # f[2]
    BY <1>8, <1>9
  <2>2. j = f[0] \/ j = f[1] \/ j = f[2]
    BY <2>1
  <2>3. \E s \in 0..2 : j = f[s]
    BY <2>2
  <2>4. PICK s \in 0..2 : j = f[s]
    BY <2>3
  <2> QED
    BY <1>8, <1>10, <2>4
<1>11. ASSUME NEW r \in 0..2 PROVE Sides(l)[r] = Dims(l)[f[r]] /\ Sides(l)[r] = d[f[r]]
  <2>1. f[r] \in 1..3 /\ Cardinality(Ahead(l, f[r])) = r
    BY <1>6, <1>8
  <2>2. \A j \in 1..3 : Cardinality(Ahead(l, j)) = r => j = f[r]
    BY <1>6, <1>10
  <2>3. Sides(l)[r] = Dims(l)[f[r]]
    BY <2>1, <2>2, SidesAt
  <2> QED
    BY <1>6, <2>1, <2>3
<1>12. Turned(l, f)
  BY <1>7, <1>9, <1>11 DEF Turned
<1>13. Sorted(l)
  BY <1>7, <1>11 DEF Sorted
<1>14. \A r \in 0..2 : Sides(l)[r] \in Nat \ {0}
  BY <1>6, <1>8, <1>11
<1> QED
  BY <1>12, <1>13, <1>14

(* One more line adds what it brings to a sum, and takes nothing away.     *)
Prolongs(f, n, g) == g[n + 1] \in Nat /\ \A i \in 1..n : f[i] \in Nat /\ g[i] = f[i]
LEMMA SumExtends ==
    ASSUME NEW n \in Nat, NEW f, NEW g, Prolongs(f, n, g), NEW m, m = n + 1
    PROVE  Sum(f, n) \in Nat /\ Sum(g, m) = Sum(f, n) + g[m]
<1>1. PICK a : Partial(f, n, a) /\ Sum(f, n) = a[n]
  BY SumIs
<1>2. PICK b : Partial(g, n + 1, b) /\ Sum(g, n + 1) = b[n + 1]
  <2>1. n + 1 \in Nat
    OBVIOUS
  <2> QED
    BY <2>1, SumIs
<1> DEFINE F == {i \in 0..n : a[i] \in Nat /\ b[i] = a[i]}
<1>3. 0 \in F
  BY <1>1, <1>2 DEF Partial
<1>4. ASSUME NEW i \in 0..(n - 1), i \in F PROVE i + 1 \in F
  <2>1. i + 1 \in 1..n /\ i + 1 \in 1..(n + 1) /\ (i + 1) - 1 = i
    OBVIOUS
  <2>2. a[i + 1] = a[i] + f[i + 1] /\ b[i + 1] = b[i] + g[i + 1]
    BY <1>1, <1>2, <2>1 DEF Partial
  <2>3. f[i + 1] \in Nat /\ g[i + 1] = f[i + 1] /\ a[i] \in Nat /\ b[i] = a[i]
    BY <1>4, <2>1 DEF Prolongs
  <2>4. a[i + 1] \in Nat
    BY <2>2, <2>3
  <2>5. b[i + 1] = a[i + 1]
    BY <2>2, <2>3
  <2> QED
    BY <2>1, <2>4, <2>5
<1> HIDE DEF F
<1>5. n \in F
  <2>1. \A i \in 0..n : i \in F
    BY <1>3, <1>4, UpTo
  <2> QED
    BY <2>1
<1>6. n + 1 \in 1..(n + 1) /\ (n + 1) - 1 = n
  OBVIOUS
<1>7. b[n + 1] = b[n] + g[n + 1]
  BY <1>2, <1>6 DEF Partial
<1> QED
  BY <1>1, <1>2, <1>5, <1>7 DEF F, Prolongs

(* The largest of what some lines have is one of them and exceeds no other.*)
Values(n, v) == {v[i] : i \in 1..n}
LEMMA LargestIs ==
    ASSUME NEW n \in Nat \ {0}, NEW v, \A i \in 1..n : v[i] \in Nat,
           NEW S, S = Values(n, v), NEW top, top = Largest(S)
    PROVE  top \in Nat /\ top \in S /\ \A i \in 1..n : v[i] <= top
<1> DEFINE F == {k \in 0..n : k = 0 \/ \E i \in 1..k : \A j \in 1..k : v[j] <= v[i]}
<1>1. 0 \in F
  OBVIOUS
<1>2. ASSUME NEW k \in 0..(n - 1), k \in F PROVE k + 1 \in F
  <2>1. k + 1 \in 1..n /\ k + 1 \in 0..n /\ k + 1 \in 1..(k + 1)
    OBVIOUS
  <2>2. CASE k = 0
    <3>1. \A j \in 1..(k + 1) : j = k + 1 /\ v[j] <= v[k + 1]
      BY <2>1, <2>2
    <3> QED
      BY <2>1, <3>1
  <2>3. CASE k # 0
    <3>1. PICK i \in 1..k : \A j \in 1..k : v[j] <= v[i]
      BY <1>2, <2>3
    <3>2. PICK m \in 1..(k + 1) : m = IF v[i] <= v[k + 1] THEN k + 1 ELSE i
      BY <2>1
    <3>3. m \in 1..n /\ v[m] \in Nat /\ v[i] \in Nat /\ v[k + 1] \in Nat
      BY <2>1
    <3>4. v[i] <= v[m] /\ v[k + 1] <= v[m]
      BY <3>2, <3>3
    <3>5. ASSUME NEW j \in 1..(k + 1) PROVE v[j] <= v[m]
      <4>1. CASE j = k + 1
        BY <3>4, <4>1
      <4>2. CASE j # k + 1
        <5>1. j \in 1..k /\ j \in 1..n
          BY <4>2
        <5>2. v[j] <= v[i] /\ v[j] \in Nat
          BY <3>1, <5>1
        <5> QED
          BY <3>3, <3>4, <5>2
      <4> QED
        BY <4>1, <4>2
    <3> QED
      BY <2>1, <3>5
  <2> QED
    BY <2>2, <2>3
<1>3. n \in F
  <2> HIDE DEF F
  <2>1. \A k \in 0..n : k \in F
    BY <1>1, <1>2, UpTo
  <2> QED
    BY <2>1
<1>4. PICK i \in 1..n : \A j \in 1..n : v[j] <= v[i]
  BY <1>3
<1>5. v[i] \in S /\ \A m \in S : m <= v[i]
  BY <1>4 DEF Values
<1>6. top \in S /\ \A m \in S : m <= top
  BY <1>5 DEF Largest
<1>7. \A j \in 1..n : v[j] \in S
  BY DEF Values
<1>8. \A m \in S : m \in Nat
  BY DEF Values
<1> QED
  BY <1>6, <1>7, <1>8

LEMMA CeilingIs ==
    ASSUME NEW a \in Nat
    PROVE  Ceiling(a, 10) \in Nat /\ a <= 10 * Ceiling(a, 10) /\ 10 * Ceiling(a, 10) <= a + 9
  BY DEF Ceiling

LEMMA CeilingGrows ==
    ASSUME NEW a \in Nat, NEW b \in Nat, a <= b PROVE Ceiling(a, 10) <= Ceiling(b, 10)
<1>1. PICK x \in Nat : x = Ceiling(a, 10) /\ 10 * x <= a + 9
  BY CeilingIs
<1>2. PICK y \in Nat : y = Ceiling(b, 10) /\ b <= 10 * y
  BY CeilingIs
<1>3. x <= y
  BY <1>1, <1>2
<1> QED
  BY <1>1, <1>2, <1>3

LEMMA UnitsAre == ASSUME NEW qty \in Nat PROVE Units(qty) \in Nat \ {0} /\ qty <= 1000 * Units(qty)
  BY DEF Units, Ceiling

(* A parcel holds its lines: the box is as long and as wide as the longest *)
(* and the middle side of each piece, and as high as all the pieces of all *)
(* the lines lying on those two sides, on top of one another.              *)
PiecesFit(lines, parcel) ==
    /\ \A i \in 1..Len(lines) :
         /\ Sorted(lines[i]) /\ \E f : Turned(lines[i], f)
         /\ Sides(lines[i])[0] <= 10 * parcel.length
         /\ Sides(lines[i])[1] <= 10 * parcel.width
         /\ Units(lines[i].qty) * lines[i].weight <= parcel.weight
    /\ Sum([i \in 1..Len(lines) |-> Units(lines[i].qty) * Sides(lines[i])[2]], Len(lines))
         <= 10 * parcel.height
Smaller(p, q) ==
    p.weight <= q.weight /\ p.length <= q.length /\ p.width <= q.width /\ p.height <= q.height

(* A number of a sum is at most the sum.                                   *)
LEMMA SumHasEach ==
    ASSUME NEW n \in Nat, NEW f, \A i \in 1..n : f[i] \in Nat
    PROVE  Sum(f, n) \in Nat /\ \A i \in 1..n : f[i] <= Sum(f, n)
<1>1. PICK a : Partial(f, n, a) /\ Sum(f, n) = a[n]
  BY SumIs
<1> DEFINE F == {k \in 0..n : a[k] \in Nat /\ \A i \in 1..k : f[i] <= a[k]}
<1>2. 0 \in F
  BY <1>1 DEF Partial
<1>3. ASSUME NEW k \in 0..(n - 1), k \in F PROVE k + 1 \in F
  <2>1. k + 1 \in 1..n /\ (k + 1) - 1 = k
    OBVIOUS
  <2>2. a[k + 1] = a[k] + f[k + 1] /\ a[k] \in Nat /\ f[k + 1] \in Nat
    BY <1>1, <1>3, <2>1 DEF Partial
  <2>3. a[k + 1] \in Nat /\ a[k] <= a[k + 1] /\ f[k + 1] <= a[k + 1]
    BY <2>2
  <2>4. ASSUME NEW i \in 1..(k + 1) PROVE f[i] <= a[k + 1]
    <3>1. CASE i = k + 1
      BY <2>3, <3>1
    <3>2. CASE i # k + 1
      <4>1. i \in 1..k /\ i \in 1..n
        BY <3>2
      <4>2. f[i] <= a[k] /\ f[i] \in Nat
        BY <1>3, <4>1
      <4> QED
        BY <2>2, <2>3, <4>2
    <3> QED
      BY <3>1, <3>2
  <2> QED
    BY <2>1, <2>3, <2>4
<1> HIDE DEF F
<1>4. n \in F
  <2>1. \A k \in 0..n : k \in F
    BY <1>2, <1>3, UpTo
  <2> QED
    BY <2>1
<1> QED
  BY <1>1, <1>4 DEF F

(* What the parcel of n lines is made of.                                  *)
ParcelIs(lines, n, parcel, w, h, top, mid) ==
    /\ w = [i \in 1..n |-> Units(lines[i].qty) * lines[i].weight]
    /\ h = [i \in 1..n |-> Units(lines[i].qty) * Sides(lines[i])[2]]
    /\ top = Largest({Sides(lines[i])[0] : i \in 1..n})
    /\ mid = Largest({Sides(lines[i])[1] : i \in 1..n})
    /\ parcel.weight = Sum(w, n) /\ parcel.height = Ceiling(Sum(h, n), 10)
    /\ parcel.length = Ceiling(top, 10) /\ parcel.width = Ceiling(mid, 10)

LEMMA ParcelOf ==
    ASSUME NEW lines, NEW n, n = Len(lines), NEW parcel, parcel = parcelFromLines(lines)
    PROVE  \E w, h, top, mid : ParcelIs(lines, n, parcel, w, h, top, mid)
<1>1. PICK w, h, top, mid :
        /\ w = [i \in 1..n |-> Units(lines[i].qty) * lines[i].weight]
        /\ h = [i \in 1..n |-> Units(lines[i].qty) * Sides(lines[i])[2]]
        /\ top = Largest({Sides(lines[i])[0] : i \in 1..n})
        /\ mid = Largest({Sides(lines[i])[1] : i \in 1..n})
  OBVIOUS
<1>2. parcel = [weight |-> Sum(w, n), length |-> Ceiling(top, 10),
                width |-> Ceiling(mid, 10), height |-> Ceiling(Sum(h, n), 10)]
  BY <1>1 DEF parcelFromLines
<1>3. ParcelIs(lines, n, parcel, w, h, top, mid)
  BY <1>1, <1>2 DEF ParcelIs
<1> QED
  BY <1>3

(* What the lines bring to it.                                             *)
Brings(l) ==
    /\ Units(l.qty) * l.weight \in Nat /\ Units(l.qty) * Sides(l)[2] \in Nat
    /\ Sides(l)[0] \in Nat /\ Sides(l)[1] \in Nat
LEMMA MeasuredBrings == ASSUME NEW l, IsMeasured(l) PROVE Brings(l)
<1>1. PICK u \in Nat, w \in Nat : u = Units(l.qty) /\ w = l.weight
  BY UnitsAre DEF IsMeasured
<1>2. Sides(l)[0] \in Nat /\ Sides(l)[1] \in Nat /\ Sides(l)[2] \in Nat
  BY SidesSort
<1>3. PICK s \in Nat : s = Sides(l)[2]
  BY <1>2
<1>4. u * w \in Nat /\ u * s \in Nat
  OBVIOUS
<1> QED
  BY <1>1, <1>2, <1>3, <1>4 DEF Brings

(* The numbers of a parcel of measured lines.                              *)
Numbers(lines, n, w, h, top, mid) ==
    /\ \A i \in 1..n : w[i] \in Nat /\ w[i] = Units(lines[i].qty) * lines[i].weight
    /\ \A i \in 1..n : h[i] \in Nat /\ h[i] = Units(lines[i].qty) * Sides(lines[i])[2]
    /\ top \in Nat /\ \A i \in 1..n : Sides(lines[i])[0] <= top
    /\ mid \in Nat /\ \A i \in 1..n : Sides(lines[i])[1] <= mid
    /\ \E i \in 1..n : top = Sides(lines[i])[0]
    /\ \E i \in 1..n : mid = Sides(lines[i])[1]
    /\ Sum(w, n) \in Nat /\ Sum(h, n) \in Nat

LEMMA ParcelNumbers ==
    ASSUME NEW lines, NEW n \in Nat \ {0}, \A i \in 1..n : IsMeasured(lines[i]), NEW parcel,
           NEW w, NEW h, NEW top, NEW mid, ParcelIs(lines, n, parcel, w, h, top, mid)
    PROVE  Numbers(lines, n, w, h, top, mid)
<1>1. \A i \in 1..n : Brings(lines[i])
  BY MeasuredBrings
<1>2. /\ \A i \in 1..n : w[i] \in Nat /\ w[i] = Units(lines[i].qty) * lines[i].weight
      /\ \A i \in 1..n : h[i] \in Nat /\ h[i] = Units(lines[i].qty) * Sides(lines[i])[2]
  BY <1>1 DEF ParcelIs, Brings
<1>3. /\ top \in Nat /\ \A i \in 1..n : Sides(lines[i])[0] <= top
      /\ \E i \in 1..n : top = Sides(lines[i])[0]
  <2>1. PICK v : v = [i \in 1..n |-> Sides(lines[i])[0]]
    OBVIOUS
  <2>2. \A i \in 1..n : v[i] = Sides(lines[i])[0] /\ v[i] \in Nat
    BY <1>1, <2>1 DEF Brings
  <2>3. PICK S : S = Values(n, v)
    OBVIOUS
  <2>4. top = Largest(S)
    <3>1. S = {Sides(lines[i])[0] : i \in 1..n}
      BY <2>2, <2>3 DEF Values
    <3> QED
      BY <3>1 DEF ParcelIs
  <2>5. top \in Nat /\ top \in S /\ \A i \in 1..n : v[i] <= top
    BY <2>2, <2>3, <2>4, LargestIs
  <2>6. \E i \in 1..n : top = v[i]
    BY <2>3, <2>5 DEF Values
  <2> QED
    BY <2>2, <2>5, <2>6
<1>4. /\ mid \in Nat /\ \A i \in 1..n : Sides(lines[i])[1] <= mid
      /\ \E i \in 1..n : mid = Sides(lines[i])[1]
  <2>1. PICK v : v = [i \in 1..n |-> Sides(lines[i])[1]]
    OBVIOUS
  <2>2. \A i \in 1..n : v[i] = Sides(lines[i])[1] /\ v[i] \in Nat
    BY <1>1, <2>1 DEF Brings
  <2>3. PICK S : S = Values(n, v)
    OBVIOUS
  <2>4. mid = Largest(S)
    <3>1. S = {Sides(lines[i])[1] : i \in 1..n}
      BY <2>2, <2>3 DEF Values
    <3> QED
      BY <3>1 DEF ParcelIs
  <2>5. mid \in Nat /\ mid \in S /\ \A i \in 1..n : v[i] <= mid
    BY <2>2, <2>3, <2>4, LargestIs
  <2>6. \E i \in 1..n : mid = v[i]
    BY <2>3, <2>5 DEF Values
  <2> QED
    BY <2>2, <2>5, <2>6
<1>5. Sum(w, n) \in Nat /\ Sum(h, n) \in Nat
  BY <1>2, SumHasEach
<1> QED
  BY <1>2, <1>3, <1>4, <1>5 DEF Numbers

LEMMA ParcelFits ==
    ASSUME NEW lines, NEW n \in Nat \ {0}, n = Len(lines), \A i \in 1..n : IsMeasured(lines[i]),
           NEW parcel, parcel = parcelFromLines(lines)
    PROVE  PiecesFit(lines, parcel)
<1>1. PICK w, h, top, mid : ParcelIs(lines, n, parcel, w, h, top, mid)
  BY ParcelOf
<1>a. Numbers(lines, n, w, h, top, mid)
  BY <1>1, ParcelNumbers
<1>2. /\ \A i \in 1..n : w[i] \in Nat /\ w[i] = Units(lines[i].qty) * lines[i].weight
      /\ \A i \in 1..n : h[i] \in Nat /\ h[i] = Units(lines[i].qty) * Sides(lines[i])[2]
      /\ top \in Nat /\ \A i \in 1..n : Sides(lines[i])[0] <= top
      /\ mid \in Nat /\ \A i \in 1..n : Sides(lines[i])[1] <= mid
      /\ Sum(w, n) \in Nat /\ Sum(h, n) \in Nat
  BY <1>a DEF Numbers
<1>3. /\ parcel.weight = Sum(w, n) /\ parcel.height = Ceiling(Sum(h, n), 10)
      /\ parcel.length = Ceiling(top, 10) /\ parcel.width = Ceiling(mid, 10)
  BY <1>1 DEF ParcelIs
<1>4. /\ parcel.height \in Nat /\ Sum(h, n) <= 10 * parcel.height
      /\ parcel.length \in Nat /\ top <= 10 * parcel.length
      /\ parcel.width \in Nat /\ mid <= 10 * parcel.width
  BY <1>2, <1>3, CeilingIs
<1>5. ASSUME NEW i \in 1..n
      PROVE  /\ Sorted(lines[i]) /\ \E f : Turned(lines[i], f)
             /\ Sides(lines[i])[0] <= 10 * parcel.length
             /\ Sides(lines[i])[1] <= 10 * parcel.width
             /\ Units(lines[i].qty) * lines[i].weight <= parcel.weight
  <2>1. Sorted(lines[i]) /\ \E f : Turned(lines[i], f)
    BY SidesSort
  <2>2. w[i] <= Sum(w, n)
    BY <1>2, SumHasEach
  <2>3. Brings(lines[i])
    BY MeasuredBrings
  <2>4. PICK s0 \in Nat, s1 \in Nat : s0 = Sides(lines[i])[0] /\ s1 = Sides(lines[i])[1]
    BY <2>3 DEF Brings
  <2>5. s0 <= top /\ s1 <= mid
    BY <1>2, <2>4
  <2>6. PICK x \in Nat, y \in Nat : x = parcel.length /\ y = parcel.width
    BY <1>4
  <2>7. s0 <= 10 * x /\ s1 <= 10 * y
    <3>1. top \in Nat /\ mid \in Nat
      BY <1>2
    <3>2. top <= 10 * x /\ mid <= 10 * y
      BY <1>4, <2>6
    <3> QED
      BY <2>5, <3>1, <3>2
  <2> QED
    BY <1>2, <1>3, <2>1, <2>2, <2>4, <2>6, <2>7
<1>6. Sum([i \in 1..n |-> Units(lines[i].qty) * Sides(lines[i])[2]], n) <= 10 * parcel.height
  BY <1>1, <1>4 DEF ParcelIs
<1> QED
  BY <1>5, <1>6 DEF PiecesFit

LEMMA ParcelGrowsBy ==
    ASSUME NEW lines, NEW n \in Nat \ {0}, n = Len(lines), \A i \in 1..n : IsMeasured(lines[i]),
           NEW l, IsMeasured(l), NEW longer, Len(longer) = n + 1,
           \A i \in 1..n : longer[i] = lines[i], longer[n + 1] = l
    PROVE  Smaller(parcelFromLines(lines), parcelFromLines(longer))
<1>1. PICK p, q : p = parcelFromLines(lines) /\ q = parcelFromLines(longer)
  OBVIOUS
<1>2. PICK w, h, top, mid : ParcelIs(lines, n, p, w, h, top, mid)
  BY <1>1, ParcelOf
<1>3. PICK w2, h2, top2, mid2 : ParcelIs(longer, n + 1, q, w2, h2, top2, mid2)
  BY <1>1, ParcelOf
<1>a. Numbers(lines, n, w, h, top, mid)
  BY <1>2, ParcelNumbers
<1>4. /\ \A i \in 1..n : w[i] \in Nat /\ w[i] = Units(lines[i].qty) * lines[i].weight
      /\ \A i \in 1..n : h[i] \in Nat /\ h[i] = Units(lines[i].qty) * Sides(lines[i])[2]
      /\ top \in Nat /\ \E i \in 1..n : top = Sides(lines[i])[0]
      /\ mid \in Nat /\ \E i \in 1..n : mid = Sides(lines[i])[1]
  BY <1>a DEF Numbers
<1>5. n + 1 \in Nat \ {0} /\ n + 1 \in 1..(n + 1) /\ \A i \in 1..n : i \in 1..(n + 1)
  OBVIOUS
<1>6. \A i \in 1..(n + 1) : IsMeasured(longer[i])
  <2>1. \A i \in 1..(n + 1) : i \in 1..n \/ i = n + 1
    OBVIOUS
  <2> QED
    BY <2>1
<1>b. Numbers(longer, n + 1, w2, h2, top2, mid2)
  <2>1. PICK m \in Nat \ {0} : m = n + 1
    BY <1>5
  <2>2. ParcelIs(longer, m, q, w2, h2, top2, mid2) /\ \A i \in 1..m : IsMeasured(longer[i])
    BY <1>3, <1>6, <2>1
  <2>3. Numbers(longer, m, w2, h2, top2, mid2)
    BY <2>2, ParcelNumbers
  <2> QED
    BY <2>1, <2>3
<1>7. /\ \A i \in 1..(n + 1) : w2[i] \in Nat /\ w2[i] = Units(longer[i].qty) * longer[i].weight
      /\ \A i \in 1..(n + 1) : h2[i] \in Nat /\ h2[i] = Units(longer[i].qty) * Sides(longer[i])[2]
      /\ top2 \in Nat /\ \A i \in 1..(n + 1) : Sides(longer[i])[0] <= top2
      /\ mid2 \in Nat /\ \A i \in 1..(n + 1) : Sides(longer[i])[1] <= mid2
  BY <1>b DEF Numbers
<1>8. /\ \A i \in 1..n : w[i] \in Nat /\ w2[i] = w[i]
      /\ \A i \in 1..n : h[i] \in Nat /\ h2[i] = h[i]
  <2>1. ASSUME NEW i \in 1..n PROVE w[i] \in Nat /\ w2[i] = w[i] /\ h[i] \in Nat /\ h2[i] = h[i]
    <3>1. i \in 1..(n + 1) /\ longer[i] = lines[i]
      BY <1>5
    <3>2. w2[i] = Units(lines[i].qty) * lines[i].weight
      BY <1>7, <3>1
    <3>3. h2[i] = Units(lines[i].qty) * Sides(lines[i])[2]
      BY <1>7, <3>1
    <3> QED
      BY <1>4, <3>2, <3>3
  <2> QED
    BY <2>1
<1>9. w2[n + 1] \in Nat /\ h2[n + 1] \in Nat
  BY <1>5, <1>7
<1>10. Sum(w, n) \in Nat /\ Sum(w2, n + 1) = Sum(w, n) + w2[n + 1]
  <2>1. Prolongs(w, n, w2)
    BY <1>8, <1>9 DEF Prolongs
  <2>2. PICK m : m = n + 1
    OBVIOUS
  <2>3. Sum(w, n) \in Nat /\ Sum(w2, m) = Sum(w, n) + w2[m]
    BY <2>1, <2>2, SumExtends
  <2> QED
    BY <2>2, <2>3
<1>11. Sum(h, n) \in Nat /\ Sum(h2, n + 1) = Sum(h, n) + h2[n + 1]
  <2>1. Prolongs(h, n, h2)
    BY <1>8, <1>9 DEF Prolongs
  <2>2. PICK m : m = n + 1
    OBVIOUS
  <2>3. Sum(h, n) \in Nat /\ Sum(h2, m) = Sum(h, n) + h2[m]
    BY <2>1, <2>2, SumExtends
  <2> QED
    BY <2>2, <2>3
<1>12. top <= top2 /\ mid <= mid2
  <2>1. PICK i \in 1..n : top = Sides(lines[i])[0]
    BY <1>4
  <2>2. PICK j \in 1..n : mid = Sides(lines[j])[1]
    BY <1>4
  <2>3. Sides(longer[i])[0] <= top2 /\ Sides(longer[j])[1] <= mid2
    BY <1>5, <1>7
  <2> QED
    BY <2>1, <2>2, <2>3
<1>13. /\ p.weight = Sum(w, n) /\ p.height = Ceiling(Sum(h, n), 10)
       /\ p.length = Ceiling(top, 10) /\ p.width = Ceiling(mid, 10)
  BY <1>2 DEF ParcelIs
<1>14. /\ q.weight = Sum(w2, n + 1) /\ q.height = Ceiling(Sum(h2, n + 1), 10)
       /\ q.length = Ceiling(top2, 10) /\ q.width = Ceiling(mid2, 10)
  BY <1>3 DEF ParcelIs
<1>15. p.weight <= q.weight
  BY <1>9, <1>10, <1>13, <1>14
<1>16. p.height <= q.height
  <2>1. Sum(h2, n + 1) \in Nat /\ Sum(h, n) <= Sum(h2, n + 1)
    BY <1>9, <1>11
  <2> QED
    BY <1>11, <1>13, <1>14, <2>1, CeilingGrows
<1>17. p.length <= q.length /\ p.width <= q.width
  BY <1>4, <1>7, <1>12, <1>13, <1>14, CeilingGrows
<1> QED
  BY <1>1, <1>15, <1>16, <1>17 DEF Smaller

(* The parcel a carrier is asked a price for holds every piece of every    *)
(* line, and one more line never makes it smaller or lighter: for orders   *)
(* of any number of lines whose products have their measures.              *)
THEOREM ParcelHoldsAll ==
    ASSUME NEW lines \in Seq([qty : Nat, weight : Nat, length : Nat, width : Nat, height : Nat]),
           Packable(lines),
           NEW l \in [qty : Nat, weight : Nat, length : Nat, width : Nat, height : Nat], Measured(l)
    PROVE  /\ PiecesFit(lines, parcelFromLines(lines))
           /\ Smaller(parcelFromLines(lines), parcelFromLines(Append(lines, l)))
<1>1. PICK n \in Nat \ {0} : n = Len(lines)
  BY DEF Packable
<1>2. ASSUME NEW i \in 1..n PROVE IsMeasured(lines[i])
  <2>1. PICK T : T = [qty : Nat, weight : Nat, length : Nat, width : Nat, height : Nat]
    OBVIOUS
  <2>2. lines \in Seq(T) /\ i \in 1..Len(lines)
    BY <1>1, <2>1
  <2>3. PICK x : x = lines[i]
    OBVIOUS
  <2>4. x \in T
    BY <2>2, <2>3
  <2>5. Measured(x)
    BY <2>2, <2>3 DEF Packable
  <2>6. /\ x.qty \in Nat /\ x.weight \in Nat /\ x.length \in Nat
        /\ x.width \in Nat /\ x.height \in Nat
    BY <2>1, <2>4
  <2>7. x.weight > 0 /\ x.length > 0 /\ x.width > 0 /\ x.height > 0
    BY <2>5 DEF Measured
  <2>8. IsMeasured(x)
    BY <2>6, <2>7 DEF IsMeasured
  <2> QED
    BY <2>3, <2>8
<1>3. IsMeasured(l)
  BY DEF Measured, IsMeasured
<1>4. PiecesFit(lines, parcelFromLines(lines))
  BY <1>1, <1>2, ParcelFits
<1>5. PICK longer : longer = Append(lines, l)
  OBVIOUS
<1>6. Len(longer) = n + 1 /\ longer[n + 1] = l /\ \A i \in 1..n : longer[i] = lines[i]
  BY <1>1, <1>5
<1>7. Smaller(parcelFromLines(lines), parcelFromLines(longer))
  BY <1>1, <1>2, <1>3, <1>6, ParcelGrowsBy
<1> QED
  BY <1>4, <1>5, <1>7

-------------------------------------------------------------------------------
(* Who sees what *)

(* Whatever filters a query has, what a list shows its detail page shows.  *)
THEOREM ListedIsReadableByAll ==
    ASSUME NEW u, NEW record, NEW now
    PROVE  /\ \A query : OrderAdmits(u, query, record) => OrderAdmits(u, NoOrderFilter, record)
           /\ \A query : ProfileAdmits(u, query, record) => ProfileAdmits(u, NoProfileFilter, record)
           /\ \A query : InvoiceAdmits(u, query, record) => InvoiceAdmits(u, NoInvoiceFilter, record)
           /\ \A query : QuoteAdmits(u, query, record, now) => QuoteAdmits(u, NoQuoteFilter, record, now)
<1>1. \A query : OrderAdmits(u, query, record) => OrderAdmits(u, NoOrderFilter, record)
  BY DEF OrderAdmits, NoOrderFilter, Filter
<1>2. \A query : ProfileAdmits(u, query, record) => ProfileAdmits(u, NoProfileFilter, record)
  BY DEF ProfileAdmits, NoProfileFilter, Filter
<1>3. \A query : InvoiceAdmits(u, query, record) => InvoiceAdmits(u, NoInvoiceFilter, record)
  BY DEF InvoiceAdmits, NoInvoiceFilter, Filter
<1>4. ASSUME NEW query, QuoteAdmits(u, query, record, now) PROVE QuoteAdmits(u, NoQuoteFilter, record, now)
  <2>1. record.status \in Allowed(u)
    BY <1>4 DEF QuoteAdmits, StatusAdmits
  <2> QED
    BY <1>4, <2>1 DEF QuoteAdmits, StatusAdmits, NoQuoteFilter, Filter, NoOne
<1> QED
  BY <1>1, <1>2, <1>3, <1>4

(* Filtering quotes by a status shows, at any moment, the visible ones     *)
(* that are reported with it.                                              *)
THEOREM StatusFilterIsExact ==
    ASSUME NEW u, NEW quotation, quotation.status \in QuoteStatuses, quotation.validUntil \in Nat,
           NEW now \in Nat, NEW s \in {"expired"} \cup QuoteStatuses
    PROVE  QuoteAdmits(u, [NoQuoteFilter EXCEPT !.status = s], quotation, now) <=>
             QuoteAdmits(u, NoQuoteFilter, quotation, now) /\ effectiveStatus(quotation, now) = s
<1>1. [NoQuoteFilter EXCEPT !.status = s].customerId = NoOne
      /\ [NoQuoteFilter EXCEPT !.status = s].status = s
      /\ NoQuoteFilter.customerId = NoOne /\ NoQuoteFilter.status = NoOne
  BY DEF NoQuoteFilter
<1>2. s # NoOne
  BY DEF NoOne, QuoteStatuses
<1>3. Allowed(u) \subseteq QuoteStatuses
  BY DEF Allowed, QuoteStatuses, CustomerVisible
<1>4. StatusAdmits(Allowed(u), s, quotation, now) <=>
        quotation.status \in Allowed(u) /\ effectiveStatus(quotation, now) = s
  BY <1>2, <1>3 DEF StatusAdmits, effectiveStatus, QuoteStatuses
<1>5. StatusAdmits(Allowed(u), NoOne, quotation, now) <=> quotation.status \in Allowed(u)
  BY DEF StatusAdmits, NoOne
<1> QED
  BY <1>1, <1>4, <1>5 DEF QuoteAdmits, Filter

(* A profile on somebody's list is one whose branches they may see, and a  *)
(* branch seen beyond the list is the caller's own: for every caller who   *)
(* is somebody and every profile.                                          *)
THEOREM TwoRulesAgree ==
    ASSUME NEW u, u.id # NoOne, NEW profile
    PROVE  isVisibleToUser(profile, u) <=>
             ProfileAdmits(u, NoProfileFilter, profile) \/ profile.authCustomerId = u.id
<1>1. NoProfileFilter.ownerSalesRepId = NoOne /\ NoProfileFilter.isActive = NoOne
  BY DEF NoProfileFilter
<1>2. ProfileAdmits(u, NoProfileFilter, profile) <=>
        \/ CustomerAdmin(u)
        \/ u.salesRepId # NoOne /\ profile.ownerSalesRepId = u.salesRepId
  BY <1>1 DEF ProfileAdmits, Filter
<1> QED
  BY <1>2 DEF isVisibleToUser

===============================================================================
