---------------------------- MODULE CatalogueProofs ----------------------------
(***************************************************************************)
(* Proofs about Catalogue: what the migrations leave of the references     *)
(* whichever database they meet, and that no removal leaves a row that     *)
(* refers to nothing or takes a document with it, in any neighbourhood of  *)
(* tables and with any number of rows; and about the facets of a listing,  *)
(* for every input.                                                        *)
(***************************************************************************)
EXTENDS Catalogue, Storefront, FiniteSetTheorems, SequenceTheorems, TLAPS

-------------------------------------------------------------------------------
(* The schema, group of keys by group                                      *)

(* No row of a lasting table loses a reference or goes with another table. *)
Sane(k) ==
    /\ k = Key(k.table, k.column, k.to, k.onDelete)
    /\ k.onDelete \in {"CASCADE", "SET_NULL", "RESTRICT"}
    /\ k.table \in Lasting => k.onDelete # "SET_NULL"
    /\ k.table \in Lasting /\ k.onDelete = "CASCADE" => k.to \in Lasting
    /\ k.onDelete = "CASCADE" => k.to # "invoice_documents" /\ k.to # "quote_items"
    /\ k.table = "quote_items" /\ k.onDelete = "CASCADE" => k.to = "quotes"
    /\ k.table = "invoice_documents" /\ k.onDelete = "CASCADE" => k.to = "invoices"

LEMMA KeysAreSane == \A k \in FreshKeys : Sane(k)
<1>1. \A k \in PimKeys : Sane(k)
  BY DEF PimKeys, Key, Sane, Lasting
<1>2. \A k \in SupplierKeys : Sane(k)
  BY DEF SupplierKeys, Key, Sane, Lasting
<1>3. \A k \in ProductKeys : Sane(k)
  BY DEF ProductKeys, Key, Sane, Lasting
<1>4. \A k \in VehicleKeys : Sane(k)
  BY DEF VehicleKeys, Key, Sane, Lasting
<1>5. \A k \in CompatibilityKeys : Sane(k)
  BY DEF CompatibilityKeys, Key, Sane, Lasting
<1>6. \A k \in InventoryKeys : Sane(k)
  BY DEF InventoryKeys, Key, Sane, Lasting
<1>7. \A k \in CommerceKeys : Sane(k)
  BY DEF CommerceKeys, Key, Sane, Lasting
<1>8. \A k \in OrderKeys : Sane(k)
  BY DEF OrderKeys, Key, Sane, Lasting
<1>9. \A k \in BillingKeys : Sane(k)
  BY DEF BillingKeys, Key, Sane, Lasting
<1>10. \A k \in IntegrationKeys : Sane(k)
  BY DEF IntegrationKeys, Key, Sane, Lasting
<1>11. \A k \in CheckoutKeys : Sane(k)
  BY DEF CheckoutKeys, Key, Sane, Lasting
<1>12. \A k \in ShipmentKeys : Sane(k)
  BY DEF ShipmentKeys, Key, Sane, Lasting
<1>13. \A k \in QuoteKeys : Sane(k)
  BY DEF QuoteKeys, Key, Sane, Lasting
<1>14. \A k \in OutboxKeys : Sane(k)
  BY DEF OutboxKeys, Key, Sane, Lasting
<1>15. \A k \in CustomerKeys : Sane(k)
  BY DEF CustomerKeys, Key, Sane, Lasting
<1>16. \A k \in StatusEventKeys : Sane(k)
  BY DEF StatusEventKeys, Key, Sane, Lasting
<1>17. \A k \in PriceListCodeKeys : Sane(k)
  BY DEF PriceListCodeKeys, Key, Sane, Lasting
<1> QED
  BY <1>1, <1>2, <1>3, <1>4, <1>5, <1>6, <1>7, <1>8, <1>9, <1>10, <1>11, <1>12, <1>13, <1>14, <1>15, <1>16, <1>17
     DEF FreshKeys, InitialKeys, AddedKeys

LEMMA RefIdsAre == RefIds = 1..18
  BY DEF Refs, RefIds

(* Every reference the migration converts has its key in the initial       *)
(* schema, and no other key is on its column.                              *)
LEMMA RefOf ==
    ASSUME NEW r \in RefIds
    PROVE  /\ KeyOf(r) \in InitialKeys
           /\ \A k \in InitialKeys :
                 k.table = Refs[r].table /\ k.column = Refs[r].column => k = KeyOf(r)
<1>1. \A i \in 1..18 : KeyOf(i) \in PimKeys \cup ProductKeys \cup VehicleKeys
                                      \cup CompatibilityKeys \cup InventoryKeys
  BY SMTT(60) DEF Refs, Ref, KeyOf, Key, PimKeys, ProductKeys, VehicleKeys,
     CompatibilityKeys, InventoryKeys
<1> DEFINE Only(S) == \A i \in 1..18 : \A k \in S :
              k.table = Refs[i].table /\ k.column = Refs[i].column => k = KeyOf(i)
<1>2. Only(PimKeys)
  BY SMTT(60) DEF Refs, Ref, KeyOf, Key, PimKeys
<1>3. Only(SupplierKeys)
  BY SMTT(60) DEF Refs, Ref, KeyOf, Key, SupplierKeys
<1>4. Only(ProductKeys)
  BY SMTT(60) DEF Refs, Ref, KeyOf, Key, ProductKeys
<1>5. Only(VehicleKeys)
  BY SMTT(60) DEF Refs, Ref, KeyOf, Key, VehicleKeys
<1>6. Only(CompatibilityKeys)
  BY SMTT(60) DEF Refs, Ref, KeyOf, Key, CompatibilityKeys
<1>7. Only(InventoryKeys)
  BY SMTT(60) DEF Refs, Ref, KeyOf, Key, InventoryKeys
<1>8. Only(CommerceKeys)
  BY SMTT(60) DEF Refs, Ref, KeyOf, Key, CommerceKeys
<1>9. Only(OrderKeys)
  BY SMTT(60) DEF Refs, Ref, KeyOf, Key, OrderKeys
<1>10. Only(BillingKeys)
  BY SMTT(60) DEF Refs, Ref, KeyOf, Key, BillingKeys
<1>11. Only(IntegrationKeys)
  BY SMTT(60) DEF Refs, Ref, KeyOf, Key, IntegrationKeys
<1> QED
  BY <1>1, <1>2, <1>3, <1>4, <1>5, <1>6, <1>7, <1>8, <1>9, <1>10, <1>11, RefIdsAre
     DEF InitialKeys

(* An index that ForeignKeysById loses is restored.                        *)
LEMMA IndexKept ==
    ASSUME NEW i \in InitialIndexes, NEW r \in RefIds, Names({i}, r)
    PROVE  i \in Restored
<1>1. \A n \in 1..18 : \A x \in InitialIndexes :
         x.table = Refs[n].table /\ Refs[n].column \in x.columns => x \in Restored
  BY SMTT(60) DEF Refs, Ref, InitialIndexes, Index, Restored
<1> QED
  BY <1>1, RefIdsAre DEF Names

-------------------------------------------------------------------------------
(* The migrations *)

Steps ==
    [name : {"InitialSchema", "AddTables", "Reference", "Unique", "RemoveProviderSku",
             "RestoreIndexes", "PimIndexes", "VehicleIndexes", "StatusEvents", "PriceListCode"},
     n : Nat]

KeysOf(s) ==
    CASE s.name = "InitialSchema" -> InitialKeys
      [] s.name = "AddTables" -> AddedKeys
      [] s.name = "Reference" -> {KeyOf(s.n)}
      [] s.name = "StatusEvents" -> StatusEventKeys
      [] s.name = "PriceListCode" -> PriceListCodeKeys
      [] OTHER -> {}

IndexesOf(s) ==
    CASE s.name = "InitialSchema" -> InitialIndexes
      [] s.name = "RestoreIndexes" -> Restored
      [] s.name = "PimIndexes" -> PimIndexes
      [] OTHER -> {}

Whole == <<Step("InitialSchema", 0)>> \o Chain

Has(p, x) == \E i \in DOMAIN p : p[i] = x

LEMMA HasEither ==
    ASSUME NEW T, NEW a \in Seq(T), NEW b \in Seq(T)
    PROVE  /\ a \o b \in Seq(T)
           /\ \A x : Has(a \o b, x) <=> Has(a, x) \/ Has(b, x)
<1>1. PICK c \in Seq(T) : c = a \o b
  BY ConcatProperties
<1>2. /\ DOMAIN a = 1..Len(a) /\ DOMAIN b = 1..Len(b) /\ DOMAIN c = 1..Len(c)
      /\ Len(a) \in Nat /\ Len(b) \in Nat /\ Len(c) = Len(a) + Len(b)
      /\ \A i \in 1..(Len(a) + Len(b)) : c[i] = IF i <= Len(a) THEN a[i] ELSE b[i - Len(a)]
  BY <1>1, ConcatProperties, LenProperties
<1>3. ASSUME NEW i \in DOMAIN a PROVE i \in DOMAIN c /\ c[i] = a[i]
  BY <1>2
<1>4. ASSUME NEW i \in DOMAIN b PROVE Len(a) + i \in DOMAIN c /\ c[Len(a) + i] = b[i]
  BY <1>2
<1>5. ASSUME NEW i \in DOMAIN c
      PROVE  \/ i \in DOMAIN a /\ c[i] = a[i]
             \/ i - Len(a) \in DOMAIN b /\ c[i] = b[i - Len(a)]
  BY <1>2
<1>6. ASSUME NEW x PROVE Has(c, x) <=> Has(a, x) \/ Has(b, x)
  <2>1. ASSUME Has(c, x) PROVE Has(a, x) \/ Has(b, x)
    BY <1>5, <2>1 DEF Has
  <2>2. ASSUME Has(a, x) \/ Has(b, x) PROVE Has(c, x)
    BY <1>3, <1>4, <2>2 DEF Has
  <2> QED
    BY <2>1, <2>2
<1> QED
  BY <1>1, <1>6

LEMMA HasOne == ASSUME NEW T, NEW x \in T PROVE <<x>> \in Seq(T) /\ \A y : Has(<<x>>, y) <=> y = x
<1>1. <<x>> \in Seq(T) /\ DOMAIN <<x>> = {1} /\ <<x>>[1] = x
  OBVIOUS
<1> QED
  BY <1>1 DEF Has

LEMMA HasRest ==
    ASSUME NEW T, NEW p \in Seq(T), p # <<>>
    PROVE  /\ Tail(p) \in Seq(T) /\ Head(p) \in T /\ Has(p, Head(p))
           /\ \A x : Has(p, x) <=> x = Head(p) \/ Has(Tail(p), x)
<1>1. PICK n \in Nat, t \in Seq(T) :
         /\ DOMAIN p = 1..(n + 1) /\ Head(p) = p[1] /\ Head(p) \in T
         /\ t = Tail(p) /\ DOMAIN t = 1..n /\ \A i \in 1..n : t[i] = p[i + 1]
  <2>1. /\ DOMAIN p = 1..Len(p) /\ Len(p) \in Nat \ {0} /\ Head(p) = p[1] /\ Head(p) \in T
        /\ Tail(p) \in Seq(T) /\ DOMAIN Tail(p) = 1..(Len(p) - 1)
        /\ \A i \in 1..(Len(p) - 1) : Tail(p)[i] = p[i + 1]
    BY EmptySeq, LenProperties, HeadTailProperties
  <2>2. Len(p) - 1 \in Nat /\ (Len(p) - 1) + 1 = Len(p)
    BY <2>1
  <2> QED
    BY <2>1, <2>2
<1>2. ASSUME NEW x, Has(p, x), x # Head(p) PROVE Has(t, x)
  <2>1. PICK i \in 1..(n + 1) : p[i] = x
    BY <1>1, <1>2 DEF Has
  <2>2. i # 1
    BY <1>1, <1>2, <2>1
  <2>3. i - 1 \in 1..n /\ (i - 1) + 1 = i
    BY <2>2
  <2> QED
    BY <1>1, <2>1, <2>3 DEF Has
<1>3. Has(p, Head(p))
  BY <1>1 DEF Has
<1>4. ASSUME NEW x, Has(t, x) PROVE Has(p, x)
  <2>1. PICK i \in 1..n : t[i] = x
    BY <1>1, <1>4 DEF Has
  <2>2. i + 1 \in 1..(n + 1)
    OBVIOUS
  <2> QED
    BY <1>1, <2>1, <2>2 DEF Has
<1> QED
  BY <1>1, <1>2, <1>3, <1>4

LEMMA RestOf == ASSUME NEW T, NEW x \in T, NEW p \in Seq(T) PROVE Tail(<<x>> \o p) = p
<1>1. PICK one \in Seq(T) : one = <<x>> /\ Len(one) = 1
  <2>1. <<x>> \in Seq(T)
    OBVIOUS
  <2>2. Len(<<x>>) = 1
    OBVIOUS
  <2> QED
    BY <2>1, <2>2
<1>2. PICK c \in Seq(T) : c = one \o p /\ Len(c) = 1 + Len(p)
                          /\ \A i \in 1..Len(p) : c[i + 1] = p[i]
  <2>1. /\ one \o p \in Seq(T) /\ Len(one \o p) = Len(one) + Len(p)
        /\ \A i \in 1..(Len(one) + Len(p)) :
              (one \o p)[i] = IF i <= Len(one) THEN one[i] ELSE p[i - Len(one)]
    BY ConcatProperties
  <2>2. Len(p) \in Nat
    BY LenProperties
  <2>3. ASSUME NEW i \in 1..Len(p) PROVE (one \o p)[i + 1] = p[i]
    <3>1. i + 1 \in 1..(Len(one) + Len(p)) /\ ~(i + 1 <= Len(one)) /\ (i + 1) - Len(one) = i
      BY <1>1, <2>2
    <3> QED
      BY <2>1, <3>1
  <2> QED
    BY <1>1, <2>1, <2>3
<1>3. Len(p) \in Nat /\ c # <<>>
  BY <1>2, LenProperties, EmptySeq
<1>4. Tail(c) \in Seq(T) /\ Len(Tail(c)) = Len(p) /\ \A i \in 1..Len(p) : Tail(c)[i] = p[i]
  BY <1>2, <1>3, HeadTailProperties
<1> QED
  BY <1>1, <1>2, <1>4, SeqEqual

(* Every migration after the first is in the chain, the first is not.      *)
LEMMA ChainFacts ==
    /\ Chain \in Seq(Steps) /\ Whole \in Seq(Steps)
    /\ ~Has(Chain, Step("InitialSchema", 0))
    /\ \A r \in RefIds : Has(Chain, Step("Reference", r))
    /\ \A s \in {"AddTables", "RestoreIndexes", "PimIndexes", "StatusEvents", "PriceListCode"} :
          Has(Chain, Step(s, 0))
    /\ \A x : Has(Whole, x) <=> x = Step("InitialSchema", 0) \/ Has(Chain, x)
<1>1. PICK a : a = <<Step("AddTables", 0)>>
  OBVIOUS
<1>2. PICK b : b = [r \in RefIds |-> Step("Reference", r)]
  OBVIOUS
<1>3. PICK c : c = [i \in 1..Len(Replaced) |-> Step("Unique", i)]
  OBVIOUS
<1>4. PICK d : d = <<Step("RemoveProviderSku", 0), Step("RestoreIndexes", 0),
                     Step("PimIndexes", 0), Step("VehicleIndexes", 0),
                     Step("StatusEvents", 0), Step("PriceListCode", 0)>>
  OBVIOUS
<1>5. Chain = ((a \o b) \o c) \o d
  BY <1>1, <1>2, <1>3, <1>4 DEF Chain
<1>6. Len(Replaced) = 4
  BY DEF Replaced
<1>7. /\ \A r \in 1..18 : Step("Reference", r) \in Steps /\ Step("Unique", r) \in Steps
      /\ \A m \in {"InitialSchema", "AddTables", "RemoveProviderSku", "RestoreIndexes",
                   "PimIndexes", "VehicleIndexes", "StatusEvents", "PriceListCode"} :
            Step(m, 0) \in Steps
  BY DEF Steps, Step
<1>8. a \in Seq(Steps) /\ \A x : Has(a, x) <=> x = Step("AddTables", 0)
  BY <1>1, <1>7, HasOne
<1>9. b \in Seq(Steps) /\ \A x : Has(b, x) <=> \E r \in RefIds : x = Step("Reference", r)
  BY <1>2, <1>7, RefIdsAre DEF Has
<1>10. c \in Seq(Steps) /\ \A x : Has(c, x) <=> \E i \in 1..4 : x = Step("Unique", i)
  BY <1>3, <1>6, <1>7 DEF Has
<1>11. /\ d \in Seq(Steps)
       /\ \A x : Has(d, x) <=> \E s \in {"RemoveProviderSku", "RestoreIndexes", "PimIndexes",
                      "VehicleIndexes", "StatusEvents", "PriceListCode"} : x = Step(s, 0)
  <2>1. d \in Seq(Steps) /\ DOMAIN d = {1, 2, 3, 4, 5, 6}
    BY <1>4, <1>7
  <2>2. /\ d[1] = Step("RemoveProviderSku", 0) /\ d[2] = Step("RestoreIndexes", 0)
        /\ d[3] = Step("PimIndexes", 0) /\ d[4] = Step("VehicleIndexes", 0)
        /\ d[5] = Step("StatusEvents", 0) /\ d[6] = Step("PriceListCode", 0)
    BY <1>4
  <2> QED
    BY <2>1, <2>2 DEF Has
<1>12. a \o b \in Seq(Steps) /\ \A x : Has(a \o b, x) <=> Has(a, x) \/ Has(b, x)
  BY <1>8, <1>9, HasEither
<1>13. (a \o b) \o c \in Seq(Steps) /\ \A x : Has((a \o b) \o c, x) <=> Has(a \o b, x) \/ Has(c, x)
  BY <1>10, <1>12, HasEither
<1>14. Chain \in Seq(Steps) /\ \A x : Has(Chain, x) <=> Has((a \o b) \o c, x) \/ Has(d, x)
  <2>1. PICK q \in Seq(Steps) : q = (a \o b) \o c
    BY <1>13
  <2>2. q \o d \in Seq(Steps) /\ \A x : Has(q \o d, x) <=> Has(q, x) \/ Has(d, x)
    BY <1>11, HasEither
  <2> QED
    BY <1>5, <2>1, <2>2
<1>15. Whole \in Seq(Steps) /\ \A x : Has(Whole, x) <=> x = Step("InitialSchema", 0) \/ Has(Chain, x)
  <2>1. PICK one \in Seq(Steps) :
           one = <<Step("InitialSchema", 0)>> /\ \A x : Has(one, x) <=> x = Step("InitialSchema", 0)
    BY <1>7, HasOne
  <2>2. one \o Chain \in Seq(Steps) /\ \A x : Has(one \o Chain, x) <=> Has(one, x) \/ Has(Chain, x)
    BY <1>14, HasEither
  <2> QED
    BY <2>1, <2>2 DEF Whole
<1>16. ~Has(Chain, Step("InitialSchema", 0))
  <2>1. /\ \A r : Step("InitialSchema", 0) # Step("Reference", r)
        /\ \A r : Step("InitialSchema", 0) # Step("Unique", r)
        /\ \A s \in {"AddTables", "RemoveProviderSku", "RestoreIndexes", "PimIndexes",
                     "VehicleIndexes", "StatusEvents", "PriceListCode"} :
              Step("InitialSchema", 0) # Step(s, 0)
    BY DEF Step
  <2> DEFINE first == Step("InitialSchema", 0)
  <2>2. ~Has(a, first)
    BY <1>8, <2>1
  <2>3. ~Has(b, first)
    BY <1>9, <2>1
  <2>4. ~Has(c, first)
    BY <1>10, <2>1
  <2>5. ~Has(d, first)
    BY <1>11, <2>1
  <2> HIDE DEF first
  <2>6. ~Has((a \o b) \o c, first)
    BY <1>12, <1>13, <2>2, <2>3, <2>4
  <2>7. ~Has(Chain, first)
    BY <1>14, <2>5, <2>6
  <2> QED
    BY <2>7 DEF first
<1> QED
  BY <1>8, <1>9, <1>11, <1>12, <1>13, <1>14, <1>15, <1>16

(* A database as the migrations leave it: its parts, and what a reference  *)
(* may hold.                                                               *)
Shaped(d) ==
    /\ d = [columns |-> d.columns, data |-> d.data, keys |-> d.keys, required |-> d.required,
            uniques |-> d.uniques, indexes |-> d.indexes]
    /\ d.columns \in [RefIds -> SUBSET {"code", "id"}]
    /\ d.data \in [RefIds -> {"code", "both", "id", "orphan", "null", "rowless"}]

(* NoReferenceLost, of any database.                                       *)
Tells(d) ==
    \A r \in meant : /\ r \in RefIds
                     /\ \/ d.data[r] \in {"both", "id"} /\ "id" \in d.columns[r]
                        \/ d.data[r] \in {"code", "orphan", "both"} /\ "code" \in d.columns[r]

(* A database has the keys and the indexes of a fresh one, or the          *)
(* migrations p that it has before it bring them.                          *)
Owes(d, p) ==
    /\ p \in Seq(Steps) /\ d.keys \subseteq FreshKeys
    /\ \A k \in FreshKeys : k \in d.keys \/ \E s \in Steps : Has(p, s) /\ k \in KeysOf(s)
    /\ \A i \in InitialIndexes \cup PimIndexes :
          i \in d.indexes \/ \E s \in Steps : Has(p, s) /\ i \in IndexesOf(s)

Again(d) == IF d = Empty THEN Whole ELSE Chain

MigInv ==
    /\ Shaped(db) /\ Tells(db) /\ Owes(db, pending)
    /\ Shaped(base) /\ Tells(base) /\ Owes(base, Again(base))
    /\ (pending = Whole /\ db = Empty) \/ ~Has(pending, Step("InitialSchema", 0))

LEMMA ChainBrings ==
    /\ \A r \in RefIds : Step("Reference", r) \in Steps /\ KeysOf(Step("Reference", r)) = {KeyOf(r)}
    /\ \A s \in {"InitialSchema", "AddTables", "RemoveProviderSku", "RestoreIndexes",
                 "PimIndexes", "VehicleIndexes", "StatusEvents", "PriceListCode"} :
          Step(s, 0) \in Steps
    /\ KeysOf(Step("InitialSchema", 0)) = InitialKeys
    /\ KeysOf(Step("AddTables", 0)) = AddedKeys
    /\ KeysOf(Step("StatusEvents", 0)) = StatusEventKeys
    /\ KeysOf(Step("PriceListCode", 0)) = PriceListCodeKeys
    /\ \A s \in {"RemoveProviderSku", "RestoreIndexes", "PimIndexes", "VehicleIndexes"} :
          KeysOf(Step(s, 0)) = {}
    /\ \A i : Step("Unique", i).name = "Unique" /\ KeysOf(Step("Unique", i)) = {}
    /\ IndexesOf(Step("InitialSchema", 0)) = InitialIndexes
    /\ IndexesOf(Step("RestoreIndexes", 0)) = Restored
    /\ IndexesOf(Step("PimIndexes", 0)) = PimIndexes
    /\ \A s \in {"AddTables", "RemoveProviderSku", "VehicleIndexes", "StatusEvents", "PriceListCode"} :
          IndexesOf(Step(s, 0)) = {}
    /\ \A n : IndexesOf(Step("Reference", n)) = {} /\ IndexesOf(Step("Unique", n)) = {}
  BY RefIdsAre DEF Step, Steps, KeysOf, IndexesOf

(* The whole chain makes up for whatever a database of codes lacks.        *)
LEMMA CodedOwes ==
    ASSUME NEW d, NEW R \in SUBSET RefIds, d.keys = Coded(R).keys, d.indexes = Coded(R).indexes
    PROVE  Owes(d, Chain)
<1>1. d.keys \subseteq FreshKeys
  BY DEF Coded, FreshKeys
<1>2. ASSUME NEW k \in FreshKeys, k \notin d.keys
      PROVE  \E s \in Steps : Has(Chain, s) /\ k \in KeysOf(s)
  <2>1. CASE k \in InitialKeys
    <3>1. PICK r \in R : k.table = Refs[r].table /\ k.column = Refs[r].column
      BY <1>2, <2>1 DEF Coded
    <3>2. k = KeyOf(r) /\ r \in RefIds
      BY <2>1, <3>1, RefOf
    <3> QED
      BY <3>2, ChainFacts, ChainBrings
  <2>2. CASE k \in AddedKeys \cup StatusEventKeys \cup PriceListCodeKeys
    BY <2>2, ChainFacts, ChainBrings
  <2> QED
    BY <1>2, <2>1, <2>2 DEF FreshKeys
<1>3. ASSUME NEW i \in InitialIndexes \cup PimIndexes, i \notin d.indexes
      PROVE  \E s \in Steps : Has(Chain, s) /\ i \in IndexesOf(s)
  <2>1. CASE i \in InitialIndexes
    <3>1. PICK r \in R : Names({i}, r)
      BY <1>3, <2>1 DEF Coded
    <3>2. i \in Restored
      BY <2>1, <3>1, IndexKept
    <3> QED
      BY <3>2, ChainFacts, ChainBrings
  <2>2. CASE i \in PimIndexes
    BY <2>2, ChainFacts, ChainBrings
  <2> QED
    BY <1>3, <2>1, <2>2
<1> QED
  BY <1>1, <1>2, <1>3, ChainFacts DEF Owes

LEMMA EmptyOwes == Owes(Empty, Whole) /\ Shaped(Empty) /\ Empty.keys = {}
                   /\ \A r \in RefIds : Empty.data[r] = "rowless"
<1>1. /\ Empty.keys = {} /\ Empty.indexes = {} /\ Shaped(Empty)
      /\ \A r \in RefIds : Empty.data[r] = "rowless"
  BY DEF Empty, Filled, Shaped
<1>2. ASSUME NEW k \in FreshKeys PROVE \E s \in Steps : Has(Whole, s) /\ k \in KeysOf(s)
  BY ChainFacts, ChainBrings DEF FreshKeys
<1>3. ASSUME NEW i \in InitialIndexes \cup PimIndexes
      PROVE  \E s \in Steps : Has(Whole, s) /\ i \in IndexesOf(s)
  BY ChainFacts, ChainBrings
<1> QED
  BY <1>1, <1>2, <1>3, ChainFacts DEF Owes

LEMMA MigInitially == MigInit => MigInv
<1> SUFFICES ASSUME MigInit PROVE MigInv
  OBVIOUS
<1>1. CASE Fresh
  <2>1. db = Empty /\ base = Empty /\ pending = Whole /\ meant = {}
    BY <1>1 DEF Fresh, MigInit, Whole
  <2> QED
    BY <2>1, EmptyOwes DEF MigInv, Tells, Again
<1>2. ASSUME NEW d, NEW R \in SUBSET RefIds, pending = Chain, Shaped(d), Tells(d), db = d,
             d.keys = Coded(R).keys, d.indexes = Coded(R).indexes,
             NEW r \in RefIds, d.data[r] # "rowless"
      PROVE  MigInv
  <2>1. Owes(d, Chain) /\ d # Empty
    BY <1>2, CodedOwes, EmptyOwes
  <2>2. base = d
    BY <1>2 DEF MigInit
  <2> QED
    BY <1>2, <2>1, <2>2, ChainFacts DEF MigInv, Again
<1>3. CASE Production
  <2>0. PICK odd \in RefIds, what \in {"code", "orphan", "null"} :
           /\ db = Filled(Coded(RefIds), [r \in RefIds |-> IF r = odd THEN what ELSE "code"])
           /\ meant = {r \in RefIds : [s \in RefIds |-> IF s = odd THEN what ELSE "code"][r] # "null"}
    BY <1>3 DEF Production
  <2>a. PICK v : v = [r \in RefIds |-> IF r = odd THEN what ELSE "code"]
    OBVIOUS
  <2>1. /\ v \in [RefIds -> {"code", "orphan", "null"}]
        /\ v = [r \in RefIds |-> IF r = odd THEN what ELSE "code"]
        /\ db = Filled(Coded(RefIds), v) /\ meant = {r \in RefIds : v[r] # "null"}
    BY <2>0, <2>a
  <2>b. pending = Chain
    BY <1>3 DEF Production
  <2>2. PICK d : d = Filled(Coded(RefIds), v)
    OBVIOUS
  <2>3. /\ d.keys = Coded(RefIds).keys /\ d.indexes = Coded(RefIds).indexes
        /\ d.data = v /\ d.columns = [r \in RefIds |-> {"code"}]
        /\ d = [columns |-> d.columns, data |-> d.data, keys |-> d.keys,
                required |-> d.required, uniques |-> d.uniques, indexes |-> d.indexes]
    BY <2>2 DEF Filled, Coded
  <2>4. Shaped(d) /\ Tells(d) /\ d.data[odd] # "rowless" /\ odd \in RefIds
    <3>1. d.data[odd] # "rowless" /\ odd \in RefIds
      BY <2>0, <2>1, <2>3
    <3>2. Shaped(d)
      BY <2>1, <2>3 DEF Shaped
    <3>3. Tells(d)
      BY <2>1, <2>3 DEF Tells
    <3> QED
      BY <3>1, <3>2, <3>3
  <2>5. db = d
    BY <2>1, <2>2
  <2>6. RefIds \in SUBSET RefIds
    OBVIOUS
  <2> QED
    BY <1>2, <2>b, <2>3, <2>4, <2>5, <2>6
<1>4. CASE Staging
  <2>1. PICK n \in RefIds, what \in {"code", "both", "id", "orphan", "null"} :
           LET v == [r \in RefIds |-> IF r < n THEN "id" ELSE IF r = n THEN what ELSE "code"]
               s == Coded(n..Len(Refs))
           IN  /\ db = Filled([s EXCEPT !.columns[n] = {"code", "id"}], v)
               /\ meant = {r \in RefIds : v[r] # "null"}
    BY <1>4 DEF Staging
  <2>2. PICK v \in [RefIds -> {"code", "both", "id", "orphan", "null"}] :
           v = [r \in RefIds |-> IF r < n THEN "id" ELSE IF r = n THEN what ELSE "code"]
    OBVIOUS
  <2>3. PICK R \in SUBSET RefIds : R = n..Len(Refs) /\ \A r \in RefIds : r \in R <=> ~(r < n)
    BY RefIdsAre DEF RefIds
  <2>4. PICK d : d = Filled([Coded(R) EXCEPT !.columns[n] = {"code", "id"}], v)
    OBVIOUS
  <2>5. db = d /\ meant = {r \in RefIds : v[r] # "null"}
    BY <2>1, <2>2, <2>3, <2>4, Zenon
  <2>6. /\ d.keys = Coded(R).keys /\ d.indexes = Coded(R).indexes /\ d.data = v
        /\ d.columns = [r \in RefIds |-> IF r = n THEN {"code", "id"} ELSE
                                         IF r \in R THEN {"code"} ELSE {"id"}]
        /\ d = [columns |-> d.columns, data |-> d.data, keys |-> d.keys,
                required |-> d.required, uniques |-> d.uniques, indexes |-> d.indexes]
    BY <2>4 DEF Filled, Coded
  <2>7. Shaped(d) /\ Tells(d) /\ d.data[n] # "rowless"
    BY <2>2, <2>3, <2>5, <2>6 DEF Shaped, Tells
  <2>8. pending = Chain
    BY <1>4 DEF Staging
  <2> QED
    BY <1>2, <2>5, <2>6, <2>7, <2>8
<1> QED
  BY <1>1, <1>3, <1>4 DEF MigInit

(* A migration that keeps what the database has, adds its own keys and     *)
(* indexes, and loses no reference leaves the rest to those after it.      *)
LEMMA DoneKeeps ==
    ASSUME MigInv, NEW s \in Steps, pending # <<>>, Head(pending) = s, NEW d, Done(d),
           Shaped(d), Tells(d), d.keys \subseteq FreshKeys,
           db.keys \cup KeysOf(s) \subseteq d.keys, db.indexes \cup IndexesOf(s) \subseteq d.indexes,
           ~Has(Tail(pending), Step("InitialSchema", 0))
    PROVE  MigInv'
<1>1. db' = d /\ pending' = Tail(pending) /\ base' = base /\ meant' = meant
  BY DEF Done
<1>2. /\ pending \in Seq(Steps) /\ Tail(pending) \in Seq(Steps)
      /\ \A x : Has(pending, x) <=> x = s \/ Has(Tail(pending), x)
  BY HasRest DEF MigInv, Owes
<1>3. ASSUME NEW k \in FreshKeys, k \notin d.keys
      PROVE  \E x \in Steps : Has(Tail(pending), x) /\ k \in KeysOf(x)
  BY <1>2, <1>3 DEF MigInv, Owes
<1>4. ASSUME NEW i \in InitialIndexes \cup PimIndexes, i \notin d.indexes
      PROVE  \E x \in Steps : Has(Tail(pending), x) /\ i \in IndexesOf(x)
  BY <1>2, <1>4 DEF MigInv, Owes
<1>5. Owes(d, Tail(pending))
  BY <1>2, <1>3, <1>4 DEF Owes
<1>6. Tells(db)' /\ Tells(base)' /\ Shaped(db)' /\ Shaped(base)'
  BY <1>1 DEF MigInv, Tells, Shaped
<1>7. Owes(db, pending)' /\ Owes(base, Again(base))'
  BY <1>1, <1>5 DEF MigInv, Owes, Again
<1>8. ~Has(pending, Step("InitialSchema", 0))'
  BY <1>1 DEF Has
<1> QED
  BY <1>6, <1>7, <1>8 DEF MigInv

LEMMA FirstOnce ==
    ASSUME MigInv, pending # <<>>
    PROVE  /\ ~Has(Tail(pending), Step("InitialSchema", 0))
           /\ Head(pending) = Step("InitialSchema", 0) => db = Empty
<1>1. pending \in Seq(Steps) /\ \A x : Has(pending, x) <=> x = Head(pending) \/ Has(Tail(pending), x)
  BY HasRest DEF MigInv, Owes
<1>2. CASE pending = Whole /\ db = Empty
  <2>1. Step("InitialSchema", 0) \in Steps
    BY ChainBrings
  <2>2. Tail(Whole) = Chain
    BY <2>1, RestOf, ChainFacts DEF Whole
  <2> QED
    BY <1>2, <2>2, ChainFacts
<1> QED
  BY <1>1, <1>2 DEF MigInv

(* The migrations after the first, which change no column and no row.      *)
LEMMA PartsKept ==
    ASSUME MigInv, NEW name, NEW n, Step(name, n) \in Steps,
           Turn(name, n), NEW d, Done(d), d.columns = db.columns, d.data = db.data,
           d = [columns |-> d.columns, data |-> d.data, keys |-> d.keys,
                required |-> d.required, uniques |-> d.uniques, indexes |-> d.indexes],
           d.keys = db.keys \cup KeysOf(Step(name, n)), KeysOf(Step(name, n)) \subseteq FreshKeys,
           db.indexes \cup IndexesOf(Step(name, n)) \subseteq d.indexes
    PROVE  MigInv'
<1>1. pending # <<>> /\ Head(pending) = Step(name, n)
  BY DEF Turn
<1>2. ~Has(Tail(pending), Step("InitialSchema", 0))
  BY <1>1, FirstOnce
<1>3. Shaped(d) /\ Tells(d) /\ d.keys \subseteq FreshKeys
  BY DEF MigInv, Shaped, Tells, Owes
<1> QED
  BY <1>1, <1>2, <1>3, DoneKeeps
LEMMA MigSteps == MigInv /\ MigNext => MigInv'
<1> SUFFICES ASSUME MigInv, MigNext PROVE MigInv'
  OBVIOUS
<1> DEFINE Parts(d) == d = [columns |-> d.columns, data |-> d.data, keys |-> d.keys,
                            required |-> d.required, uniques |-> d.uniques, indexes |-> d.indexes]
<1>1. CASE InitialSchema
  <2>1. PICK d : d = Filled([Coded({}) EXCEPT !.columns = [r \in RefIds |-> {"id"}]], db.data)
    OBVIOUS
  <2>2. Done(d) /\ pending # <<>> /\ Head(pending) = Step("InitialSchema", 0)
    BY <1>1, <2>1, Zenon DEF InitialSchema, Turn
  <2>3. db = Empty /\ ~Has(Tail(pending), Step("InitialSchema", 0))
    BY <2>2, FirstOnce
  <2>4. meant = {}
    BY <2>3, EmptyOwes DEF MigInv, Tells
  <2>5. /\ d.keys = InitialKeys /\ d.indexes = InitialIndexes /\ d.data = db.data
        /\ d.columns = [r \in RefIds |-> {"id"}] /\ Parts(d)
    BY <2>1 DEF Filled, Coded
  <2>6. Shaped(d) /\ Tells(d)
    BY <2>4, <2>5 DEF Shaped, Tells, MigInv
  <2>7. db.keys = {} /\ db.indexes = {} /\ InitialKeys \subseteq FreshKeys
    BY <2>3 DEF Empty, Filled, FreshKeys
  <2> QED
    BY <2>2, <2>3, <2>5, <2>6, <2>7, DoneKeeps, ChainBrings
<1>2. CASE AddTables
  <2>1. PICK d : d = [db EXCEPT !.keys = @ \cup AddedKeys, !.required = @ \cup AddedRequired,
                                !.uniques = (@ \ {PriceUnique}) \cup AddedUniques]
    OBVIOUS
  <2>2. Done(d) /\ Turn("AddTables", 0)
    BY <1>2, <2>1, Zenon DEF AddTables
  <2>3. /\ d.columns = db.columns /\ d.data = db.data /\ d.indexes = db.indexes
        /\ d.keys = db.keys \cup AddedKeys /\ Parts(d)
    BY <2>1 DEF MigInv, Shaped
  <2>4. AddedKeys \subseteq FreshKeys
    BY DEF FreshKeys
  <2> QED
    BY <2>2, <2>3, <2>4, PartsKept, ChainBrings
<1>3. CASE MigrateReference
  <2>1. PICK r \in RefIds :
          /\ Turn("Reference", r) /\ ~Refused(r)
          /\ Done([db EXCEPT !.columns[r] = {"id"},
                         !.data[r] = Converted(Backfilled(r)),
                         !.required = IF Refs[r].nullable THEN @ ELSE @ \cup {Required(r)},
                         !.keys = AddKey(r)])
    BY <1>3, Zenon DEF MigrateReference
  <2>2. PICK d : d = [db EXCEPT !.columns[r] = {"id"},
                         !.data[r] = Converted(Backfilled(r)),
                         !.required = IF Refs[r].nullable THEN @ ELSE @ \cup {Required(r)},
                         !.keys = AddKey(r)]
    OBVIOUS
  <2>3. Done(d)
    BY <2>1, <2>2, Zenon
  <2>4. pending # <<>> /\ Head(pending) = Step("Reference", r) /\ Step("Reference", r) \in Steps
    BY <2>1, ChainBrings DEF Turn
  <2>5. /\ d.columns = [db.columns EXCEPT ![r] = {"id"}]
        /\ d.data = [db.data EXCEPT ![r] = Converted(Backfilled(r))]
        /\ d.indexes = db.indexes /\ d.keys = db.keys \cup {KeyOf(r)} /\ Parts(d)
    BY <2>2 DEF MigInv, Shaped, AddKey
  <2>6. Converted(Backfilled(r)) \in {"code", "both", "id", "orphan", "null", "rowless"}
    BY DEF MigInv, Shaped, Converted, Backfilled
  <2>7. Shaped(d)
    BY <2>5, <2>6 DEF MigInv, Shaped
  <2>8. ASSUME r \in meant PROVE Converted(Backfilled(r)) = "id"
    BY <2>1, <2>8 DEF MigInv, Tells, Refused, Orphans, Converted, Backfilled
  <2>9. Tells(d)
    BY <2>5, <2>8 DEF MigInv, Shaped, Tells
  <2>10. KeyOf(r) \in FreshKeys
    BY RefOf DEF FreshKeys
  <2> QED
    BY <2>3, <2>4, <2>5, <2>7, <2>9, <2>10, FirstOnce, DoneKeeps, ChainBrings DEF MigInv, Owes
<1>4. CASE ReplaceUnique
  <2>1. PICK i \in 1..Len(Replaced) :
           Turn("Unique", i) /\ Done([db EXCEPT !.uniques = @ \cup {Replaced[i]}])
    BY <1>4 DEF ReplaceUnique
  <2>2. PICK d : d = [db EXCEPT !.uniques = @ \cup {Replaced[i]}]
    OBVIOUS
  <2>3. Done(d)
    BY <2>1, <2>2, Zenon
  <2>4. /\ d.columns = db.columns /\ d.data = db.data /\ d.indexes = db.indexes
        /\ d.keys = db.keys /\ Parts(d)
    BY <2>2 DEF MigInv, Shaped
  <2>5. Step("Unique", i) \in Steps
    BY DEF Replaced, Steps, Step
  <2> QED
    BY <2>1, <2>3, <2>4, <2>5, PartsKept, ChainBrings
<1>5. CASE RemoveProviderSku
  <2>1. Turn("RemoveProviderSku", 0) /\ Done(db) /\ Parts(db)
    BY <1>5 DEF RemoveProviderSku, MigInv, Shaped
  <2> QED
    BY <2>1, PartsKept, ChainBrings
<1>6. CASE RestoreIndexes
  <2>1. PICK d : d = [db EXCEPT !.indexes = @ \cup Restored]
    OBVIOUS
  <2>2. Done(d) /\ Turn("RestoreIndexes", 0)
    BY <1>6, <2>1, Zenon DEF RestoreIndexes
  <2>3. /\ d.columns = db.columns /\ d.data = db.data /\ d.indexes = db.indexes \cup Restored
        /\ d.keys = db.keys /\ Parts(d)
    BY <2>1 DEF MigInv, Shaped
  <2> QED
    BY <2>2, <2>3, PartsKept, ChainBrings
<1>7. CASE AddPimIndexes
  <2>1. PICK d : d = [db EXCEPT !.indexes = @ \cup PimIndexes]
    OBVIOUS
  <2>2. Done(d) /\ Turn("PimIndexes", 0)
    BY <1>7, <2>1, Zenon DEF AddPimIndexes
  <2>3. /\ d.columns = db.columns /\ d.data = db.data /\ d.indexes = db.indexes \cup PimIndexes
        /\ d.keys = db.keys /\ Parts(d)
    BY <2>1 DEF MigInv, Shaped
  <2> QED
    BY <2>2, <2>3, PartsKept, ChainBrings
<1>8. CASE AddVehicleIndexes
  <2>1. PICK d : d = [db EXCEPT !.indexes = @ \cup VehicleIndexes]
    OBVIOUS
  <2>2. Done(d) /\ Turn("VehicleIndexes", 0)
    BY <1>8, <2>1, Zenon DEF AddVehicleIndexes
  <2>3. /\ d.columns = db.columns /\ d.data = db.data /\ d.indexes = db.indexes \cup VehicleIndexes
        /\ d.keys = db.keys /\ Parts(d)
    BY <2>1 DEF MigInv, Shaped
  <2> QED
    BY <2>2, <2>3, PartsKept, ChainBrings
<1>9. CASE AddStatusEvents
  <2>1. PICK d : d = [db EXCEPT !.keys = @ \cup StatusEventKeys]
    OBVIOUS
  <2>2. Done(d) /\ Turn("StatusEvents", 0)
    BY <1>9, <2>1, Zenon DEF AddStatusEvents
  <2>3. /\ d.columns = db.columns /\ d.data = db.data /\ d.indexes = db.indexes
        /\ d.keys = db.keys \cup StatusEventKeys /\ Parts(d)
    BY <2>1 DEF MigInv, Shaped
  <2>4. StatusEventKeys \subseteq FreshKeys
    BY DEF FreshKeys
  <2> QED
    BY <2>2, <2>3, <2>4, PartsKept, ChainBrings
<1>10. CASE AddPriceListCode
  <2>1. PICK d : d = [db EXCEPT !.keys = @ \cup PriceListCodeKeys]
    OBVIOUS
  <2>2. Done(d) /\ Turn("PriceListCode", 0)
    BY <1>10, <2>1, Zenon DEF AddPriceListCode
  <2>3. /\ d.columns = db.columns /\ d.data = db.data /\ d.indexes = db.indexes
        /\ d.keys = db.keys \cup PriceListCodeKeys /\ Parts(d)
    BY <2>1 DEF MigInv, Shaped
  <2>4. PriceListCodeKeys \subseteq FreshKeys
    BY DEF FreshKeys
  <2> QED
    BY <2>2, <2>3, <2>4, PartsKept, ChainBrings
<1>11. CASE Abort
  <2>1. db' = base /\ base' = base /\ meant' = meant /\ pending' = Again(base)
    BY <1>11 DEF Abort, Again, Whole
  <2>2. (pending' = Whole /\ db' = Empty) \/ ~Has(pending', Step("InitialSchema", 0))
    BY <2>1, ChainFacts DEF Again
  <2> QED
    BY <2>1, <2>2 DEF MigInv, Shaped, Tells, Owes, Again, Has
<1>12. CASE Repair
  <2>1. PICK r \in RefIds :
          /\ db = base /\ db.data[r] \in {"orphan", "null"}
          /\ db' = [db EXCEPT !.data[r] = "code"] /\ base' = db'
          /\ pending' = pending /\ meant' = meant
    BY <1>12 DEF Repair, Nulls
  <2>2. PICK d : d = [db EXCEPT !.data[r] = "code"]
    OBVIOUS
  <2>3. /\ d.columns = db.columns /\ d.data = [db.data EXCEPT ![r] = "code"]
        /\ d.indexes = db.indexes /\ d.keys = db.keys /\ Parts(d)
    BY <2>2 DEF MigInv, Shaped
  <2>4. Shaped(d) /\ Tells(d)
    BY <2>1, <2>3 DEF MigInv, Shaped, Tells
  <2>5. d # Empty /\ db # Empty
    <3>1. d.data[r] = "code" /\ db.data[r] # "rowless"
      BY <2>1, <2>3 DEF MigInv, Shaped
    <3> QED
      BY <3>1, EmptyOwes
  <2>6. Owes(d, pending) /\ Owes(d, Chain) /\ ~Has(pending, Step("InitialSchema", 0))
    BY <2>1, <2>3, <2>5 DEF MigInv, Owes, Again
  <2>7. db' = d /\ base' = d
    BY <2>1, <2>2
  <2>8. Again(d) = Chain
    BY <2>5 DEF Again
  <2>9. Shaped(db') /\ Owes(db', pending') /\ ~Has(pending', Step("InitialSchema", 0))
    BY <2>1, <2>4, <2>6, <2>7
  <2>10. Shaped(base') /\ Owes(base', Again(base'))
    BY <2>4, <2>6, <2>7, <2>8
  <2>11. Tells(db)' /\ Tells(base)'
    BY <2>1, <2>4, <2>7 DEF Tells
  <2> QED
    BY <2>9, <2>10, <2>11 DEF MigInv
<1> QED
  BY <1>1, <1>2, <1>3, <1>4, <1>5, <1>6, <1>7, <1>8, <1>9, <1>10, <1>11, <1>12 DEF MigNext

LEMMA MigStart == MigInv /\ Start => MigInv'
<1> SUFFICES ASSUME MigInv, Start PROVE MigInv'
  OBVIOUS
<1>1. /\ db' = [db EXCEPT !.data = [r \in RefIds |-> "rowless"]] /\ base' = db'
      /\ pending' = <<>> /\ pending = <<>> /\ meant' = {}
  BY DEF Start, Migrated
<1>2. PICK d : d = [db EXCEPT !.data = [r \in RefIds |-> "rowless"]]
  OBVIOUS
<1>3. /\ d.columns = db.columns /\ d.data = [r \in RefIds |-> "rowless"]
      /\ d.indexes = db.indexes /\ d.keys = db.keys
      /\ d = [columns |-> d.columns, data |-> d.data, keys |-> d.keys,
              required |-> d.required, uniques |-> d.uniques, indexes |-> d.indexes]
  BY <1>2 DEF MigInv, Shaped
<1>4. Shaped(d)
  BY <1>3 DEF MigInv, Shaped
<1>5. \A x : ~Has(<<>>, x)
  BY DEF Has
<1>6. Owes(d, <<>>)
  BY <1>1, <1>3 DEF MigInv, Owes
<1>7. Owes(d, Again(d))
  BY <1>5, <1>6, ChainFacts DEF Owes, Again
<1> QED
  BY <1>1, <1>2, <1>4, <1>5, <1>6, <1>7 DEF MigInv, Tells

(* What the services do to the rows: no order, line, payment, stock row or *)
(* customer is deleted, and no quote's line but with its quote.            *)
Removes(t) == Delete(t) /\ t \notin Lasting \cup {"quote_items"}
Serves(t) == Create(t) \/ Update(t) \/ Deactivate(t) \/ Removes(t)

LEMMA CatalogueSteps == CatalogueNext => \E t : Serves(t)
<1> SUFFICES ASSUME CatalogueNext PROVE \E t : Serves(t)
  OBVIOUS
<1>1. ASSUME \/ DepartmentService \/ CategoryService \/ ComplementService \/ BrandService
             \/ BrandCategoryService \/ VolumeCategoryService
      PROVE  \E t : Serves(t)
  BY <1>1 DEF DepartmentService, CategoryService, ComplementService, BrandService,
         BrandCategoryService, VolumeCategoryService, Serves, Removes, Lasting
<1>2. ASSUME \/ AutoPartService \/ ProductService \/ ColorService \/ ImageService \/ DimensionService
             \/ CrossReferenceService
      PROVE  \E t : Serves(t)
  BY <1>2 DEF AutoPartService, ProductService, ColorService, ImageService, DimensionService,
         CrossReferenceService, Serves, Removes, Lasting
<1>3. ASSUME \/ ProviderService \/ ProviderBranches \/ BrandProviderService
      PROVE  \E t : Serves(t)
  BY <1>3 DEF ProviderService, ProviderBranches, BrandProviderService, Serves, Removes, Lasting
<1>4. ASSUME \/ AssemblyPlantService \/ ModelCarService \/ MotorizationService \/ YearService
             \/ ModelMotorizationService \/ CompatibilityService
      PROVE  \E t : Serves(t)
  BY <1>4 DEF AssemblyPlantService, ModelCarService, MotorizationService, YearService,
         ModelMotorizationService, CompatibilityService, Serves, Removes, Lasting
<1>5. ASSUME \/ PriceListService \/ PriceListItemService \/ PaymentMethodService \/ ProfileRows
             \/ CustomerBranches
      PROVE  \E t : Serves(t)
  BY <1>5 DEF PriceListService, PriceListItemService, PaymentMethodService, ProfileRows,
         CustomerBranches, Serves, Removes, Lasting
<1>6. ASSUME \/ SaleService \/ InvoiceService \/ InvoiceDocuments \/ ImportJobService
             \/ ImportJobLogs
      PROVE  \E t : Serves(t)
  BY <1>6 DEF SaleService, InvoiceService, InvoiceDocuments, ImportJobService, ImportJobLogs,
         Serves, Removes, Lasting
<1>7. ASSUME \/ StockRows \/ OrderRows \/ OrderItemRows \/ QuoteRows \/ QuoteItemRows
      PROVE  \E t : Serves(t)
  BY <1>7 DEF StockRows, OrderRows, OrderItemRows, QuoteRows, QuoteItemRows, Serves, Removes, Lasting
<1> QED
  BY <1>1, <1>2, <1>3, <1>4, <1>5, <1>6, <1>7 DEF CatalogueNext

LEMMA ServesLive == ASSUME NEW t, Serves(t) PROVE Live /\ UNCHANGED scope
  BY DEF Serves, Removes, Create, Update, Deactivate, Delete, DeleteRow

LEMMA MigSafe == Spec => []MigInv
<1>1. Init => MigInv
  BY MigInitially DEF Init
<1>2. MigInv /\ [Next]_<<mvars, cvars>> => MigInv'
  <2> SUFFICES ASSUME MigInv, [Next]_<<mvars, cvars>> PROVE MigInv'
    OBVIOUS
  <2>1. CASE UNCHANGED mvars
    BY <2>1 DEF mvars, MigInv, Shaped, Tells, Owes, Has, Again
  <2>2. CASE MigNext
    BY <2>2, MigSteps
  <2>3. CASE Start
    BY <2>3, MigStart
  <2>4. CASE CatalogueNext
    BY <2>1, <2>4, CatalogueSteps, ServesLive DEF Live
  <2> QED
    BY <2>1, <2>2, <2>3, <2>4 DEF Next
<1> QED
  BY <1>1, <1>2, PTL DEF Spec

(* NoReferenceLost, of whatever database the migrations meet: a row that   *)
(* referred to something still does, or still holds the code that says     *)
(* what, wherever the run stops and however often it starts again.         *)
THEOREM CatalogueNoReferenceLost == Spec => []NoReferenceLost
<1>1. MigInv => NoReferenceLost
  BY DEF MigInv, Tells, NoReferenceLost
<1> QED
  BY <1>1, MigSafe, PTL

LEMMA MigratedKeys == ASSUME MigInv, Migrated PROVE db.keys = FreshKeys
                                                    /\ InitialIndexes \cup PimIndexes \subseteq db.indexes
<1>1. \A x : ~Has(pending, x)
  BY DEF Migrated, Has
<1> QED
  BY <1>1 DEF MigInv, Owes

(* PathsAgree: an empty database, production and staging come out of the   *)
(* migrations with the same foreign keys and the indexes of a fresh one.   *)
THEOREM CataloguePathsAgree == Spec => []PathsAgree
<1>1. MigInv => PathsAgree
  BY MigratedKeys DEF PathsAgree, FreshKeys
<1> QED
  BY <1>1, MigSafe, PTL

-------------------------------------------------------------------------------
(* What goes with a row                                                    *)

(* Induction up to a number, the property as the set of what has it: the   *)
(* prefix 1..n of a number that lacked it would have a smallest one.       *)
LEMMA UpTo ==
    ASSUME NEW m \in Nat, NEW F, 0 \in F, \A n \in 0..(m - 1) : n \in F => n + 1 \in F
    PROVE  \A n \in 0..m : n \in F
<1> DEFINE Bad == {T \in SUBSET (1..m) : \E n \in 0..m : T = 1..n /\ n \notin F}
<1>1. SUFFICES ASSUME NEW k \in 0..m, k \notin F PROVE FALSE
  OBVIOUS
<1>2. IsWellFoundedOn(StrictSubsetOrdering(1..m), SUBSET (1..m))
  <2>1. PICK S : S = 1..m
    OBVIOUS
  <2>2. IsFiniteSet(S)
    BY <2>1, FS_Interval
  <2>3. IsWellFoundedOn(StrictSubsetOrdering(S), SUBSET S)
    BY <2>2, FS_StrictSubsetOrderingWellFounded, FS_FiniteSubsetsOfFinite
  <2> QED
    BY <2>1, <2>3
<1>3. 1..k \in Bad
  BY <1>1
<1>4. PICK T \in Bad : \A U \in Bad : <<U, T>> \notin StrictSubsetOrdering(1..m)
  <2>1. Bad \subseteq SUBSET (1..m)
    OBVIOUS
  <2> HIDE DEF Bad
  <2> QED
    BY <1>2, <1>3, <2>1, WFMin
<1>5. PICK n \in 0..m : T = 1..n /\ n \notin F
  OBVIOUS
<1>6. n # 0 /\ n - 1 \in 0..(m - 1) /\ (n - 1) + 1 = n
  BY <1>5
<1>7. n - 1 \notin F
  BY <1>5, <1>6
<1>8. PICK U \in SUBSET (1..m) : U = 1..(n - 1)
  BY <1>6
<1>9. U \in Bad
  BY <1>6, <1>7, <1>8
<1>10. n \in T /\ n \notin U /\ U \subseteq T
  BY <1>5, <1>6, <1>8
<1> QED
  BY <1>4, <1>9, <1>10 DEF StrictSubsetOrdering

(* The rows that refer, by the links Q, to one of S; and the table that    *)
(* spreads from r, one link further at each number.                        *)
Via(Q, S) == {l[1] : l \in {m \in Q : m[3] \in S}}
Spreads(Q, r, n, f) ==
    f = [k \in 0..n |-> IF k = 0 THEN {r} ELSE f[k - 1] \cup Via(Q, f[k - 1])]

Grows(Q, r, C, f) ==
    /\ f[0] = {r}
    /\ \A n \in 0..C : n # 0 => f[n] = f[n - 1] \cup Via(Q, f[n - 1])
    /\ \A n \in 0..(C - 1) : f[n + 1] = f[n] \cup Via(Q, f[n])

LEMMA SpreadAt ==
    ASSUME NEW Q, NEW r, NEW C \in Nat, NEW f, Spreads(Q, r, C, f)
    PROVE  Grows(Q, r, C, f)
<1>1. \A k \in 0..C : f[k] = IF k = 0 THEN {r} ELSE f[k - 1] \cup Via(Q, f[k - 1])
  BY DEF Spreads
<1>2. 0 \in 0..C
  OBVIOUS
<1>3. ASSUME NEW n \in 0..(C - 1) PROVE f[n + 1] = f[n] \cup Via(Q, f[n])
  <2>1. n + 1 \in 0..C /\ n + 1 # 0 /\ (n + 1) - 1 = n
    OBVIOUS
  <2> QED
    BY <1>1, <2>1
<1> QED
  BY <1>1, <1>2, <1>3 DEF Grows

LEMMA SpreadExists == ASSUME NEW Q, NEW r, NEW C \in Nat PROVE \E f : Spreads(Q, r, C, f)
<1> DEFINE F == {n \in 0..C : \E f : Spreads(Q, r, n, f)}
<1>1. 0 \in F
  <2>1. Spreads(Q, r, 0, [k \in 0..0 |-> {r}])
    BY DEF Spreads
  <2> QED
    BY <2>1
<1>2. ASSUME NEW n \in 0..(C - 1), n \in F PROVE n + 1 \in F
  <2>1. PICK f : Spreads(Q, r, n, f)
    BY <1>2
  <2>0. n \in Nat
    OBVIOUS
  <2>a. f[0] = {r} /\ \A k \in 0..n : k # 0 => f[k] = f[k - 1] \cup Via(Q, f[k - 1])
    BY <2>0, <2>1, SpreadAt DEF Grows
  <2>2. PICK g : g = [k \in 0..(n + 1) |-> IF k <= n THEN f[k] ELSE f[n] \cup Via(Q, f[n])]
    OBVIOUS
  <2>3. ASSUME NEW k \in 0..(n + 1)
        PROVE  g[k] = IF k = 0 THEN {r} ELSE g[k - 1] \cup Via(Q, g[k - 1])
    <3>1. CASE k = 0
      BY <2>0, <2>2, <2>a, <3>1
    <3>2. CASE k # 0 /\ k <= n
      <4>1. k \in 0..n /\ k - 1 \in 0..(n + 1) /\ k - 1 <= n
        BY <2>0, <3>2
      <4>2. f[k] = f[k - 1] \cup Via(Q, f[k - 1])
        BY <2>a, <3>2, <4>1
      <4> QED
        BY <2>2, <3>2, <4>1, <4>2
    <3>3. CASE k = n + 1
      <4>1. k # 0 /\ k - 1 = n /\ n \in 0..(n + 1) /\ n <= n /\ ~(k <= n)
        BY <2>0, <3>3
      <4> QED
        BY <2>2, <4>1
    <3> QED
      BY <3>1, <3>2, <3>3
  <2>4. Spreads(Q, r, n + 1, g)
    BY <2>2, <2>3 DEF Spreads
  <2> QED
    BY <2>4
<1> HIDE DEF F
<1>3. \A n \in 0..C : n \in F
  BY <1>1, <1>2, UpTo
<1> QED
  BY <1>3 DEF F

(* It stays in every set that has r and whatever refers to a member.       *)
LEMMA SpreadIsLeast ==
    ASSUME NEW Q, NEW r, NEW C \in Nat, NEW f, Spreads(Q, r, C, f),
           NEW S, r \in S, Via(Q, S) \subseteq S
    PROVE  \A n \in 0..C : f[n] \subseteq S
<1> DEFINE F == {n \in 0..C : f[n] \subseteq S}
<1>a. Grows(Q, r, C, f)
  BY SpreadAt
<1>0. /\ f[0] = {r}
      /\ \A n \in 0..(C - 1) : f[n + 1] = f[n] \cup Via(Q, f[n])
  BY <1>a DEF Grows
<1>1. 0 \in F
  BY <1>0
<1>2. ASSUME NEW n \in 0..(C - 1), n \in F PROVE n + 1 \in F
  <2>1. f[n + 1] = f[n] \cup Via(Q, f[n]) /\ f[n] \subseteq S
    BY <1>0, <1>2
  <2>2. Via(Q, f[n]) \subseteq Via(Q, S)
    BY <2>1 DEF Via
  <2> QED
    BY <2>1, <2>2
<1> HIDE DEF F
<1>3. \A n \in 0..C : n \in F
  BY <1>1, <1>2, UpTo
<1> QED
  BY <1>3 DEF F

(* As long as it grows it has one row more at each number, so with as many *)
(* numbers as rows it has stopped growing.                                 *)
LEMMA SpreadStops ==
    ASSUME NEW R, IsFiniteSet(R), NEW Q, NEW r \in R, \A l \in Q : l[1] \in R,
           NEW f, Spreads(Q, r, Cardinality(R), f)
    PROVE  /\ r \in f[Cardinality(R)] /\ f[Cardinality(R)] \subseteq R
           /\ Via(Q, f[Cardinality(R)]) \subseteq f[Cardinality(R)]
<1>1. PICK C \in Nat : C = Cardinality(R)
  BY FS_CardinalityType
<1>2. Via(Q, R) \subseteq R
  BY DEF Via
<1>3. \A n \in 0..C : f[n] \subseteq R
  BY <1>1, <1>2, SpreadIsLeast
<1> DEFINE F == {n \in 0..C : /\ r \in f[n]
                              /\ Via(Q, f[n]) \subseteq f[n] \/ Cardinality(f[n]) > n}
<1>a. Grows(Q, r, C, f)
  BY <1>1, SpreadAt
<1>0. /\ f[0] = {r}
      /\ \A n \in 0..(C - 1) : f[n + 1] = f[n] \cup Via(Q, f[n])
  BY <1>a DEF Grows
<1>4. 0 \in F
  <2>1. 0 \in 0..C /\ r \in f[0]
    BY <1>0, <1>1
  <2>2. Cardinality(f[0]) = 1
    BY <1>0, FS_Singleton
  <2> QED
    BY <2>1, <2>2
<1>5. ASSUME NEW n \in 0..(C - 1), n \in F PROVE n + 1 \in F
  <2>1. PICK A, B : A = f[n] /\ B = f[n + 1] /\ B = A \cup Via(Q, A)
    BY <1>0
  <2>2. n \in 0..C /\ n + 1 \in 0..C /\ A \subseteq R /\ B \subseteq R
    <3>1. n \in 0..C /\ n + 1 \in 0..C
      BY <1>1
    <3> QED
      BY <1>3, <2>1, <3>1
  <2>3. CASE Via(Q, A) \subseteq A
    <3>1. B = A
      BY <2>1, <2>3
    <3> QED
      BY <1>5, <2>1, <2>2, <2>3, <3>1
  <2>4. CASE ~(Via(Q, A) \subseteq A)
    <3>1. A # B /\ A \subseteq B /\ Cardinality(A) > n
      BY <1>5, <2>1, <2>4
    <3>2. IsFiniteSet(B) /\ IsFiniteSet(A) /\ Cardinality(A) <= Cardinality(B)
          /\ Cardinality(A) # Cardinality(B)
      BY <2>2, <3>1, FS_Subset
    <3>3. Cardinality(A) \in Nat /\ Cardinality(B) \in Nat
      BY <3>2, FS_CardinalityType
    <3>4. Cardinality(B) > n + 1
      BY <3>1, <3>2, <3>3
    <3>5. r \in B
      BY <1>5, <2>1
    <3> QED
      BY <2>1, <2>2, <3>4, <3>5
  <2> QED
    BY <2>3, <2>4
<1> HIDE DEF F
<1>6. \A n \in 0..C : n \in F
  BY <1>4, <1>5, UpTo
<1>7. /\ r \in f[C] /\ f[C] \subseteq R
      /\ Via(Q, f[C]) \subseteq f[C] \/ Cardinality(f[C]) > C
  BY <1>3, <1>6 DEF F
<1>8. Cardinality(f[C]) <= C /\ Cardinality(f[C]) \in Nat
  BY <1>1, <1>7, FS_Subset, FS_CardinalityType
<1> QED
  BY <1>1, <1>7, <1>8

(* What goes with r: r itself, every row that refers by CASCADE to one     *)
(* that goes, and nothing that is not so forced.                           *)
LEMMA GoingIs ==
    ASSUME IsFiniteSet(rows), NEW r \in rows, \A l \in links : l[1] \in rows
    PROVE  /\ r \in Going(r) /\ Going(r) \subseteq rows
           /\ \A l \in By("CASCADE") : l[3] \in Going(r) => l[1] \in Going(r)
           /\ \A S : r \in S /\ (\A l \in By("CASCADE") : l[3] \in S => l[1] \in S)
                      => Going(r) \subseteq S
<1> DEFINE C == Cardinality(rows)
           Q == By("CASCADE")
           f == CHOOSE g : Spreads(Q, r, C, g)
<1>1. C \in Nat
  BY FS_CardinalityType
<1>2. Going(r) = f[C]
  BY DEF Going, Spreads, Via
<1>3. Spreads(Q, r, C, f)
  BY <1>1, SpreadExists
<1>4. \A l \in Q : l[1] \in rows
  BY DEF By
<1> HIDE DEF C, Q, f
<1>5. r \in f[C] /\ f[C] \subseteq rows /\ Via(Q, f[C]) \subseteq f[C]
  BY <1>3, <1>4, SpreadStops DEF C
<1>6. ASSUME NEW S, r \in S, \A l \in Q : l[3] \in S => l[1] \in S PROVE f[C] \subseteq S
  <2>1. Via(Q, S) \subseteq S
    BY <1>6 DEF Via
  <2>2. \A n \in 0..C : f[n] \subseteq S
    BY <1>1, <1>3, <1>6, <2>1, SpreadIsLeast
  <2> QED
    BY <1>1, <2>2
<1>7. \A l \in Q : l[3] \in f[C] => l[1] \in f[C]
  BY <1>5 DEF Via
<1> QED
  BY <1>2, <1>5, <1>6, <1>7 DEF Q

-------------------------------------------------------------------------------
(* The rows                                                                *)

(* Every reference that is kept is one a foreign key of the schema is on.  *)
Keyed(l) == \E a \in {"CASCADE", "SET_NULL", "RESTRICT"} :
               Key(Table(l[1]), l[2], Table(l[3]), a) \in FreshKeys

(* No row is there before the application runs on the migrated database.   *)
CatInv ==
    /\ rows # {} => Migrated /\ base = db
    /\ IsFiniteSet(rows)
    /\ \A l \in links : Keyed(l)
    /\ NothingDangles

LEMMA LinkShape ==
    ASSUME NEW r, NEW l \in Links(r)
    PROVE  l[1] = r /\ Keyed(l)
<1>1. PICK e \in References(Table(r)) : \E s \in RowsOf(e.to) : l = <<r, e.column, s>>
  BY DEF Links
<1>0. PICK s \in RowsOf(e.to) : l = <<r, e.column, s>>
  BY <1>1
<1>2. l[1] = r /\ l[2] = e.column /\ l[3] = s
  BY <1>0
<1>3. e \in Relations /\ e.table = Table(r) /\ Table(s) = e.to
  BY <1>0, <1>1 DEF References, RowsOf, Table
<1>4. Brief(e) \in {Brief(k) : k \in FreshKeys}
  BY <1>3, SameReferences
<1>5. PICK k \in FreshKeys : k.table = e.table /\ k.column = e.column /\ k.to = e.to
  BY <1>4 DEF Brief
<1>6. k = Key(k.table, k.column, k.to, k.onDelete) /\ k.onDelete \in {"CASCADE", "SET_NULL", "RESTRICT"}
  BY KeysAreSane DEF Sane
<1> QED
  BY <1>2, <1>3, <1>5, <1>6 DEF Keyed

(* What a row refers to depends on its own links only.                     *)
LEMMA OwnLinks ==
    ASSUME NEW L, NEW M, NEW r, {l \in L : l[1] = r} = {l \in M : l[1] = r}, Complete(L, r)
    PROVE  Complete(M, r)
<1>1. \A c : Value(L, r, c) = Value(M, r, c)
  <2> SUFFICES ASSUME NEW c PROVE Value(L, r, c) = Value(M, r, c)
    OBVIOUS
  <2>1. {m \in L : m[1] = r /\ m[2] = c} = {m \in M : m[1] = r /\ m[2] = c}
    OBVIOUS
  <2> QED
    BY <2>1 DEF Value
<1> QED
  BY <1>1 DEF Complete

(* Where the schema stands still, so does what a row needs.                *)
LEMMA CompleteStands ==
    ASSUME Live, UNCHANGED scope, NEW r, Complete(links', r)
    PROVE  Complete(links, r)'
<1>1. db' = db /\ scope' = scope
  BY DEF Live, mvars
<1> QED
  BY <1>1 DEF Complete, References, Column, Value

LEMMA LiveKeys ==
    ASSUME MigInv, Live
    PROVE  db.keys = FreshKeys /\ Migrated /\ base = db /\ Migrated' /\ base' = db'
  BY MigratedKeys DEF Live, Migrated, mvars

LEMMA CreateKeeps == ASSUME MigInv, CatInv, NEW t, Create(t) PROVE CatInv'
<1>1. Live /\ UNCHANGED scope
  BY DEF Create
<1>2. PICK r, L :
         /\ r \in RowsOf(t) \ rows /\ L \in SUBSET Links(r) /\ Saveable(r, L)
         /\ rows' = rows \cup {r} /\ links' = links \cup L
  BY DEF Create
<1>3. \A l \in L : l[1] = r /\ Keyed(l)
  BY <1>2, LinkShape
<1>4. \A l \in links : l[1] \in rows /\ l[3] \in rows /\ l[1] # r /\ Keyed(l)
  BY <1>2 DEF CatInv, NothingDangles
<1>5. \A l \in L : l[3] \in rows
  BY <1>1, <1>2, <1>3, LiveKeys DEF Saveable, Enforced, HasKey, Keyed
<1>6. ASSUME NEW x \in rows' PROVE Complete(links', x)
  <2>1. CASE x = r
    <3>1. {l \in L : l[1] = r} = {l \in links' : l[1] = r} /\ Complete(L, r)
      BY <1>2, <1>4 DEF Saveable
    <3> QED
      BY <2>1, <3>1, OwnLinks
  <2>2. CASE x # r
    <3>1. {l \in links : l[1] = x} = {l \in links' : l[1] = x} /\ Complete(links, x)
      BY <1>2, <1>3, <2>2 DEF CatInv, NothingDangles
    <3> QED
      BY <3>1, OwnLinks
  <2> QED
    BY <2>1, <2>2
<1>7. NothingDangles'
  BY <1>1, <1>2, <1>3, <1>4, <1>5, <1>6, CompleteStands DEF NothingDangles
<1>8. IsFiniteSet(rows')
  BY <1>2, FS_AddElement DEF CatInv
<1>9. \A l \in links' : Keyed(l)
  BY <1>2, <1>3, <1>4
<1> QED
  BY <1>1, <1>7, <1>8, <1>9, LiveKeys DEF CatInv, Keyed

LEMMA UpdateKeeps == ASSUME MigInv, CatInv, NEW t, Update(t) PROVE CatInv'
<1>1. Live /\ UNCHANGED <<scope, rows>>
  BY DEF Update
<1>2. PICK r, L :
         /\ r \in rows /\ L \in SUBSET Links(r) /\ Saveable(r, L)
         /\ links' = {l \in links : l[1] # r} \cup L
  BY DEF Update
<1>3. \A l \in L : l[1] = r /\ Keyed(l)
  BY <1>2, LinkShape
<1>4. \A l \in links : l[1] \in rows /\ l[3] \in rows /\ Keyed(l)
  BY <1>2 DEF CatInv, NothingDangles
<1>5. \A l \in L : l[3] \in rows
  BY <1>1, <1>2, <1>3, LiveKeys DEF Saveable, Enforced, HasKey, Keyed
<1>6. ASSUME NEW x \in rows' PROVE Complete(links', x)
  <2>1. CASE x = r
    <3>1. {l \in L : l[1] = r} = {l \in links' : l[1] = r} /\ Complete(L, r)
      BY <1>2, <1>4 DEF Saveable
    <3> QED
      BY <2>1, <3>1, OwnLinks
  <2>2. CASE x # r
    <3>1. {l \in links : l[1] = x} = {l \in links' : l[1] = x} /\ Complete(links, x)
      BY <1>1, <1>2, <1>3, <2>2 DEF CatInv, NothingDangles
    <3> QED
      BY <3>1, OwnLinks
  <2> QED
    BY <2>1, <2>2
<1>7. NothingDangles'
  BY <1>1, <1>2, <1>3, <1>4, <1>5, <1>6, CompleteStands DEF NothingDangles
<1>8. \A l \in links' : Keyed(l)
  BY <1>2, <1>3, <1>4
<1> QED
  BY <1>1, <1>7, <1>8, LiveKeys DEF CatInv, Keyed

(* A reference that is left behind is refused, set null or goes along.     *)
LEMMA RemovalKeeps ==
    ASSUME MigInv, CatInv, Live, NEW r, DeleteRow(r) PROVE CatInv'
<1>1. PICK G : G = Going(r)
  OBVIOUS
<1>2. /\ r \in rows /\ ~Refuses(G) /\ UNCHANGED scope /\ rows' = rows \ G
      /\ links' = {l \in links : l[1] \notin G /\ ~(l[3] \in G /\ l \in By("SET_NULL"))}
  BY <1>1 DEF DeleteRow
<1>3. \A l \in links : l[1] \in rows /\ l[3] \in rows /\ Keyed(l)
  BY DEF CatInv, NothingDangles
<1>4. G \subseteq rows /\ \A l \in By("CASCADE") : l[3] \in G => l[1] \in G
  BY <1>1, <1>2, <1>3, GoingIs DEF CatInv
<1>5. db.keys = FreshKeys
  BY LiveKeys
<1>6. \A l \in links : l \in By("CASCADE") \/ l \in By("SET_NULL") \/ l \in By("RESTRICT")
  BY <1>3, <1>5 DEF By, HasKey, Keyed
<1>7. \A l \in links' : l[1] \in rows' /\ l[3] \in rows'
  BY <1>2, <1>3, <1>4, <1>6 DEF Refuses
<1>8. ASSUME NEW x \in rows' PROVE Complete(links', x)
  <2>1. Complete(links, x) /\ x \in rows /\ x \notin G
    BY <1>2 DEF CatInv, NothingDangles
  <2> SUFFICES ASSUME NEW e \in References(Table(x))
               PROVE  /\ Cardinality(Value(links', x, e.column)) <= 1
                      /\ Column(x, e.column) \in db.required => Value(links', x, e.column) # {}
    BY DEF Complete
  <2>2. PICK V, W : V = Value(links, x, e.column) /\ W = Value(links', x, e.column)
    OBVIOUS
  <2>3. Cardinality(V) <= 1 /\ (Column(x, e.column) \in db.required => V # {})
    BY <2>1, <2>2 DEF Complete
  <2>4. W \subseteq V /\ V \subseteq rows
    BY <1>2, <1>3, <2>2 DEF Value
  <2>5. Cardinality(W) <= 1
    <3>1. IsFiniteSet(V)
      BY <2>4, FS_Subset DEF CatInv
    <3>2. IsFiniteSet(W) /\ Cardinality(W) <= Cardinality(V)
      BY <2>4, <3>1, FS_Subset
    <3>3. Cardinality(W) \in Nat /\ Cardinality(V) \in Nat
      BY <3>1, <3>2, FS_CardinalityType
    <3> QED
      BY <2>3, <3>2, <3>3
  <2>6. ASSUME Column(x, e.column) \in db.required PROVE W # {}
    <3>1. PICK l \in links : l[1] = x /\ l[2] = e.column
      BY <2>2, <2>3, <2>6 DEF Value
    <3>2. Column(l[1], l[2]) \in db.required
      BY <2>6, <3>1
    <3>3. ~(l[3] \in G /\ l \in By("SET_NULL"))
      BY <1>2, <2>1, <3>1, <3>2 DEF Refuses
    <3>4. l \in links'
      BY <1>2, <2>1, <3>1, <3>3
    <3> QED
      BY <2>2, <3>1, <3>4 DEF Value
  <2> QED
    BY <2>2, <2>5, <2>6
<1>9. NothingDangles'
  BY <1>2, <1>7, <1>8, CompleteStands DEF NothingDangles
<1>10. IsFiniteSet(rows')
  BY <1>2, FS_Subset DEF CatInv
<1>11. \A l \in links' : Keyed(l)
  BY <1>2, <1>3
<1> QED
  BY <1>9, <1>10, <1>11, LiveKeys DEF CatInv, Keyed

LEMMA ServesKeeps == ASSUME MigInv, CatInv, NEW t, Serves(t) PROVE CatInv'
<1>1. CASE Create(t)
  BY <1>1, CreateKeeps
<1>2. CASE Update(t)
  BY <1>2, UpdateKeeps
<1>3. CASE Deactivate(t)
  <2>1. Live /\ UNCHANGED <<scope, rows, links>>
    BY <1>3 DEF Deactivate
  <2>2. \A l \in links' : Keyed(l)
    BY <2>1 DEF CatInv
  <2>3. NothingDangles'
    BY <2>1, CompleteStands DEF CatInv, NothingDangles
  <2> QED
    BY <2>1, <2>2, <2>3, LiveKeys DEF CatInv, Keyed
<1>4. CASE Removes(t)
  BY <1>4, RemovalKeeps DEF Removes, Delete
<1> QED
  BY <1>1, <1>2, <1>3, <1>4 DEF Serves

(* A migration meets no row: only the repair of a value goes on after.     *)
LEMMA MigrationsMeetNoRow == ASSUME MigInv, CatInv, MigNext, UNCHANGED cvars PROVE CatInv'
<1>1. rows' = rows /\ links' = links /\ scope' = scope
  BY DEF cvars
<1>2. rows # {} => db'.required = db.required /\ db' = base' /\ pending' = <<>>
  <2> SUFFICES ASSUME rows # {} PROVE db'.required = db.required /\ db' = base' /\ pending' = <<>>
    OBVIOUS
  <2>1. pending = <<>>
    BY DEF CatInv, Migrated
  <2>2. Repair
    BY <2>1 DEF MigNext, InitialSchema, AddTables, MigrateReference, ReplaceUnique,
       RemoveProviderSku, RestoreIndexes, AddPimIndexes, AddVehicleIndexes, AddStatusEvents,
       AddPriceListCode, Abort, Turn
  <2>3. PICK r \in RefIds : db' = [db EXCEPT !.data[r] = "code"] /\ base' = db' /\ pending' = pending
    BY <2>2 DEF Repair
  <2>4. PICK d : d = [db EXCEPT !.data[r] = "code"]
    OBVIOUS
  <2>5. d.required = db.required
    BY <2>4 DEF MigInv, Shaped
  <2> QED
    BY <2>1, <2>3, <2>4, <2>5
<1>3. ASSUME NEW r \in rows PROVE Complete(links, r)'
  <2>1. Complete(links, r) /\ db'.required = db.required
    BY <1>2, <1>3 DEF CatInv, NothingDangles
  <2> QED
    BY <1>1, <2>1 DEF Complete, References, Column, Value
<1>4. NothingDangles'
  BY <1>1, <1>3 DEF CatInv, NothingDangles
<1>5. \A l \in links' : Keyed(l)
  BY <1>1 DEF CatInv
<1> QED
  BY <1>1, <1>2, <1>4, <1>5 DEF CatInv, Migrated, Keyed

LEMMA CatSafe == Spec => [](MigInv /\ CatInv)
<1>1. Init => CatInv
  <2> SUFFICES ASSUME Init PROVE CatInv
    OBVIOUS
  <2>1. rows = {} /\ links = {}
    BY DEF Init, CatalogueInit
  <2> QED
    BY <2>1, FS_EmptySet DEF CatInv, NothingDangles
<1>2. MigInv /\ CatInv /\ [Next]_<<mvars, cvars>> => CatInv'
  <2> SUFFICES ASSUME MigInv, CatInv, [Next]_<<mvars, cvars>> PROVE CatInv'
    OBVIOUS
  <2>1. CASE UNCHANGED <<mvars, cvars>>
    BY <2>1 DEF mvars, cvars, CatInv, Migrated, NothingDangles, Keyed, Complete, References,
       Column, Value
  <2>2. CASE MigNext /\ UNCHANGED cvars
    BY <2>2, MigrationsMeetNoRow
  <2>3. CASE Start
    <3>1. rows = {} /\ rows' = {} /\ links' = links
      BY <2>3 DEF Start, CatInv
    <3>2. links = {}
      BY <3>1 DEF CatInv, NothingDangles
    <3> QED
      BY <3>1, <3>2, FS_EmptySet DEF CatInv, NothingDangles
  <2>4. CASE CatalogueNext
    BY <2>4, CatalogueSteps, ServesKeeps
  <2> QED
    BY <2>1, <2>2, <2>3, <2>4 DEF Next
<1> QED
  BY <1>1, <1>2, MigSafe, PTL DEF Spec

(* NothingDangles, with any number of rows in any tables: a column without *)
(* a key would let a row go that another names, and a key on a required    *)
(* column with SET NULL or CASCADE misplaced would leave one incomplete.   *)
THEOREM CatalogueNothingDangles == Spec => []NothingDangles
<1>1. CatInv => NothingDangles
  BY DEF CatInv
<1> QED
  BY <1>1, CatSafe, PTL

(* What a removal leaves alone.                                            *)
Keeps ==
    \A r \in rows :
      /\ Table(r) \in Lasting =>
           r \in rows' /\ {l \in links : l[1] = r} = {l \in links' : l[1] = r}
      /\ r \notin rows' /\ Table(r) \in DOMAIN Owned =>
           \/ Cardinality(rows \ rows') = 1
           \/ \E p \in rows \ rows' : Table(p) = Owned[Table(r)]

LEMMA RemovalSpares ==
    ASSUME MigInv, CatInv, Live, NEW r, DeleteRow(r),
           Table(r) \notin Lasting \cup {"quote_items"}
    PROVE  Keeps
<1>1. PICK G : G = Going(r)
  OBVIOUS
<1>2. /\ r \in rows /\ rows' = rows \ G
      /\ links' = {l \in links : l[1] \notin G /\ ~(l[3] \in G /\ l \in By("SET_NULL"))}
  BY <1>1 DEF DeleteRow
<1>3. \A l \in links : l[1] \in rows /\ l[3] \in rows
  BY DEF CatInv, NothingDangles
<1>4. /\ r \in G /\ G \subseteq rows
      /\ \A l \in By("CASCADE") : l[3] \in G => l[1] \in G
      /\ \A S : r \in S /\ (\A l \in By("CASCADE") : l[3] \in S => l[1] \in S) => G \subseteq S
  BY <1>1, <1>2, <1>3, GoingIs DEF CatInv
<1>5. rows \ rows' = G
  BY <1>2, <1>4
<1>6. ASSUME NEW a, NEW l \in By(a)
      PROVE  l \in links /\ Sane(Key(Table(l[1]), l[2], Table(l[3]), a))
  BY LiveKeys, KeysAreSane DEF By, HasKey
<1>7. \A l \in By("CASCADE") :
         /\ Table(l[1]) \in Lasting => Table(l[3]) \in Lasting
         /\ Table(l[3]) # "invoice_documents"
         /\ Table(l[1]) = "quote_items" => Table(l[3]) = "quotes"
         /\ Table(l[1]) = "invoice_documents" => Table(l[3]) = "invoices"
  BY <1>6 DEF Sane, Key
<1>8. \A l \in By("SET_NULL") : Table(l[1]) \notin Lasting
  BY <1>6 DEF Sane, Key
<1>9. \A x \in G : Table(x) \notin Lasting
  <2>1. PICK S : S = {x \in rows : Table(x) \notin Lasting}
    OBVIOUS
  <2>2. r \in S
    BY <1>2, <2>1
  <2>3. \A l \in By("CASCADE") : l[3] \in S => l[1] \in S
    BY <1>3, <1>6, <1>7, <2>1
  <2> QED
    BY <1>4, <2>1, <2>2, <2>3
<1>10. ASSUME NEW x \in rows, Table(x) \in Lasting
       PROVE  x \in rows' /\ {l \in links : l[1] = x} = {l \in links' : l[1] = x}
  BY <1>2, <1>8, <1>9, <1>10
<1>11. ASSUME NEW x \in G, x # r
       PROVE  \E l \in By("CASCADE") : l[1] = x /\ l[3] \in G
  <2>1. PICK S : S = G \ {x}
    OBVIOUS
  <2>2. r \in S /\ ~(G \subseteq S)
    BY <1>4, <1>11, <2>1
  <2>3. PICK l \in By("CASCADE") : l[3] \in S /\ l[1] \notin S
    BY <1>4, <2>2
  <2> QED
    BY <1>4, <2>1, <2>3
<1>12. CASE Table(r) = "invoice_documents"
  <2>1. G \subseteq {r}
    BY <1>4, <1>7, <1>12
  <2>2. G = {r}
    BY <1>4, <2>1
  <2>3. Cardinality(G) = 1
    BY <2>2, FS_Singleton
  <2> QED
    BY <1>5, <1>10, <2>3 DEF Keeps
<1>13. CASE Table(r) # "invoice_documents"
  <2>1. ASSUME NEW x \in rows, x \notin rows', Table(x) \in DOMAIN Owned
        PROVE  \E p \in rows \ rows' : Table(p) = Owned[Table(x)]
    <3>1. Table(x) \in {"quote_items", "invoice_documents"}
      BY <2>1 DEF Owned
    <3>2. x \in G /\ x # r
      BY <1>2, <1>5, <1>13, <2>1, <3>1
    <3>3. PICK l \in By("CASCADE") : l[1] = x /\ l[3] \in G
      BY <1>11, <3>2
    <3>4. Table(l[3]) = Owned[Table(x)]
      BY <1>7, <3>1, <3>3 DEF Owned
    <3> QED
      BY <1>5, <3>3, <3>4
  <2> QED
    BY <1>10, <2>1 DEF Keeps
<1> QED
  BY <1>12, <1>13

(* DocumentsKept, in any neighbourhood: the closure of ON DELETE CASCADE   *)
(* from any row a service deletes reaches no order, line, payment, stock   *)
(* row or customer, and a quote's line or an invoice's document only       *)
(* through its quote or its invoice.                                       *)
THEOREM CatalogueDocumentsKept == Spec => DocumentsKept
<1>1. MigInv /\ CatInv /\ [Next]_<<mvars, cvars>> => [rows' # rows => Keeps]_cvars
  <2> SUFFICES ASSUME MigInv, CatInv, [Next]_<<mvars, cvars>>, rows' # rows PROVE Keeps
    OBVIOUS
  <2>1. CatalogueNext
    BY DEF Next, Start, cvars
  <2>2. PICK t : Serves(t)
    BY <2>1, CatalogueSteps
  <2>3. CASE Create(t)
    <3>1. PICK r, L : /\ r \notin rows /\ L \in SUBSET Links(r)
                      /\ rows' = rows \cup {r} /\ links' = links \cup L
      BY <2>3 DEF Create
    <3>2. \A l \in L : l[1] = r
      BY <3>1, LinkShape
    <3> QED
      BY <3>1, <3>2 DEF Keeps
  <2>4. CASE Removes(t)
    <3>1. PICK r \in RowsOf(t) : DeleteRow(r) /\ Live
      BY <2>4 DEF Removes, Delete
    <3>2. Table(r) \notin Lasting \cup {"quote_items"}
      BY <2>4, <3>1 DEF Removes, RowsOf, Table
    <3> QED
      BY <3>1, <3>2, RemovalSpares
  <2>5. ~Update(t) /\ ~Deactivate(t)
    BY DEF Update, Deactivate
  <2> QED
    BY <2>2, <2>3, <2>4, <2>5 DEF Serves
<1> QED
  BY <1>1, CatSafe, PTL DEF Spec, DocumentsKept, Keeps

-------------------------------------------------------------------------------
(* What a shopper sees                                                     *)

(* Choosing an option of a facet and counting what is found, for one facet *)
(* and whatever the other filters say.                                     *)
FacetCounts(products, query, field, chosen, option) ==
    Facet(products, query, field, option) = Cardinality(search(products, chosen))

LEMMA FacetOf ==
    ASSUME NEW products, NEW query, NEW field \in {"brand", "category", "autoPart"},
           NEW option, option # Null, NEW chosen,
           \A p \in products : applyFilters(p, chosen, "none") <=>
                                applyFilters(p, query, field) /\ p[field] = option
    PROVE  FacetCounts(products, query, field, chosen, option)
<1> DEFINE found == {p \in products : p[field] # Null /\ applyFilters(p, query, field)}
           counted == {p \in found : p[field] = option}
<1>1. search(products, chosen) = counted
  BY DEF search
<1>2. PICK f : f = [o \in {p[field] : p \in found} |-> Cardinality({p \in found : p[field] = o})]
  OBVIOUS
<1>3. facets(products, query)[field] = f
  BY <1>2 DEF facets, countBy
<1>4. Facet(products, query, field, option) = IF option \in DOMAIN f THEN f[option] ELSE 0
  BY <1>3 DEF Facet
<1>5. CASE option \in DOMAIN f
  <2>1. f[option] = Cardinality(counted)
    BY <1>2, <1>5
  <2> QED
    BY <1>1, <1>4, <1>5, <2>1 DEF FacetCounts
<1>6. CASE option \notin DOMAIN f
  <2>1. counted = {}
    BY <1>2, <1>6
  <2>2. Cardinality(counted) = 0
    BY <2>1, FS_EmptySet
  <2> QED
    BY <1>1, <1>4, <1>6, <2>2 DEF FacetCounts
<1> QED
  BY <1>5, <1>6

(* The number a facet shows beside an option is how many products the      *)
(* shopper finds when choosing it, the other filters as they are: whatever *)
(* the catalogue, the query and the option.                                *)
THEOREM FacetsAreExact ==
    ASSUME NEW products, NEW Filters,
           NEW query \in [q : Filters, brand : Filters, category : Filters, autoPart : Filters,
                          provider : Filters, isVisible : Filters],
           NEW option, option # Null, option # Everything
    PROVE  /\ Facet(products, query, "brand", option) =
                Cardinality(search(products, [query EXCEPT !.brand = option]))
           /\ Facet(products, query, "category", option) =
                Cardinality(search(products, [query EXCEPT !.category = option]))
           /\ Facet(products, query, "autoPart", option) =
                Cardinality(search(products, [query EXCEPT !.autoPart = option]))
<1>1. FacetCounts(products, query, "brand", [query EXCEPT !.brand = option], option)
  <2>1. PICK chosen : chosen = [query EXCEPT !.brand = option]
    OBVIOUS
  <2>2. /\ chosen.brand = option /\ chosen.q = query.q /\ chosen.category = query.category
        /\ chosen.autoPart = query.autoPart /\ chosen.provider = query.provider
        /\ chosen.isVisible = query.isVisible
    BY <2>1
  <2>3. ASSUME NEW p \in products
        PROVE  applyFilters(p, chosen, "none") <=> applyFilters(p, query, "brand") /\ p.brand = option
    BY <2>2 DEF applyFilters, Chosen
  <2> QED
    BY <2>1, <2>3, FacetOf
<1>2. FacetCounts(products, query, "category", [query EXCEPT !.category = option], option)
  <2>1. PICK chosen : chosen = [query EXCEPT !.category = option]
    OBVIOUS
  <2>2. /\ chosen.category = option /\ chosen.q = query.q /\ chosen.brand = query.brand
        /\ chosen.autoPart = query.autoPart /\ chosen.provider = query.provider
        /\ chosen.isVisible = query.isVisible
    BY <2>1
  <2>3. ASSUME NEW p \in products
        PROVE  applyFilters(p, chosen, "none") <=> applyFilters(p, query, "category") /\ p.category = option
    BY <2>2 DEF applyFilters, Chosen
  <2> QED
    BY <2>1, <2>3, FacetOf
<1>3. FacetCounts(products, query, "autoPart", [query EXCEPT !.autoPart = option], option)
  <2>1. PICK chosen : chosen = [query EXCEPT !.autoPart = option]
    OBVIOUS
  <2>2. /\ chosen.autoPart = option /\ chosen.q = query.q /\ chosen.brand = query.brand
        /\ chosen.category = query.category /\ chosen.provider = query.provider
        /\ chosen.isVisible = query.isVisible
    BY <2>1
  <2>3. ASSUME NEW p \in products
        PROVE  applyFilters(p, chosen, "none") <=> applyFilters(p, query, "autoPart") /\ p.autoPart = option
    BY <2>2 DEF applyFilters, Chosen
  <2> QED
    BY <2>1, <2>3, FacetOf
<1> QED
  BY <1>1, <1>2, <1>3 DEF FacetCounts

===============================================================================
