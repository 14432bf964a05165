------------------------------ MODULE Catalogue ------------------------------
(***************************************************************************)
(* The back office's row store: the services that create, change and       *)
(* remove the rows of the catalogue, its suppliers, vehicles, price lists, *)
(* customers, sales, invoices and jobs, over the foreign keys the          *)
(* migrations left.  A statement is atomic; what a service reads before it *)
(* may be old by then, so a create or an update names any rows, and the    *)
(* database refuses the ones that are gone.                                *)
(*                                                                         *)
(* A row is <<table, n>>.  A behaviour plays in one neighbourhood of       *)
(* tables: references out of it are left aside.                            *)
(***************************************************************************)
EXTENDS Migrations, Entities

CONSTANT Neighbourhoods   \* functions from the tables to how many rows of each

VARIABLES scope,     \* the neighbourhood
          rows,      \* the rows there are
          links,     \* what they refer to: <<row, column, row>>
          inactive   \* the rows whose is_active is false

cvars == <<scope, rows, links, inactive>>

CatalogueInit ==
    /\ scope = [t \in {} |-> 0]
    /\ rows = {} /\ links = {} /\ inactive = {}

Table(r) == r[1]
RowsOf(t) == IF t \in DOMAIN scope THEN {<<t, n>> : n \in 1..scope[t]} ELSE {}

(* The references of a table that stay in the neighbourhood, as its entity *)
(* declares them.                                                          *)
References(t) == {e \in Relations : e.table = t /\ e.to \in DOMAIN scope}
Column(r, c) == [table |-> Table(r), column |-> c]

(* What a row may refer to: for each column a row of its table, or nothing *)
(* where the database allows it.                                           *)
Links(r) == UNION {{<<r, e.column, s>> : s \in RowsOf(e.to)} : e \in References(Table(r))}
Value(L, r, c) == {l[3] : l \in {m \in L : m[1] = r /\ m[2] = c}}
Complete(L, r) ==
    \A e \in References(Table(r)) :
      /\ Cardinality(Value(L, r, e.column)) <= 1
      /\ Column(r, e.column) \in db.required => Value(L, r, e.column) # {}

(* A foreign key demands the row it names; a column without one does not.  *)
HasKey(l, action) == Key(Table(l[1]), l[2], Table(l[3]), action) \in db.keys
Enforced(L) ==
    \A l \in L :
      (\E a \in {"CASCADE", "SET_NULL", "RESTRICT"} : HasKey(l, a)) => l[3] \in rows

(* Two rows with the same values in a unique constraint, none of them null.*)
Clash(L, R) ==
    \E u \in db.uniques : \E r, s \in R :
      /\ Table(r) = u.table /\ Table(s) = u.table /\ r # s
      /\ u.columns \subseteq {e.column : e \in References(u.table)}
      /\ \A c \in u.columns : Value(L, r, c) = Value(L, s, c) /\ Value(L, r, c) # {}

(* The checks of the services, and of the tables, that compare two columns.*)
Distinct(L, r) ==
    CASE Table(r) = "category_complement" ->
           Value(L, r, "category_index_id") \cap Value(L, r, "category_complement_id") = {}
      [] Table(r) = "product_cross_references" ->
           Value(L, r, "product_id") \cap Value(L, r, "reference_product_id") = {}
      [] OTHER -> TRUE

(* A row of the table as a service may save it.                            *)
Saveable(r, L) == Complete(L, r) /\ Enforced(L) /\ Distinct(L, r)

-------------------------------------------------------------------------------
Live == Migrated /\ base = db /\ UNCHANGED mvars

(* The body of a category or of a department may switch it off or on.      *)
Flagged(r) ==
    IF Table(r) \in {"category", "category_department"}
    THEN {inactive \ {r}, inactive \cup {r}}
    ELSE {inactive}

Create(t) ==
    /\ Live
    /\ \E r \in RowsOf(t) \ rows : \E L \in SUBSET Links(r) :
         /\ Saveable(r, L)
         /\ ~Clash(links \cup L, rows \cup {r})
         /\ rows' = rows \cup {r}
         /\ links' = links \cup L
         /\ inactive' \in Flagged(r)
    /\ UNCHANGED scope

(* merge and save: the body's columns, isActive among them.                *)
Update(t) ==
    /\ Live
    /\ \E r \in RowsOf(t) \cap rows : \E L \in SUBSET Links(r) :
         LET left == {l \in links : l[1] # r} IN
         /\ Saveable(r, L)
         /\ ~Clash(left \cup L, rows)
         /\ links' = left \cup L
         /\ inactive' \in Flagged(r)
    /\ UNCHANGED <<scope, rows>>

By(action) == {l \in links : HasKey(l, action)}

(* The rows that go with r: those that refer to one that goes, by CASCADE. *)
Going(r) ==
    LET step[n \in 0..Cardinality(rows)] ==
          IF n = 0 THEN {r}
          ELSE step[n - 1] \cup {l[1] : l \in {m \in By("CASCADE") : m[3] \in step[n - 1]}}
    IN  step[Cardinality(rows)]

(* DELETE is refused when a row that stays must keep its reference.        *)
Refuses(G) ==
    \E l \in links : /\ l[3] \in G /\ l[1] \notin G
                      /\ \/ l \in By("RESTRICT")
                         \/ l \in By("SET_NULL") /\ Column(l[1], l[2]) \in db.required

DeleteRow(r) ==
    LET G == Going(r) IN
    /\ r \in rows
    /\ ~Refuses(G)
    /\ rows' = rows \ G
    /\ links' = {l \in links : l[1] \notin G /\ ~(l[3] \in G /\ l \in By("SET_NULL"))}
    /\ inactive' = inactive \ G
    /\ UNCHANGED scope

Delete(t) == Live /\ \E r \in RowsOf(t) : DeleteRow(r)

(* remove() of a category or of a department keeps the row.                *)
Deactivate(t) ==
    /\ Live
    /\ \E r \in (RowsOf(t) \cap rows) \ inactive : inactive' = inactive \cup {r}
    /\ UNCHANGED <<scope, rows, links>>

-------------------------------------------------------------------------------
(* pim                                                                     *)
DepartmentService ==
    LET t == "category_department" IN Create(t) \/ Update(t) \/ Deactivate(t)
CategoryService == LET t == "category" IN Create(t) \/ Update(t) \/ Deactivate(t)
ComplementService == LET t == "category_complement" IN Create(t) \/ Delete(t)
BrandService == LET t == "brand" IN Create(t) \/ Update(t) \/ Delete(t)
BrandCategoryService == LET t == "brand_category" IN Create(t) \/ Delete(t)
VolumeCategoryService == LET t == "volume_category" IN Create(t) \/ Update(t) \/ Delete(t)
AutoPartService == LET t == "auto_part_catalog" IN Create(t) \/ Update(t) \/ Delete(t)
ProductService == LET t == "product" IN Create(t) \/ Update(t) \/ Delete(t)
ColorService == LET t == "product_color" IN Create(t) \/ Delete(t)
ImageService == LET t == "products_image" IN Create(t) \/ Delete(t)
(* upsertBySku: looks the dimension up by its product, so one is added to  *)
(* a product that has one only when the look-up came before.               *)
DimensionService == Create("product_dimension")
CrossReferenceService == LET t == "product_cross_references" IN Create(t) \/ Delete(t)

(* suppliers                                                               *)
ProviderService == LET t == "provider" IN Create(t) \/ Update(t) \/ Delete(t)
ProviderBranches == LET t == "provider_branch" IN Create(t) \/ Delete(t)
BrandProviderService == LET t == "brand_provider" IN Create(t) \/ Delete(t)

(* vehicles and compatibility                                              *)
AssemblyPlantService == LET t == "assembly_plant" IN Create(t) \/ Update(t) \/ Delete(t)
ModelCarService == LET t == "model_car" IN Create(t) \/ Update(t) \/ Delete(t)
MotorizationService == LET t == "motorization_car" IN Create(t) \/ Update(t) \/ Delete(t)
YearService == LET t == "year_car" IN Create(t) \/ Update(t) \/ Delete(t)
ModelMotorizationService == LET t == "model_car_motorization" IN Create(t) \/ Delete(t)
CompatibilityService == LET t == "compatibilities" IN Create(t) \/ Delete(t)

(* commerce and customers                                                  *)
PriceListService == LET t == "price_lists" IN Create(t) \/ Update(t) \/ Delete(t)
PriceListItemService == LET t == "price_list_items" IN Create(t) \/ Update(t) \/ Delete(t)
PaymentMethodService == LET t == "payment_methods" IN Create(t) \/ Update(t) \/ Delete(t)
ProfileRows == Create("customer_profile") \/ Update("customer_profile")
CustomerBranches == LET t == "customer_branch" IN Create(t) \/ Delete(t)

(* sales, billing and integrations                                         *)
SaleService == LET t == "sales" IN Create(t) \/ Update(t) \/ Delete(t)
InvoiceService == LET t == "invoices" IN Create(t) \/ Update(t) \/ Delete(t)
InvoiceDocuments == LET t == "invoice_documents" IN Create(t) \/ Delete(t)
ImportJobService == LET t == "import_jobs" IN Create(t) \/ Update(t) \/ Delete(t)
ImportJobLogs == Create("import_job_logs")

(* stock, orders and quotes, whose services other modules model: here only *)
(* their rows appear, and a quote's go.                                    *)
StockRows == Create("inventory")
OrderRows == Create("orders")
OrderItemRows == Create("order_items") \/ Create("order_payments")
QuoteRows == Create("quotes") \/ Delete("quotes")
QuoteItemRows == Create("quote_items")

CatalogueNext ==
    \/ DepartmentService \/ CategoryService \/ ComplementService \/ BrandService
    \/ BrandCategoryService \/ VolumeCategoryService \/ AutoPartService
    \/ ProductService \/ ColorService \/ ImageService \/ DimensionService
    \/ CrossReferenceService
    \/ ProviderService \/ ProviderBranches \/ BrandProviderService
    \/ AssemblyPlantService \/ ModelCarService \/ MotorizationService \/ YearService
    \/ ModelMotorizationService \/ CompatibilityService
    \/ PriceListService \/ PriceListItemService \/ PaymentMethodService
    \/ ProfileRows \/ CustomerBranches
    \/ SaleService \/ InvoiceService \/ InvoiceDocuments
    \/ ImportJobService \/ ImportJobLogs
    \/ StockRows \/ OrderRows \/ OrderItemRows \/ QuoteRows \/ QuoteItemRows

(* The application starts on the migrated database, whichever it was.      *)
Start ==
    /\ Migrated /\ base # db
    /\ db' = [db EXCEPT !.data = [r \in RefIds |-> "rowless"]]
    /\ base' = db' /\ meant' = {}
    /\ scope' \in Neighbourhoods
    /\ UNCHANGED <<pending, rows, links, inactive>>

Init == MigInit /\ CatalogueInit
Next == (MigNext /\ UNCHANGED cvars) \/ Start \/ CatalogueNext
Spec == Init /\ [][Next]_<<mvars, cvars>>

-------------------------------------------------------------------------------
(* No row refers to one that is gone, and none has lost a reference its    *)
(* column requires: whatever the database was that the migrations met, and *)
(* whatever a removal takes with it or leaves behind.                      *)
NothingDangles ==
    /\ \A l \in links : l[1] \in rows /\ l[3] \in rows
    /\ \A r \in rows : Complete(links, r)

(* What was sold, invoiced, or is in stock outlives the catalogue: a       *)
(* removal takes no order, line, payment or stock row with it, changes     *)
(* none of their references, and takes a quote's line or an invoice's      *)
(* document only with the quote or the invoice.                            *)
Lasting == {"orders", "order_items", "order_payments", "inventory", "customer_profile"}
Owned == [quote_items |-> "quotes", invoice_documents |-> "invoices"]
DocumentsKept ==
    [][rows' # rows =>
         \A r \in rows :
           /\ Table(r) \in Lasting =>
                r \in rows' /\ {l \in links : l[1] = r} = {l \in links' : l[1] = r}
           /\ r \notin rows' /\ Table(r) \in DOMAIN Owned =>
                \/ Cardinality(rows \ rows') = 1
                \/ \E p \in rows \ rows' : Table(p) = Owned[Table(r)]]_cvars
===============================================================================
