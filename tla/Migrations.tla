------------------------------ MODULE Migrations ------------------------------
(***************************************************************************)
(* What `migration:run` does to the references of the catalogue.  Three    *)
(* databases meet the same files: an empty one; production, which created  *)
(* its tables when they referred to each other by code; and a staging one  *)
(* that somebody had begun to convert.  A run is one transaction, rolled   *)
(* back as a whole when a migration throws or the process dies.            *)
(*                                                                         *)
(* A reference is a column of a table.  One row stands for its rows:       *)
(* data[r] says what that row keeps of what it refers to.                  *)
(***************************************************************************)
EXTENDS Schema, SequencesExt

Ref(t, c, to, nullable, action) ==
    [table |-> t, column |-> c, to |-> to, nullable |-> nullable, onDelete |-> action]

Refs ==
    <<Ref("brand_category", "brand_id", "brand", TRUE, "CASCADE"),
      Ref("brand_category", "category_id", "category", TRUE, "CASCADE"),
      Ref("product_dimension", "product_id", "product", FALSE, "CASCADE"),
      Ref("products_image", "product_id", "product", TRUE, "CASCADE"),
      Ref("product_cross_references", "product_id", "product", FALSE, "CASCADE"),
      Ref("product_cross_references", "product_brand_id", "brand", TRUE, "SET_NULL"),
      Ref("product_cross_references", "reference_id", "product", TRUE, "SET_NULL"),
      Ref("product_cross_references", "reference_brand_id", "brand", TRUE, "SET_NULL"),
      Ref("product_cross_references", "reference_product_id", "product", TRUE, "SET_NULL"),
      Ref("model_car", "assembly_plant_id", "assembly_plant", TRUE, "SET_NULL"),
      Ref("model_car_motorization", "model_car_id", "model_car", TRUE, "CASCADE"),
      Ref("model_car_motorization", "motorization_id", "motorization_car", TRUE, "CASCADE"),
      Ref("compatibilities", "product_id", "product", FALSE, "CASCADE"),
      Ref("compatibilities", "assembly_plant_id", "assembly_plant", FALSE, "RESTRICT"),
      Ref("compatibilities", "model_id", "model_car", FALSE, "RESTRICT"),
      Ref("compatibilities", "year_id", "year_car", FALSE, "RESTRICT"),
      Ref("compatibilities", "motorization_id", "motorization_car", TRUE, "RESTRICT"),
      Ref("inventory", "product_id", "product", FALSE, "RESTRICT")>>

RefIds == 1..Len(Refs)
\* mutant: every key the migration adds cascades
KeyCascading(r) == Key(Refs[r].table, Refs[r].column, Refs[r].to, "CASCADE")
KeyOf(r) == Key(Refs[r].table, Refs[r].column, Refs[r].to, Refs[r].onDelete)
Required(r) == [table |-> Refs[r].table, column |-> Refs[r].column]

(* The unique constraints ForeignKeysById puts back.                       *)
Replaced ==
    <<Unique("brand_category", {"brand_id", "category_id"}),
      Unique("model_car_motorization", {"model_car_id", "motorization_id"}),
      Unique("compatibilities",
             {"product_id", "assembly_plant_id", "model_id", "year_id", "motorization_id"}),
      Unique("inventory", {"product_id", "provider_branch_id"})>>

\* mutant: the seven a reader of InitialSchema would find missing
RestoredSeven ==
    {Index("idx_compat_vehicle_lookup", "compatibilities",
           {"model_id", "year_id", "assembly_plant_id", "motorization_id", "product_id"}),
     Index("idx_compat_year_id", "compatibilities", {"year_id"}),
     Index("idx_compat_plant_id", "compatibilities", {"assembly_plant_id"}),
     Index("idx_compat_motorization_id", "compatibilities", {"motorization_id"}),
     Index("idx_mcm_motorization_model", "model_car_motorization",
           {"motorization_id", "model_car_id"}),
     Index("idx_model_car_plant_id", "model_car", {"assembly_plant_id"}),
     Index("idx_products_image_product", "products_image", {"product_id"})}

(* The indexes RestoreIdBasedIndexes creates where they are missing.       *)
Restored ==
    {Index("idx_compat_vehicle_lookup", "compatibilities",
           {"model_id", "year_id", "assembly_plant_id", "motorization_id", "product_id"}),
     Index("idx_compat_year_id", "compatibilities", {"year_id"}),
     Index("idx_compat_plant_id", "compatibilities", {"assembly_plant_id"}),
     Index("idx_compat_motorization_id", "compatibilities", {"motorization_id"}),
     Index("idx_mcm_motorization_model", "model_car_motorization",
           {"motorization_id", "model_car_id"}),
     Index("idx_model_car_plant_id", "model_car", {"assembly_plant_id"}),
     Index("idx_pxref_product_id", "product_cross_references", {"product_id"}),
     Index("idx_pxref_reference_id", "product_cross_references", {"reference_id"}),
     Index("idx_products_image_product", "products_image", {"product_id"}),
     Index("idx_inventory_product_id", "inventory", {"product_id"}),
     Index("idx_inventory_product_branch", "inventory", {"product_id", "provider_branch_id"}),
     Index("idx_inventory_stock", "inventory", {"product_id", "stock"})}

PimIndexes ==
    {Index("idx_brand_active_name", "brand", {"is_active", "name"}),
     Index("idx_category_active_code", "category", {"is_active", "code"}),
     Index("idx_category_department_id", "category", {"id_department"}),
     Index("idx_department_active_code", "category_department", {"is_active", "code"})}

VehicleIndexes ==
    {Index("idx_compat_vehicle_lookup", "compatibilities",
           {"model_id", "year_id", "assembly_plant_id", "motorization_id", "product_id"})}

-------------------------------------------------------------------------------
VARIABLES db,       \* columns, data, keys, required, uniques, indexes
          base,     \* db as the transaction of the run found it
          pending,  \* the migrations still to run
          meant     \* the references whose row referred to something at first

mvars == <<db, base, pending, meant>>

(* What is left of the initial tables where reference r is still a code:   *)
(* nothing that names its column.                                          *)
Names(s, r) == \E x \in s : x.table = Refs[r].table /\ Refs[r].column \in x.columns
Coded(R) ==
    [columns  |-> [r \in RefIds |-> IF r \in R THEN {"code"} ELSE {"id"}],
     keys     |-> {k \in InitialKeys : \A r \in R :
                       ~(k.table = Refs[r].table /\ k.column = Refs[r].column)},
     required |-> {n \in InitialRequired : \A r \in R : n # Required(r)},
     uniques  |-> {u \in InitialUniques : \A r \in R : ~Names({u}, r)},
     indexes  |-> {i \in InitialIndexes : \A r \in R : ~Names({i}, r)}]

Filled(s, d) ==
    [columns |-> s.columns, data |-> d, keys |-> s.keys, required |-> s.required,
     uniques |-> s.uniques, indexes |-> s.indexes]

Empty == Filled([columns |-> [r \in RefIds |-> {}], keys |-> {}, required |-> {},
                 uniques |-> {}, indexes |-> {}], [r \in RefIds |-> "rowless"])

(* The migrations in the order of their timestamps; ForeignKeysById counts *)
(* for as many as the statements it is made of.                            *)
Step(name, n) == [name |-> name, n |-> n]
Chain ==
    <<Step("AddTables", 0)>>
      \o [r \in RefIds |-> Step("Reference", r)]
      \o [i \in 1..Len(Replaced) |-> Step("Unique", i)]
      \o <<Step("RemoveProviderSku", 0), Step("RestoreIndexes", 0), Step("PimIndexes", 0),
           Step("VehicleIndexes", 0), Step("StatusEvents", 0), Step("PriceListCode", 0)>>

Fresh ==
    /\ db = Empty
    /\ meant = {}
    /\ pending = <<Step("InitialSchema", 0)>> \o Chain

(* Production, from the first reference on: one row is odd, its code names *)
(* no row or it has none.                                                  *)
Production ==
    /\ \E odd \in RefIds, what \in {"code", "orphan", "null"} :
         LET d == [r \in RefIds |-> IF r = odd THEN what ELSE "code"] IN
         /\ db = Filled(Coded(RefIds), d)
         /\ meant = {r \in RefIds : d[r] # "null"}
    /\ pending = Chain

(* Staging: the references before n are converted, n has both columns.     *)
Staging ==
    /\ \E n \in RefIds, what \in {"code", "both", "id", "orphan", "null"} :
         LET d == [r \in RefIds |-> IF r < n THEN "id" ELSE IF r = n THEN what ELSE "code"]
             s == Coded(n..Len(Refs))
         IN  /\ db = Filled([s EXCEPT !.columns[n] = {"code", "id"}], d)
             /\ meant = {r \in RefIds : d[r] # "null"}
    /\ pending = Chain

MigInit == (Fresh \/ Production \/ Staging) /\ base = db

-------------------------------------------------------------------------------
Turn(name, n) == pending # <<>> /\ Head(pending) = Step(name, n)
Done(d) == db' = d /\ pending' = Tail(pending) /\ UNCHANGED <<base, meant>>

InitialSchema ==
    /\ Turn("InitialSchema", 0)
    /\ Done(Filled([Coded({}) EXCEPT !.columns = [r \in RefIds |-> {"id"}]],
                   db.data))

AddTables ==
    /\ Turn("AddTables", 0)
    /\ Done([db EXCEPT !.keys = @ \cup AddedKeys, !.required = @ \cup AddedRequired,
                       !.uniques = (@ \ {PriceUnique}) \cup AddedUniques])

(* The value the id column gets from the code.                             *)
Backfilled(r) == IF db.data[r] = "code" THEN "both" ELSE db.data[r]

(* migrateReference refuses to drop a code that names no row, and to       *)
(* require a reference a row lacks.                                        *)
Orphans(r) == "code" \in db.columns[r] /\ Backfilled(r) = "orphan"
Nulls(r) == ~Refs[r].nullable /\ db.data[r] = "null"
\* mutant: the orphans are not counted
RefusedOnlyNulls(r) == Nulls(r)
Refused(r) == Orphans(r) \/ Nulls(r)

\* mutant: the constraint is looked for by its table alone
AddKeyPerTable(r) ==
    IF \E k \in db.keys : k.table = Refs[r].table THEN db.keys ELSE db.keys \cup {KeyOf(r)}
AddKey(r) == db.keys \cup {KeyOf(r)}

Converted(v) == CASE v = "both" -> "id" [] v = "orphan" -> "null" [] OTHER -> v

MigrateReference ==
    \E r \in RefIds :
      /\ Turn("Reference", r)
      /\ ~Refused(r)
      /\ Done([db EXCEPT !.columns[r] = {"id"},
                         !.data[r] = Converted(Backfilled(r)),
                         !.required = IF Refs[r].nullable THEN @ ELSE @ \cup {Required(r)},
                         !.keys = AddKey(r)])

ReplaceUnique ==
    \E i \in 1..Len(Replaced) :
      /\ Turn("Unique", i)
      /\ Done([db EXCEPT !.uniques = @ \cup {Replaced[i]}])

(* The index on provider_sku and its column are in no set of this model.   *)
RemoveProviderSku == Turn("RemoveProviderSku", 0) /\ Done(db)

RestoreIndexes ==
    /\ Turn("RestoreIndexes", 0)
    /\ Done([db EXCEPT !.indexes = @ \cup Restored])
AddPimIndexes ==
    /\ Turn("PimIndexes", 0)
    /\ Done([db EXCEPT !.indexes = @ \cup PimIndexes])
AddVehicleIndexes ==
    /\ Turn("VehicleIndexes", 0)
    /\ Done([db EXCEPT !.indexes = @ \cup VehicleIndexes])
AddStatusEvents ==
    /\ Turn("StatusEvents", 0)
    /\ Done([db EXCEPT !.keys = @ \cup StatusEventKeys])
AddPriceListCode ==
    /\ Turn("PriceListCode", 0)
    /\ Done([db EXCEPT !.keys = @ \cup PriceListCodeKeys])

(* A migration throws, or the process dies: the transaction rolls back.    *)
Abort ==
    /\ pending # <<>>
    /\ db # base
    /\ db' = base
    /\ pending' = IF base = Empty THEN <<Step("InitialSchema", 0)>> \o Chain ELSE Chain
    /\ UNCHANGED <<base, meant>>

(* Somebody mends the data a run refused, between two runs.                *)
Repair ==
    \E r \in RefIds :
      /\ db = base
      /\ \/ db.data[r] = "orphan"
         \/ Nulls(r)
      /\ db' = [db EXCEPT !.data[r] = "code"]
      /\ base' = db'
      /\ UNCHANGED <<pending, meant>>

MigNext ==
    \/ InitialSchema \/ AddTables \/ MigrateReference \/ ReplaceUnique \/ RemoveProviderSku
    \/ RestoreIndexes \/ AddPimIndexes \/ AddVehicleIndexes \/ AddStatusEvents
    \/ AddPriceListCode \/ Abort \/ Repair

Migrated == pending = <<>>

-------------------------------------------------------------------------------
(* A row that referred to something still does, or still holds the code    *)
(* somebody can mend: ForeignKeysById drops no column that says it.        *)
NoReferenceLost ==
    \A r \in meant : \/ db.data[r] \in {"both", "id"} /\ "id" \in db.columns[r]
                     \/ db.data[r] \in {"code", "orphan", "both"} /\ "code" \in db.columns[r]

(* Whatever the database was, the migrations leave it with the same        *)
(* foreign keys, with the same ON DELETE, and with every index a fresh one *)
(* has: RestoreIdBasedIndexes is a full repair of what ForeignKeysById     *)
(* took away.                                                              *)
PathsAgree ==
    Migrated =>
      /\ db.keys = InitialKeys \cup AddedKeys \cup StatusEventKeys \cup PriceListCodeKeys
      /\ InitialIndexes \cup PimIndexes \subseteq db.indexes
===============================================================================
