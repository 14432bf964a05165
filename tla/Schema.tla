--------------------------------- MODULE Schema ---------------------------------
(***************************************************************************)
(* The database as the migrations leave it: foreign keys, NOT NULL, unique *)
(* constraints and the indexes a migration is about.  No two tables with a *)
(* reference have one name in two schemas, which are left out.             *)
(***************************************************************************)
EXTENDS Naturals, Sequences, FiniteSets

(* A foreign key.  SET_NULL is ON DELETE SET NULL; NO ACTION, which is     *)
(* what no ON DELETE clause means, is RESTRICT here: no constraint of this *)
(* database is deferrable.                                                 *)
Key(t, c, to, action) == [table |-> t, column |-> c, to |-> to, onDelete |-> action]

Columns(t, cs) == {[table |-> t, column |-> c] : c \in cs}
Unique(t, cs) == [table |-> t, columns |-> cs]

-------------------------------------------------------------------------------
(* InitialSchema *)

PimKeys ==
    {Key("category", "id_department", "category_department", "RESTRICT"),
     Key("brand_category", "brand_id", "brand", "CASCADE"),
     Key("brand_category", "category_id", "category", "CASCADE"),
     Key("category_complement", "category_index_id", "category", "RESTRICT"),
     Key("category_complement", "category_complement_id", "category", "RESTRICT"),
     Key("auto_part_catalog", "volume_category_id", "volume_category", "RESTRICT"),
     Key("auto_part_catalog", "category_id", "category", "RESTRICT")}

SupplierKeys ==
    {Key("provider_branch", "provider_id", "provider", "RESTRICT"),
     Key("brand_provider", "brand_id", "brand", "CASCADE"),
     Key("brand_provider", "provider_id", "provider", "CASCADE")}

ProductKeys ==
    {Key("product", "category_id", "category", "RESTRICT"),
     Key("product", "brand_id", "brand", "CASCADE"),
     Key("product", "provider_id", "provider", "RESTRICT"),
     Key("product", "auto_part_type_id", "auto_part_catalog", "RESTRICT"),
     Key("product_color", "id_product", "product", "CASCADE"),
     Key("product_dimension", "product_id", "product", "CASCADE"),
     Key("products_image", "product_id", "product", "CASCADE"),
     Key("product_cross_references", "product_id", "product", "CASCADE"),
     Key("product_cross_references", "product_brand_id", "brand", "SET_NULL"),
     Key("product_cross_references", "reference_id", "product", "SET_NULL"),
     Key("product_cross_references", "reference_brand_id", "brand", "SET_NULL"),
     Key("product_cross_references", "reference_product_id", "product", "SET_NULL")}

VehicleKeys ==
    {Key("model_car", "assembly_plant_id", "assembly_plant", "SET_NULL"),
     Key("model_car_motorization", "model_car_id", "model_car", "CASCADE"),
     Key("model_car_motorization", "motorization_id", "motorization_car", "CASCADE")}

CompatibilityKeys ==
    {Key("compatibilities", "product_id", "product", "CASCADE"),
     Key("compatibilities", "assembly_plant_id", "assembly_plant", "RESTRICT"),
     Key("compatibilities", "model_id", "model_car", "RESTRICT"),
     Key("compatibilities", "year_id", "year_car", "RESTRICT"),
     Key("compatibilities", "motorization_id", "motorization_car", "RESTRICT")}

InventoryKeys ==
    {Key("inventory", "product_id", "product", "RESTRICT"),
     Key("inventory", "provider_branch_id", "provider_branch", "RESTRICT")}

CommerceKeys ==
    {Key("price_list_items", "price_list_id", "price_lists", "CASCADE"),
     Key("price_list_items", "product_id", "product", "RESTRICT")}

OrderKeys ==
    {Key("orders", "provider_branch_id", "provider_branch", "RESTRICT"),
     Key("order_items", "order_id", "orders", "CASCADE"),
     Key("order_items", "product_id", "product", "RESTRICT"),
     Key("order_payments", "order_id", "orders", "CASCADE"),
     Key("order_payments", "payment_method_id", "payment_methods", "RESTRICT")}

BillingKeys ==
    {Key("sales", "order_id", "orders", "RESTRICT"),
     Key("invoices", "order_id", "orders", "RESTRICT"),
     Key("invoices", "sale_id", "sales", "RESTRICT"),
     Key("invoice_documents", "invoice_id", "invoices", "CASCADE")}

IntegrationKeys == {Key("import_job_logs", "job_id", "import_jobs", "CASCADE")}

InitialKeys ==
    PimKeys \cup SupplierKeys \cup ProductKeys \cup VehicleKeys \cup CompatibilityKeys
      \cup InventoryKeys \cup CommerceKeys \cup OrderKeys \cup BillingKeys \cup IntegrationKeys

PimRequired ==
    Columns("category", {"id_department"}) \cup Columns("product_color", {"id_product"})
      \cup Columns("product_dimension", {"product_id"})
      \cup Columns("product_cross_references", {"product_id"})

InitialRequired ==
    PimRequired
      \cup Columns("provider_branch", {"provider_id"})
      \cup Columns("brand_provider", {"brand_id", "provider_id"})
      \cup Columns("compatibilities",
                   {"product_id", "assembly_plant_id", "model_id", "year_id", "motorization_id"})
      \cup Columns("inventory", {"product_id", "provider_branch_id"})
      \cup Columns("price_list_items", {"price_list_id", "product_id"})
      \cup Columns("order_items", {"order_id", "product_id"})
      \cup Columns("order_payments", {"order_id"})
      \cup Columns("invoice_documents", {"invoice_id"})
      \cup Columns("import_job_logs", {"job_id"})

PriceUnique == Unique("price_list_items", {"price_list_id", "product_id", "valid_from"})
InitialUniques ==
    {Unique("brand_category", {"brand_id", "category_id"}),
     Unique("brand_provider", {"brand_id", "provider_id"}),
     Unique("product_dimension", {"product_id"}),
     Unique("model_car_motorization", {"model_car_id", "motorization_id"}),
     Unique("compatibilities",
            {"product_id", "assembly_plant_id", "model_id", "year_id", "motorization_id"}),
     Unique("inventory", {"product_id", "provider_branch_id"}),
     PriceUnique}

(* The indexes on the columns that other code changes: names and columns.  *)
Index(n, t, cs) == [name |-> n, table |-> t, columns |-> cs]

InitialIndexes ==
    {Index("idx_products_image_product", "products_image", {"product_id"}),
     Index("idx_pxref_product_id", "product_cross_references", {"product_id"}),
     Index("idx_pxref_reference_id", "product_cross_references", {"reference_id"}),
     Index("idx_model_car_plant_id", "model_car", {"assembly_plant_id"}),
     Index("idx_mcm_motorization_model", "model_car_motorization",
           {"motorization_id", "model_car_id"}),
     Index("idx_compat_vehicle_lookup", "compatibilities",
           {"model_id", "year_id", "assembly_plant_id", "motorization_id", "product_id"}),
     Index("idx_compat_year_id", "compatibilities", {"year_id"}),
     Index("idx_compat_plant_id", "compatibilities", {"assembly_plant_id"}),
     Index("idx_compat_motorization_id", "compatibilities", {"motorization_id"}),
     Index("idx_inventory_product_id", "inventory", {"product_id"}),
     Index("idx_inventory_product_branch", "inventory", {"product_id", "provider_branch_id"}),
     Index("idx_inventory_stock", "inventory", {"product_id", "stock"}),
     Index("idx_inventory_provider_branch_id", "inventory", {"provider_branch_id"}),
     Index("idx_product_color_product", "product_color", {"id_product"}),
     Index("idx_price_list_items_pl", "price_list_items", {"price_list_id"}),
     Index("idx_price_list_items_prod", "price_list_items", {"product_id"}),
     Index("idx_order_items_order", "order_items", {"order_id"}),
     Index("idx_order_items_product", "order_items", {"product_id"}),
     Index("idx_order_payments_order", "order_payments", {"order_id"}),
     Index("idx_invoices_order", "invoices", {"order_id"}),
     Index("idx_invoices_sale", "invoices", {"sale_id"}),
     Index("idx_import_job_logs_job", "import_job_logs", {"job_id"})}

-------------------------------------------------------------------------------
(* The migrations after it that bring tables with references.              *)

QuoteKeys ==
    {Key("quotes", "price_list_id", "price_lists", "SET_NULL"),
     Key("quotes", "converted_order_id", "orders", "SET_NULL"),
     Key("quote_items", "quote_id", "quotes", "CASCADE"),
     Key("quote_items", "product_id", "product", "RESTRICT"),
     Key("quote_items", "price_list_item_id", "price_list_items", "SET_NULL")}
(* Two tiers of one product differ in their quantity.                      *)
TierUnique ==
    Unique("price_list_items", {"price_list_id", "product_id", "min_qty", "valid_from"})
QuoteRequired == Columns("quote_items", {"quote_id", "product_id"})

CheckoutKeys == {Key("polar_checkouts", "order_id", "orders", "RESTRICT")}

ShipmentKeys ==
    {Key("shipments", "order_id", "orders", "RESTRICT"),
     Key("shipment_tracking_events", "shipment_id", "shipments", "CASCADE")}

OutboxKeys == {Key("outbox", "notification_id", "notifications", "CASCADE")}
OutboxUnique == Unique("outbox", {"notification_id", "channel"})

CustomerKeys ==
    {Key("customer_branch", "customer_profile_id", "customer_profile", "CASCADE")}

StatusEventKeys == {Key("order_status_events", "order_id", "orders", "CASCADE")}

StatusEventRequired == Columns("order_status_events", {"order_id"})

PriceListCodeKeys ==
    {Key("customer_profile", "price_list_code", "price_lists", "RESTRICT")}

(* What they add before ForeignKeysById runs.                              *)
AddedKeys == CheckoutKeys \cup ShipmentKeys \cup QuoteKeys \cup OutboxKeys \cup CustomerKeys
AddedUniques == {TierUnique, OutboxUnique}
AddedRequired ==
    QuoteRequired \cup Columns("polar_checkouts", {"order_id"})
      \cup Columns("shipments", {"order_id"})
      \cup Columns("shipment_tracking_events", {"shipment_id"})
      \cup Columns("outbox", {"notification_id"})
      \cup Columns("customer_branch", {"customer_profile_id"})
===============================================================================
