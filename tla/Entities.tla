------------------------------- MODULE Entities -------------------------------
(***************************************************************************)
(* What the entities say of their tables.  TypeORM never synchronises the  *)
(* schema here (`synchronize` is off), so these declarations and the       *)
(* migrations are two descriptions of one thing, and a column one of them  *)
(* misses is an error of every query of the table.  The assumptions at the *)
(* end compare them.                                                       *)
(***************************************************************************)
EXTENDS Tables

(* A reference: the column, the table it refers to, whether it may be null *)
(* and the ON DELETE the entity names ("" when it names none).             *)
Relation(c, to, nullable, action) ==
    [column |-> c, to |-> to, nullable |-> nullable, onDelete |-> action]

(* An entity: the columns an insert must give, those it may, its unique    *)
(* column sets, and its references, which are in neither.                  *)
Entity(t, needs, may, uniques, relations) ==
    [table |-> t, needs |-> needs, may |-> may,
     uniques |-> {Unique(t, cs) : cs \in uniques},
     relations |-> {[table |-> t, column |-> r.column, to |-> r.to, nullable |-> r.nullable,
                     onDelete |-> r.onDelete] : r \in relations}]

(* pim                                                                     *)
ProductEntity ==
    Entity("product", {"sku"},
           {"id", "name", "description", "provider_sku",
            "classification_by_rotation", "warranty_period", "is_visible",
            "clave_prod_serv", "clave_unidad", "principal_image", "price",
            "created_at", "updated_at"}, {{"sku"}},
           {Relation("category_id", "category", TRUE, ""),
            Relation("brand_id", "brand", TRUE, "CASCADE"),
            Relation("provider_id", "provider", TRUE, ""),
            Relation("auto_part_type_id", "auto_part_catalog", TRUE, "")})
ProductColorEntity ==
    Entity("product_color", {}, {"id", "name", "code"}, {},
           {Relation("id_product", "product", FALSE, "CASCADE")})
ProductImageEntity ==
    Entity("products_image", {}, {"id", "url", "created_at"}, {},
           {Relation("product_id", "product", TRUE, "CASCADE")})
ProductDimensionEntity ==
    Entity("product_dimension", {"width"}, {"id", "length", "height", "weight"},
           {{"product_id"}},
           {Relation("product_id", "product", FALSE, "CASCADE")})
ProductCrossReferenceEntity ==
    Entity("product_cross_references", {},
           {"id", "provider_sku", "created_at", "updated_at"}, {},
           {Relation("product_id", "product", FALSE, "CASCADE"),
            Relation("product_brand_id", "brand", TRUE, "SET_NULL"),
            Relation("reference_id", "product", TRUE, "SET_NULL"),
            Relation("reference_brand_id", "brand", TRUE, "SET_NULL"),
            Relation("reference_product_id", "product", TRUE, "SET_NULL")})
CategoryDepartmentEntity ==
    Entity("category_department", {"code", "department_name"},
           {"id", "is_active", "created_at"}, {{"code"}}, {})
CategoryEntity ==
    Entity("category", {"name", "code"},
           {"id", "description", "image", "is_active", "created_at"}, {{"code"}},
           {Relation("id_department", "category_department", FALSE, "RESTRICT")})
CategoryComplementEntity ==
    Entity("category_complement", {}, {"id", "created_at"}, {},
           {Relation("category_index_id", "category", TRUE, ""),
            Relation("category_complement_id", "category", TRUE, "")})
BrandEntity ==
    Entity("brand", {"name"},
           {"id", "brand_code", "image", "is_active", "created_at"},
           {{"brand_code"}}, {})
BrandCategoryEntity ==
    Entity("brand_category", {}, {"id", "is_active"},
           {{"brand_id", "category_id"}},
           {Relation("brand_id", "brand", TRUE, "CASCADE"),
            Relation("category_id", "category", TRUE, "CASCADE")})
VolumeCategoryEntity ==
    Entity("volume_category", {"code"},
           {"id", "description", "weight", "height", "width", "length",
            "created_at"}, {{"code"}}, {})
AutoPartCatalogEntity ==
    Entity("auto_part_catalog", {"name"},
           {"id", "code", "is_activate", "created_at"}, {{"code"}},
           {Relation("volume_category_id", "volume_category", TRUE, ""),
            Relation("category_id", "category", TRUE, "")})

(* suppliers                                                               *)
ProviderEntity ==
    Entity("provider", {},
           {"id", "name", "direction", "city", "state", "postal_code",
            "representative", "phone", "email", "inventory_reading", "warranty",
            "code_identity"}, {{"code_identity"}}, {})
ProviderBranchEntity ==
    Entity("provider_branch",
           {"branch_name", "phone", "address", "city", "postal_code"},
           {"id", "contact_person", "email", "is_main_branch", "is_active",
            "notes", "created_at", "updated_at"}, {},
           {Relation("provider_id", "provider", FALSE, "")})
BrandProviderEntity ==
    Entity("brand_provider", {}, {"id", "created_at"},
           {{"brand_id", "provider_id"}},
           {Relation("brand_id", "brand", FALSE, "CASCADE"),
            Relation("provider_id", "provider", FALSE, "CASCADE")})

(* vehicles and compatibility                                              *)
AssemblyPlantEntity ==
    Entity("assembly_plant", {}, {"id", "code", "assembly_plant"}, {{"code"}}, {})
ModelCarEntity ==
    Entity("model_car", {}, {"id", "code_model", "model_car", "created_at"},
           {{"code_model"}},
           {Relation("assembly_plant_id", "assembly_plant", TRUE, "")})
YearCarEntity ==
    Entity("year_car", {}, {"id", "code", "year", "created_at"}, {{"code"}}, {})
MotorizationCarEntity ==
    Entity("motorization_car", {}, {"id", "code", "motorization", "created_at"},
           {{"code"}}, {})
ModelCarMotorizationEntity ==
    Entity("model_car_motorization", {}, {"id"},
           {{"model_car_id", "motorization_id"}},
           {Relation("model_car_id", "model_car", TRUE, "CASCADE"),
            Relation("motorization_id", "motorization_car", TRUE, "CASCADE")})
CompatibilityEntity ==
    Entity("compatibilities", {}, {"id", "created_at"},
           {{"product_id", "assembly_plant_id", "model_id", "year_id", "motorization_id"}},
           {Relation("product_id", "product", FALSE, "CASCADE"),
            Relation("assembly_plant_id", "assembly_plant", FALSE, "RESTRICT"),
            Relation("model_id", "model_car", FALSE, "RESTRICT"),
            Relation("year_id", "year_car", FALSE, "RESTRICT"),
            Relation("motorization_id", "motorization_car", FALSE, "RESTRICT")})

(* inventory and commerce                                                  *)
InventoryEntity ==
    Entity("inventory", {}, {"id", "stock", "reserved_stock", "updated_at"},
           {{"product_id", "provider_branch_id"}},
           {Relation("product_id", "product", FALSE, "RESTRICT"),
            Relation("provider_branch_id", "provider_branch", FALSE, "")})
PriceListEntity ==
    Entity("price_lists", {"code", "name"},
           {"id", "customer_type", "currency", "is_default", "created_at",
            "updated_at"}, {{"code"}}, {})
PriceListItemEntity ==
    Entity("price_list_items", {"price"},
           {"id", "min_qty", "valid_from", "valid_to", "created_at",
            "updated_at"},
           {{"price_list_id", "product_id", "min_qty", "valid_from"}},
           {Relation("price_list_id", "price_lists", FALSE, "CASCADE"),
            Relation("product_id", "product", FALSE, "")})
PaymentMethodEntity ==
    Entity("payment_methods", {"code", "name"},
           {"id", "provider", "is_active", "created_at"}, {{"code"}}, {})

(* orders, payments, shipping                                              *)
OrderEntity ==
    Entity("orders", {"order_number", "customer_id", "status"},
           {"id", "sales_rep_id", "payment_status", "shipping_status",
            "subtotal", "discount_total", "shipping_total", "tax_total",
            "grand_total", "ship_to_name", "ship_to_company", "ship_to_street1",
            "ship_to_postal_code", "ship_to_area_level1", "ship_to_area_level2",
            "ship_to_area_level3", "ship_to_country_code", "ship_to_phone",
            "ship_to_email", "parcel_weight", "parcel_length", "parcel_width",
            "parcel_height", "shipping_quotation_id", "shipping_rate_id",
            "shipping_carrier_name", "shipping_service_level",
            "shipping_quoted_at", "shipping_rates_json", "placed_at",
            "created_at", "updated_at"}, {{"order_number"}},
           {Relation("provider_branch_id", "provider_branch", TRUE, "")})
OrderItemEntity ==
    Entity("order_items",
           {"sku_snapshot", "name_snapshot", "qty", "unit_price_snapshot",
            "line_total"}, {"id", "tax_snapshot", "created_at"}, {},
           {Relation("order_id", "orders", FALSE, "CASCADE"),
            Relation("product_id", "product", FALSE, "")})
OrderPaymentEntity ==
    Entity("order_payments", {"amount", "status"},
           {"id", "provider", "transaction_ref", "paid_at", "created_at"}, {},
           {Relation("order_id", "orders", FALSE, "CASCADE"),
            Relation("payment_method_id", "payment_methods", TRUE, "")})
OrderStatusEventEntity ==
    Entity("order_status_events", {"to_status"},
           {"id", "from_status", "actor_id", "actor_email", "occurred_at"}, {},
           {Relation("order_id", "orders", FALSE, "CASCADE")})
PolarCheckoutEntity ==
    Entity("polar_checkouts",
           {"polar_checkout_id", "status", "checkout_url", "amount"},
           {"id", "polar_order_id", "currency", "created_at", "updated_at"},
           {{"polar_checkout_id"}},
           {Relation("order_id", "orders", FALSE, "")})
WebhookEventEntity ==
    Entity("webhook_events", {"polar_event_id", "event_type", "payload_json"},
           {"id", "processed_at", "created_at"}, {{"polar_event_id"}}, {})
ShipmentEntity ==
    Entity("shipments", {"skydropx_shipment_id", "status"},
           {"id", "quotation_id", "rate_id", "carrier_name", "service_level",
            "tracking_number", "tracking_url", "label_url", "amount",
            "currency", "created_at", "updated_at"}, {{"skydropx_shipment_id"}},
           {Relation("order_id", "orders", FALSE, "")})
ShipmentTrackingEventEntity ==
    Entity("shipment_tracking_events", {"status"},
           {"id", "description", "occurred_at", "raw_json", "created_at"}, {},
           {Relation("shipment_id", "shipments", FALSE, "")})
ShippingWebhookEventEntity ==
    Entity("shipping_webhook_events",
           {"skydropx_event_id", "event_type", "payload_json"},
           {"id", "processed_at", "created_at"}, {{"skydropx_event_id"}}, {})

(* quotes and customers                                                    *)
(* converted_order_id and price_list_code are columns without a relation.  *)
QuoteEntity ==
    Entity("quotes", {"quote_number", "status", "valid_until"},
           {"id", "customer_id", "customer_profile_id", "sales_rep_id",
            "currency", "subtotal", "tax_total", "grand_total", "notes",
            "created_at", "updated_at"}, {{"quote_number"}},
           {Relation("price_list_id", "price_lists", TRUE, "SET_NULL"),
            Relation("converted_order_id", "orders", TRUE, "")})
QuoteItemEntity ==
    Entity("quote_items",
           {"sku_snapshot", "name_snapshot", "qty", "unit_price_snapshot",
            "line_total"},
           {"id", "list_price_snapshot", "discount_pct", "tax_snapshot",
            "created_at"}, {},
           {Relation("quote_id", "quotes", FALSE, "CASCADE"),
            Relation("product_id", "product", FALSE, ""),
            Relation("price_list_item_id", "price_list_items", TRUE, "SET_NULL")})
CustomerProfileEntity ==
    Entity("customer_profile", {"display_name"},
           {"id", "auth_customer_id", "owner_sales_rep_id", "legal_name", "rfc",
            "tax_regime", "uso_cfdi_default", "fiscal_postal_code",
            "customer_type", "email", "phone", "notes", "is_active",
            "created_at", "updated_at"}, {},
           {Relation("price_list_code", "price_lists", TRUE, "")})
CustomerBranchEntity ==
    Entity("customer_branch", {},
           {"id", "branch_name", "contact_person", "phone", "email",
            "recipient_name", "company", "street1", "postal_code",
            "area_level1", "area_level2", "area_level3", "country_code",
            "is_main_branch", "is_active", "notes", "created_at", "updated_at"},
           {},
           {Relation("customer_profile_id", "customer_profile", FALSE, "CASCADE")})

(* sales, billing, notifications, integrations                             *)
SaleEntity ==
    Entity("sales", {"sale_number", "source_type", "customer_id"},
           {"id", "employee_id", "subtotal", "discount_total", "tax_total",
            "grand_total", "payment_status", "sale_status", "sold_at",
            "created_at", "updated_at"}, {{"sale_number"}},
           {Relation("order_id", "orders", TRUE, "")})
InvoiceEntity ==
    Entity("invoices", {"invoice_number", "customer_id"},
           {"id", "rfc", "legal_name", "subtotal", "tax_total", "grand_total",
            "currency", "cfdi_version", "tipo_comprobante", "serie", "folio",
            "uuid_fiscal", "fecha_timbrado", "sello_cfd", "sello_sat",
            "no_certificado_emisor", "no_certificado_sat",
            "cadena_original_sat", "forma_pago", "metodo_pago", "uso_cfdi",
            "regimen_fiscal_emisor", "regimen_fiscal_receptor",
            "domicilio_fiscal_receptor", "cancel_status", "cancel_motivo",
            "uuid_sustitucion", "cancelled_at", "sat_status", "issue_date",
            "created_at", "updated_at"}, {{"invoice_number"}},
           {Relation("order_id", "orders", TRUE, ""),
            Relation("sale_id", "sales", TRUE, "")})
InvoiceDocumentEntity ==
    Entity("invoice_documents", {"document_type", "file_url"},
           {"id", "checksum", "created_at"}, {},
           {Relation("invoice_id", "invoices", FALSE, "CASCADE")})
NotificationEntity ==
    Entity("notifications",
           {"recipient_user_id", "category", "event_key", "title",
            "entity_type", "entity_id", "dedupe_key"},
           {"id", "body", "link", "read_at", "created_at"}, {{"dedupe_key"}}, {})
NotificationOutboxEntity ==
    Entity("outbox", {"channel", "status", "next_attempt_at"},
           {"id", "destination", "attempts", "last_error", "sent_at",
            "created_at", "updated_at"}, {{"notification_id", "channel"}},
           {Relation("notification_id", "notifications", FALSE, "CASCADE")})
ApiClientEntity ==
    Entity("api_clients", {"name", "api_key"},
           {"id", "is_active", "created_at", "updated_at"}, {{"api_key"}}, {})
ImportJobEntity ==
    Entity("import_jobs", {"job_type", "status"},
           {"id", "source_system", "started_at", "finished_at",
            "records_received", "records_processed", "records_failed",
            "created_at"}, {}, {})
ImportJobLogEntity ==
    Entity("import_job_logs", {"message"},
           {"id", "level", "payload_json", "created_at"}, {},
           {Relation("job_id", "import_jobs", FALSE, "CASCADE")})

Entities ==
    {ProductEntity, ProductColorEntity, ProductImageEntity,
     ProductDimensionEntity, ProductCrossReferenceEntity,
     CategoryDepartmentEntity, CategoryEntity, CategoryComplementEntity,
     BrandEntity, BrandCategoryEntity, VolumeCategoryEntity,
     AutoPartCatalogEntity, ProviderEntity, ProviderBranchEntity,
     BrandProviderEntity, AssemblyPlantEntity, ModelCarEntity, YearCarEntity,
     MotorizationCarEntity, ModelCarMotorizationEntity, CompatibilityEntity,
     InventoryEntity, PriceListEntity, PriceListItemEntity, PaymentMethodEntity,
     OrderEntity, OrderItemEntity, OrderPaymentEntity, OrderStatusEventEntity,
     PolarCheckoutEntity, WebhookEventEntity, ShipmentEntity,
     ShipmentTrackingEventEntity, ShippingWebhookEventEntity, QuoteEntity,
     QuoteItemEntity, CustomerProfileEntity, CustomerBranchEntity, SaleEntity,
     InvoiceEntity, InvoiceDocumentEntity, NotificationEntity,
     NotificationOutboxEntity, ApiClientEntity, ImportJobEntity,
     ImportJobLogEntity}

Relations == UNION {e.relations : e \in Entities}

-------------------------------------------------------------------------------
(* The tables as the migrations leave a fresh database, and the columns an *)
(* entity has next to its references.                                      *)
Brief(k) == [table |-> k.table, column |-> k.column, to |-> k.to]
FreshKeys == InitialKeys \cup AddedKeys \cup StatusEventKeys \cup PriceListCodeKeys
FreshRequired == InitialRequired \cup AddedRequired \cup StatusEventRequired
FreshUniques ==
    {u \in InitialUniques : u # PriceUnique} \cup AddedUniques
      \cup UNION {{Unique(m.table, {c}) : c \in m.unique} : m \in AllTables}

(* The columns the database fills where the entity says they must be given:*)
(* the code always gives next_attempt_at.                                  *)
Defaulted == {<<"outbox", "next_attempt_at">>}

(* Every column of an entity is in its table and every column of a table   *)
(* in its entity; an insert must give what the table demands.              *)
ASSUME SameColumns ==
    /\ {e.table : e \in Entities} = {m.table : m \in AllTables}
    /\ \A e \in Entities :
         LET M == {m \in AllTables : m.table = e.table}
             needs == UNION {m.needs : m \in M} \ Released(e.table)
         IN  /\ e.needs \cup e.may = UNION {m.needs \cup m.may : m \in M}
             /\ e.needs = needs \cup {c \in e.needs : <<e.table, c>> \in Defaulted}

(* Every reference of an entity has its foreign key and every foreign key  *)
(* its reference; where an entity names an ON DELETE it is the schema's;   *)
(* a reference may be null in the entity exactly when it may be in the     *)
(* table; and the unique sets are the same.                                *)
ASSUME SameReferences == {Brief(r) : r \in Relations} = {Brief(k) : k \in FreshKeys}
ASSUME SameOnDelete ==
    \A r \in Relations : r.onDelete # "" =>
      Key(r.table, r.column, r.to, r.onDelete) \in FreshKeys
ASSUME SameNullable ==
    FreshRequired = {[table |-> r.table, column |-> r.column] :
                        r \in {x \in Relations : ~x.nullable}}
ASSUME SameUniques == UNION {e.uniques : e \in Entities} = FreshUniques
===============================================================================
