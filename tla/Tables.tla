-------------------------------- MODULE Tables --------------------------------
(***************************************************************************)
(* The columns of the tables, as the migrations create them and add to     *)
(* them, next to the references of module Schema.  The webhook_events of   *)
(* the shipping schema is shipping_webhook_events here, the payments one   *)
(* keeps its name.                                                         *)
(***************************************************************************)
EXTENDS Schema

(* A CREATE TABLE or an ADD COLUMN: the columns an insert must give (NOT   *)
(* NULL, no default), those it may, and the columns that are UNIQUE alone. *)
Made(t, needs, may, unique) ==
    [table |-> t, needs |-> needs, may |-> may, unique |-> unique]

(* InitialSchema                                                           *)
TaxonomyTables ==
    {Made("category_department", {"code", "department_name"},
          {"id", "is_active", "created_at"}, {"code"}),
     Made("category", {"name", "code"},
          {"id", "description", "image", "is_active", "created_at"}, {"code"}),
     Made("brand", {"name"},
          {"id", "brand_code", "image", "is_active", "created_at"},
          {"brand_code"}),
     Made("brand_category", {}, {"id", "is_active"}, {}),
     Made("category_complement", {}, {"id", "created_at"}, {}),
     Made("volume_category", {"code"},
          {"id", "description", "weight", "height", "width", "length",
           "created_at"}, {"code"}),
     Made("auto_part_catalog", {"name"},
          {"id", "code", "is_activate", "created_at"}, {"code"})}
SupplierTables ==
    {Made("provider", {},
          {"id", "name", "direction", "city", "state", "postal_code",
           "representative", "phone", "email", "inventory_reading", "warranty",
           "code_identity"}, {"code_identity"}),
     Made("provider_branch",
          {"branch_name", "phone", "address", "city", "postal_code"},
          {"id", "contact_person", "email", "is_main_branch", "is_active",
           "notes", "created_at", "updated_at"}, {}),
     Made("brand_provider", {}, {"id", "created_at"}, {})}
ProductTables ==
    {Made("product", {"sku"},
          {"id", "name", "description", "provider_sku",
           "classification_by_rotation", "warranty_period", "is_visible",
           "principal_image", "price", "created_at", "updated_at"}, {"sku"}),
     Made("product_color", {}, {"id", "name", "code"}, {}),
     Made("product_dimension", {"width"}, {"id", "length", "height", "weight"},
          {}),
     Made("products_image", {}, {"id", "url", "created_at"}, {}),
     Made("product_cross_references", {},
          {"id", "provider_sku", "created_at", "updated_at"}, {})}
VehicleTables ==
    {Made("assembly_plant", {}, {"id", "code", "assembly_plant"}, {"code"}),
     Made("model_car", {}, {"id", "code_model", "model_car", "created_at"},
          {"code_model"}),
     Made("year_car", {}, {"id", "code", "year", "created_at"}, {"code"}),
     Made("motorization_car", {}, {"id", "code", "motorization", "created_at"},
          {"code"}),
     Made("model_car_motorization", {}, {"id"}, {}),
     Made("compatibilities", {}, {"id", "created_at"}, {})}
CommerceTables ==
    {Made("inventory", {}, {"id", "stock", "reserved_stock", "updated_at"}, {}),
     Made("price_lists", {"code", "name"},
          {"id", "customer_type", "currency", "is_default", "created_at",
           "updated_at"}, {"code"}),
     Made("price_list_items", {"price"},
          {"id", "min_qty", "valid_from", "valid_to", "created_at", "updated_at"},
          {}),
     Made("payment_methods", {"code", "name"},
          {"id", "provider", "is_active", "created_at"}, {"code"})}
OrderTables ==
    {Made("orders", {"order_number", "customer_id", "status"},
          {"id", "sales_rep_id", "payment_status", "shipping_status",
           "subtotal", "discount_total", "shipping_total", "tax_total",
           "grand_total", "placed_at", "created_at", "updated_at"},
          {"order_number"}),
     Made("order_items",
          {"sku_snapshot", "name_snapshot", "qty", "unit_price_snapshot",
           "line_total"}, {"id", "tax_snapshot", "created_at"}, {}),
     Made("order_payments", {"amount", "status"},
          {"id", "provider", "transaction_ref", "paid_at", "created_at"}, {})}
BillingTables ==
    {Made("sales", {"sale_number", "source_type", "customer_id"},
          {"id", "employee_id", "subtotal", "discount_total", "tax_total",
           "grand_total", "payment_status", "sale_status", "sold_at",
           "created_at", "updated_at"}, {"sale_number"}),
     Made("invoices", {"invoice_number", "customer_id"},
          {"id", "rfc", "legal_name", "subtotal", "tax_total", "grand_total",
           "currency", "sat_status", "issue_date", "created_at", "updated_at"},
          {"invoice_number"}),
     Made("invoice_documents", {"document_type", "file_url"},
          {"id", "checksum", "created_at"}, {})}
IntegrationTables ==
    {Made("api_clients", {"name", "api_key"},
          {"id", "is_active", "created_at", "updated_at"}, {"api_key"}),
     Made("import_jobs", {"job_type", "status"},
          {"id", "source_system", "started_at", "finished_at",
           "records_received", "records_processed", "records_failed",
           "created_at"}, {}),
     Made("import_job_logs", {"message"},
          {"id", "level", "payload_json", "created_at"}, {})}

(* The migrations after it.                                                *)
CheckoutTables ==
    {Made("polar_checkouts",
          {"polar_checkout_id", "status", "checkout_url", "amount"},
          {"id", "polar_order_id", "currency", "created_at", "updated_at"},
          {"polar_checkout_id"}),
     Made("webhook_events", {"polar_event_id", "event_type", "payload_json"},
          {"id", "processed_at", "created_at"}, {"polar_event_id"})}
ShipToColumns ==
    {Made("orders", {},
          {"ship_to_name", "ship_to_company", "ship_to_street1",
           "ship_to_postal_code", "ship_to_area_level1", "ship_to_area_level2",
           "ship_to_area_level3", "ship_to_country_code", "ship_to_phone",
           "ship_to_email", "parcel_weight", "parcel_length", "parcel_width",
           "parcel_height"}, {})}
ShipmentTables ==
    {Made("shipments", {"skydropx_shipment_id", "status"},
          {"id", "quotation_id", "rate_id", "carrier_name", "service_level",
           "tracking_number", "tracking_url", "label_url", "amount", "currency",
           "created_at", "updated_at"}, {"skydropx_shipment_id"}),
     Made("shipment_tracking_events", {"status"},
          {"id", "description", "occurred_at", "raw_json", "created_at"}, {}),
     Made("shipping_webhook_events",
          {"skydropx_event_id", "event_type", "payload_json"},
          {"id", "processed_at", "created_at"}, {"skydropx_event_id"})}
QuoteTables ==
    {Made("quotes", {"quote_number", "customer_id", "status", "valid_until"},
          {"id", "sales_rep_id", "currency", "subtotal", "tax_total",
           "grand_total", "notes", "created_at", "updated_at"}, {"quote_number"}),
     Made("quote_items",
          {"sku_snapshot", "name_snapshot", "qty", "unit_price_snapshot",
           "line_total"}, {"id", "tax_snapshot", "created_at"}, {})}
NotificationTables ==
    {Made("notifications",
          {"recipient_user_id", "category", "event_key", "title", "entity_type",
           "entity_id", "dedupe_key"},
          {"id", "body", "link", "read_at", "created_at"}, {"dedupe_key"}),
     Made("outbox", {"channel", "status"},
          {"id", "destination", "attempts", "last_error", "next_attempt_at",
           "sent_at", "created_at", "updated_at"}, {})}
CustomerTables ==
    {Made("customer_profile", {"display_name"},
          {"id", "auth_customer_id", "owner_sales_rep_id", "legal_name", "rfc",
           "customer_type", "email", "phone", "notes", "is_active",
           "created_at", "updated_at"}, {}),
     Made("customer_branch", {},
          {"id", "branch_name", "contact_person", "phone", "email",
           "recipient_name", "company", "street1", "postal_code", "area_level1",
           "area_level2", "area_level3", "country_code", "is_main_branch",
           "is_active", "notes", "created_at", "updated_at"}, {})}
StatusEventTable ==
    {Made("order_status_events", {"to_status"},
          {"id", "from_status", "actor_id", "actor_email", "occurred_at"}, {})}
QuoteProfileColumn ==
    {Made("quotes", {}, {"customer_profile_id"}, {})}
DiscountColumns ==
    {Made("quote_items", {}, {"list_price_snapshot", "discount_pct"}, {})}
ShippingQuoteColumns ==
    {Made("orders", {},
          {"shipping_quotation_id", "shipping_rate_id", "shipping_carrier_name",
           "shipping_service_level", "shipping_quoted_at",
           "shipping_rates_json"}, {})}
CfdiColumns ==
    {Made("invoices", {},
          {"cfdi_version", "tipo_comprobante", "serie", "folio", "uuid_fiscal",
           "fecha_timbrado", "sello_cfd", "sello_sat", "no_certificado_emisor",
           "no_certificado_sat", "cadena_original_sat", "forma_pago",
           "metodo_pago", "uso_cfdi", "regimen_fiscal_emisor",
           "regimen_fiscal_receptor", "domicilio_fiscal_receptor",
           "cancel_status", "cancel_motivo", "uuid_sustitucion", "cancelled_at"},
          {}),
     Made("customer_profile", {},
          {"tax_regime", "uso_cfdi_default", "fiscal_postal_code"}, {}),
     Made("product", {}, {"clave_prod_serv", "clave_unidad"}, {})}

(* AddQuoteCustomerProfile lets a quote have no account.                   *)
Released(t) == IF t = "quotes" THEN {"customer_id"} ELSE {}

AllTables ==
    UNION {TaxonomyTables, SupplierTables, ProductTables, VehicleTables, CommerceTables,
           OrderTables, BillingTables, IntegrationTables, CheckoutTables, ShipToColumns,
           ShipmentTables, QuoteTables, NotificationTables, CustomerTables,
           StatusEventTable, QuoteProfileColumn, DiscountColumns, ShippingQuoteColumns,
           CfdiColumns}
===============================================================================
