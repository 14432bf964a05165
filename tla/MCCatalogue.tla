------------------------------ MODULE MCCatalogue ------------------------------
EXTENDS Catalogue, Storefront

One(T) == [t \in T |-> 1]
With(t, f) == [f EXCEPT ![t] = 2]

(* The neighbourhoods: tables that refer to each other, with two rows where*)
(* a table compares or counts the rows of another.                         *)
MCNeighbourhoods ==
    {With("category", One({"category_department", "category", "category_complement"})),
     With("brand_category", One({"brand", "category", "brand_category"})),
     One({"volume_category", "category", "auto_part_catalog", "product"}),
     One({"brand", "provider", "product", "brand_provider", "product_color"}),
     With("product_dimension", One({"brand", "product", "product_dimension", "products_image"})),
     With("product", One({"brand", "product", "product_cross_references"})),
     One({"brand", "product", "provider", "provider_branch", "inventory", "orders",
          "order_items"}),
     One({"payment_methods", "orders", "order_payments", "sales"}),
     One({"brand", "product", "price_lists", "price_list_items", "quotes", "quote_items"}),
     One({"price_lists", "customer_profile", "customer_branch", "quotes", "orders"}),
     One({"assembly_plant", "model_car", "motorization_car", "model_car_motorization"}),
     One({"product", "assembly_plant", "model_car", "motorization_car", "year_car",
          "compatibilities"}),
     One({"orders", "sales", "invoices", "invoice_documents"}),
     One({"import_jobs", "import_job_logs"})}
===============================================================================
