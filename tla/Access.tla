-------------------------------- MODULE Access --------------------------------
(***************************************************************************)
(* Who may call what: the routes of the controllers with the roles they    *)
(* name, the permissions a macro role stands for, and the two guards every *)
(* request passes.  The assumptions compare the two tables.                *)
(***************************************************************************)
EXTENDS Naturals, FiniteSets

(* A handler writes when it changes rows, whatever its verb: GET tracking  *)
(* saves what the carrier says, POST price-preview saves nothing.          *)
Route(c, h, kind, roles, public) ==
    [controller |-> c, handler |-> h, kind |-> kind, roles |-> roles, public |-> public]
Reads(c, H, roles) == {Route(c, h, "read", roles, FALSE) : h \in H}
Writes(c, H, roles) == {Route(c, h, "write", roles, FALSE) : h \in H}
Public(c, H) == {Route(c, h, "write", {}, TRUE) : h \in H}

HealthController == {Route("Health", "check", "read", {}, TRUE)}
InvoiceController ==
    Reads("Invoice", {"list", "findById", "listDocuments"}, {})
      \cup Writes("Invoice", {"create", "update", "remove", "stamp", "cancel",
                              "addDocument", "removeDocument"}, {"billing:write"})
PaymentMethodController ==
    Reads("PaymentMethod", {"list", "findById"}, {})
      \cup Writes("PaymentMethod", {"create", "update", "remove"},
                                   {"commerce:write"})
PriceListController ==
    Reads("PriceList", {"list", "findById", "listItems"}, {})
      \cup Writes("PriceList", {"create", "update", "remove", "createItem",
                                "updateItem", "removeItem"}, {"commerce:write"})
CompatibilityController ==
    Reads("Compatibility", {"list", "findById"}, {})
      \cup Writes("Compatibility", {"create", "remove"}, {"compatibility:write"})
CustomerController ==
    Reads("Customer", {"list", "listBranches", "findById"}, {"customers:read"})
      \cup Writes("Customer", {"create", "link", "createBranch", "updateBranch",
                               "removeBranch", "update"}, {"customers:write"})
      \cup Reads("Customer", {"listMyBranches"}, {})
      \cup Writes("Customer", {"createMyBranch", "updateMyBranch", "removeMyBranch"},
                              {})
      \cup Writes("Customer", {"reassignOwner"}, {"customers:admin"})
ApiClientController ==
    Reads("ApiClient", {"list", "findById"}, {})
      \cup Writes("ApiClient", {"create", "update", "remove"},
                               {"integrations:write"})
ImportJobController ==
    Reads("ImportJob", {"list", "findById", "listLogs"}, {})
      \cup Writes("ImportJob", {"create", "update", "remove", "addLog"},
                               {"integrations:write"})
InventoryController ==
    Reads("Inventory", {"list", "summary", "findById"}, {"inventory:read"})
      \cup Writes("Inventory", {"create", "reserve", "release", "adjust"},
                               {"inventory:write"})
NotificationController ==
    Reads("Notification", {"list", "unreadCount"}, {})
      \cup Writes("Notification", {"markAllRead", "markRead"}, {})
OrderController ==
    Reads("Order", {"list", "findById", "statusEvents"}, {})
      \cup Writes("Order", {"create"}, {"orders:create", "orders:write"})
      \cup Reads("Order", {"preview"}, {"orders:create", "orders:write"})
      \cup Writes("Order", {"update", "confirm", "prepare", "cancel", "addPayment"},
                           {"orders:write"})
OrderPolarCheckoutController ==
    Writes("OrderPolarCheckout", {"create"}, {"payments:write"})
      \cup Reads("OrderPolarCheckout", {"latest"}, {})
PolarCheckoutController ==
    Reads("PolarCheckout", {"findById"}, {})
PolarWebhookController ==
    Public("PolarWebhook", {"handle"})
AutoPartController ==
    Reads("AutoPart", {"list", "findById"}, {})
      \cup Writes("AutoPart", {"create", "update", "remove"}, {"pim:write"})
BrandCategoryController ==
    Reads("BrandCategory", {"list"}, {})
      \cup Writes("BrandCategory", {"create", "remove"}, {"pim:write"})
BrandController ==
    Reads("Brand", {"list", "findById", "findByCode"}, {})
      \cup Writes("Brand", {"create", "update", "remove"}, {"pim:write"})
CategoryComplementController ==
    Reads("CategoryComplement", {"list"}, {})
      \cup Writes("CategoryComplement", {"create", "remove"}, {"pim:write"})
CategoryDepartmentController ==
    Reads("CategoryDepartment", {"list", "findById"}, {})
      \cup Writes("CategoryDepartment", {"create", "update", "remove"},
                                        {"pim:write"})
CategoryController ==
    Reads("Category", {"list", "findById"}, {})
      \cup Writes("Category", {"create", "update", "remove"}, {"pim:write"})
ProductController ==
    Reads("Product", {"search", "findByVehicle", "facets", "findById", "findBySku",
                      "listColors", "listImages", "getDimensions", "listCrossRefs"},
                     {})
      \cup Writes("Product", {"create", "update", "remove", "createColor",
                              "removeColor", "addImage", "removeImage",
                              "upsertDimensions", "createCrossRef",
                              "removeCrossRef"}, {"pim:write"})
VolumeCategoryController ==
    Reads("VolumeCategory", {"list", "findById"}, {})
      \cup Writes("VolumeCategory", {"create", "update", "remove"}, {"pim:write"})
QuoteController ==
    Reads("Quote", {"list", "findById"}, {"quotes:read"})
      \cup Reads("Quote", {"listMine", "findMineById"}, {})
      \cup Writes("Quote", {"create", "send", "approve", "reject", "convert",
                            "update", "remove"}, {"quotes:write"})
SaleController ==
    Reads("Sale", {"list", "findById"}, {})
      \cup Writes("Sale", {"create", "update", "remove"}, {"sales:write"})
ShippingWebhookController ==
    Public("ShippingWebhook", {"handle"})
ShippingController ==
    Writes("Shipping", {"quote", "selectRate", "tracking"}, {"shipping:read"})
      \cup Writes("Shipping", {"createShipment", "cancel"}, {"shipping:write"})
      \cup Reads("Shipping", {"byOrder"}, {"shipping:read"})
StockSyncController ==
    Writes("StockSync", {"run"}, {"inventory:write"})
StorageController ==
    Reads("Storage", {"requestUpload"}, {})
BrandProviderController ==
    Reads("BrandProvider", {"listByBrand", "listByProvider"}, {})
      \cup Writes("BrandProvider", {"create", "remove"}, {"suppliers:write"})
ProviderController ==
    Reads("Provider", {"list", "findById", "listBranches"}, {})
      \cup Writes("Provider", {"create", "update", "remove", "createBranch",
                               "updateBranch", "removeBranch"}, {"suppliers:write"})
AssemblyPlantController ==
    Reads("AssemblyPlant", {"list", "findByCode", "findById"}, {})
      \cup Writes("AssemblyPlant", {"create", "update", "remove"},
                                   {"vehicles:write"})
ModelCarMotorizationController ==
    Reads("ModelCarMotorization", {"list"}, {})
      \cup Writes("ModelCarMotorization", {"create", "remove"}, {"vehicles:write"})
ModelCarController ==
    Reads("ModelCar", {"list", "findByCode", "findById"}, {})
      \cup Writes("ModelCar", {"create", "update", "remove"}, {"vehicles:write"})
MotorizationCarController ==
    Reads("MotorizationCar", {"list", "findByCode", "findById"}, {})
      \cup Writes("MotorizationCar", {"create", "update", "remove"},
                                     {"vehicles:write"})
YearCarController ==
    Reads("YearCar", {"list", "findByCode", "findById"}, {})
      \cup Writes("YearCar", {"create", "update", "remove"}, {"vehicles:write"})

Routes ==
    UNION {HealthController,
           InvoiceController, PaymentMethodController, PriceListController,
           CompatibilityController, CustomerController, ApiClientController,
           ImportJobController, InventoryController, NotificationController,
           OrderController, OrderPolarCheckoutController, PolarCheckoutController,
           PolarWebhookController, AutoPartController, BrandCategoryController,
           BrandController, CategoryComplementController,
           CategoryDepartmentController, CategoryController, ProductController,
           VolumeCategoryController, QuoteController, SaleController,
           ShippingWebhookController, ShippingController, StockSyncController,
           StorageController, BrandProviderController, ProviderController,
           AssemblyPlantController, ModelCarMotorizationController,
           ModelCarController, MotorizationCarController, YearCarController}

-------------------------------------------------------------------------------
(* The permissions of the macro roles; any other role stands for itself.   *)
AdminPermissions ==
    {"billing:write", "customers:read", "customers:write", "customers:admin",
     "commerce:write", "vehicles:write", "sales:write", "compatibility:write",
     "integrations:write", "payments:write", "inventory:read", "inventory:write",
     "quotes:read", "quotes:write", "quotes:admin", "orders:write", "orders:admin",
     "suppliers:write", "pim:write", "notifications:read", "shipping:write",
     "shipping:read", "billing:admin", "orders:create"}
CustomerPermissions == {"orders:create", "shipping:read", "payments:write"}
SalesRepPermissions == {"customers:read", "customers:write", "quotes:read", "quotes:write"}
RolePermissions(role) ==
    CASE role = "admin" -> AdminPermissions
      [] role = "customer" -> CustomerPermissions
      [] role = "sales_rep" -> SalesRepPermissions
      [] OTHER -> {}

expand(roles) == roles \cup UNION {RolePermissions(r) : r \in roles}

(* A token's claims, or the headers of mock mode: nobody is NoOne.         *)
NoOne == "no one"
AuthenticatedUser(id, roles, salesRepId, employeeId, profileComplete) ==
    [id |-> id, roles |-> roles, salesRepId |-> salesRepId, employeeId |-> employeeId,
     profileComplete |-> profileComplete]

(* JwtAuthGuard and then RolesGuard: whether a caller, or a request that   *)
(* carries none, gets through to a route.                                  *)
Authenticated(route, signedIn) == route.public \/ signedIn
Permitted(route, signedIn, roles) ==
    route.roles = {} \/ (signedIn /\ route.roles \cap expand(roles) # {})
MayCall(route, signedIn, roles) ==
    Authenticated(route, signedIn) /\ Permitted(route, signedIn, roles)

(* A presigned upload: the permission its purpose needs, the types it may  *)
(* have and its ceiling in megabytes.  One signature is for one object.    *)
MB == 1024 * 1024
PurposeRules ==
    [purpose \in {"product-image", "invoice-document"} |->
       IF purpose = "product-image"
       THEN [contentTypes |-> {"image/jpeg", "image/png", "image/webp"},
             maxBytes |-> 10 * MB, prefix |-> "products", permission |-> "pim:write"]
       ELSE [contentTypes |-> {"application/pdf", "application/xml", "text/xml"},
             maxBytes |-> 20 * MB, prefix |-> "invoices", permission |-> "billing:write"]]

checkUpload(purpose, type, size) ==
    IF purpose \notin DOMAIN PurposeRules THEN "unknown-purpose"
    ELSE IF type \notin PurposeRules[purpose].contentTypes THEN "content-type"
    ELSE IF size <= 0 \/ size > PurposeRules[purpose].maxBytes THEN "too-large"
    ELSE "ok"
requestUpload(purpose, type, size, roles) ==
    checkUpload(purpose, type, size) = "ok"
      /\ PurposeRules[purpose].permission \in expand(roles)
buildObjectKey(purpose, id) == <<PurposeRules[purpose].prefix, id>>

-------------------------------------------------------------------------------
MacroRoles == {"admin", "customer", "sales_rep"}
Visibility == {"quotes:admin", "orders:admin", "billing:admin"}
WritesOf(roles) == {r \in Routes : r.kind = "write" /\ ~r.public /\ MayCall(r, TRUE, roles)}
On(c, H) == {r \in Routes : r.controller = c /\ r.handler \in H}

(* An admin reaches every route, and every permission an admin is given    *)
(* opens one, is read by a visibility rule, or is notifications:read,      *)
(* which nothing asks for.                                                 *)
ASSUME AdminReachesAll == \A r \in Routes : MayCall(r, TRUE, {"admin"})
ASSUME GrantsAreUsed ==
    AdminPermissions \ UNION {r.roles : r \in Routes} =
      Visibility \cup {"notifications:read"}

(* What anyone signed in may change, with no role at all: what is theirs.  *)
ASSUME OpenWrites ==
    WritesOf({}) = On("Customer", {"createMyBranch", "updateMyBranch", "removeMyBranch"})
                     \cup On("Notification", {"markRead", "markAllRead"})

(* A customer adds to that an order, its freight and its checkout, and a   *)
(* sales rep the customers and the quotes; neither touches stock, an order *)
(* that exists, a label or an invoice, and neither sees past its own rows. *)
ASSUME CustomerWrites ==
    WritesOf({"customer"}) \ WritesOf({}) =
      On("Order", {"create"}) \cup On("OrderPolarCheckout", {"create"})
        \cup On("Shipping", {"quote", "selectRate", "tracking"})
ASSUME RepWrites ==
    WritesOf({"sales_rep"}) \ WritesOf({}) =
      On("Customer", {"create", "update", "link", "createBranch", "updateBranch",
                      "removeBranch"})
        \cup On("Quote", {"create", "update", "send", "approve", "reject", "convert", "remove"})
ASSUME NeitherSeesAll ==
    expand({"customer", "sales_rep"}) \cap (Visibility \cup {"customers:admin"}) = {}

(* Nobody is let in without a token except the two webhooks and the health *)
(* check, and no two purposes share a prefix, a permission or a type.      *)
ASSUME PublicRoutes ==
    {r \in Routes : MayCall(r, FALSE, {})} =
      On("PolarWebhook", {"handle"}) \cup On("ShippingWebhook", {"handle"}) \cup HealthController
ASSUME PurposesApart ==
    \A p, q \in DOMAIN PurposeRules : p # q =>
      /\ PurposeRules[p].prefix # PurposeRules[q].prefix
      /\ PurposeRules[p].permission # PurposeRules[q].permission
      /\ PurposeRules[p].contentTypes \cap PurposeRules[q].contentTypes = {}
===============================================================================
