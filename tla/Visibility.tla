------------------------------ MODULE Visibility ------------------------------
(***************************************************************************)
(* Which rows a caller sees.  A service builds a WHERE from the caller and *)
(* from the query's filters, or refuses the query; a list shows the rows   *)
(* that satisfy it, and a detail page is the row under the same WHERE      *)
(* without filters.  Here a WHERE is the predicate it stands for: Admits.  *)
(* A filter left out of a query is NoOne.                                  *)
(***************************************************************************)
EXTENDS Access, Integers

Filter(wanted, value) == wanted = NoOne \/ value = wanted

(* orders *)
tierOf(u) ==
    IF "orders:admin" \in expand(u.roles) THEN "admin"
    ELSE IF u.salesRepId # NoOne THEN "rep" ELSE "customer"
isStaff(u) == u.employeeId # NoOne \/ tierOf(u) # "customer"

OrderAdmits(u, query, order) ==
    /\ tierOf(u) = "rep" => order.salesRepId = u.salesRepId
    /\ tierOf(u) = "customer" => order.customerId = u.id
    /\ tierOf(u) = "customer" => Filter(query.customerId, u.id)
    /\ Filter(query.customerId, order.customerId)
    /\ Filter(query.status, order.status)

(* Whom and in what status an order may be created for: NoOne when refused.*)
Binding(customerId, status) == [customerId |-> customerId, status |-> status]
Refused == Binding(NoOne, NoOne)
bindCreate(u, dto) ==
    IF tierOf(u) # "customer"
    THEN Binding(dto.customerId, IF dto.status = NoOne THEN "draft" ELSE dto.status)
    ELSE IF dto.customerId # u.id THEN Refused ELSE Binding(u.id, "draft")
(* OrderService.create: customers need a complete fiscal profile.          *)
MayCreate(u, dto) ==
    bindCreate(u, dto) # Refused /\ (isStaff(u) \/ u.profileComplete)

(* shipping: the order of a shipment, under the orders' WHERE.             *)
NoOrderFilter == [customerId |-> NoOne, status |-> NoOne]
ShippingAdmits(u, order) == OrderAdmits(u, NoOrderFilter, order)

(* payments: the order of a checkout; a rep is not admitted by its rows.   *)
CheckoutAdmits(u, order) == tierOf(u) = "admin" \/ order.customerId = u.id

-------------------------------------------------------------------------------
(* quotes.  The bypass is a raw role, not an expanded one.                 *)
QuoteStatuses == {"draft", "sent", "approved", "rejected", "converted"}
CustomerVisible == {"sent", "approved", "rejected", "converted"}

QuoteTier(u) ==
    IF "quotes:admin" \in u.roles THEN "admin"
    ELSE IF u.salesRepId # NoOne THEN "rep" ELSE "customer"
Allowed(u) == IF QuoteTier(u) = "customer" THEN CustomerVisible ELSE QuoteStatuses

effectiveStatus(quote, now) ==
    IF quote.status = "sent" /\ quote.validUntil < now THEN "expired" ELSE quote.status

StatusAdmits(allowed, wanted, quote, now) ==
    CASE wanted = NoOne -> quote.status \in allowed
      [] wanted = "expired" ->
           "sent" \in allowed /\ quote.status = "sent" /\ quote.validUntil < now
      [] wanted = "sent" ->
           "sent" \in allowed /\ quote.status = "sent" /\ quote.validUntil >= now
      [] OTHER -> wanted \in QuoteStatuses \cap allowed /\ quote.status = wanted

QuoteAdmits(u, query, quote, now) ==
    /\ QuoteTier(u) = "rep" => quote.salesRepId = u.salesRepId
    /\ QuoteTier(u) = "customer" => quote.customerId = u.id
    /\ QuoteTier(u) = "customer" => Filter(query.customerId, u.id)
    /\ Filter(query.customerId, quote.customerId)
    /\ StatusAdmits(Allowed(u), query.status, quote, now)
NoQuoteFilter == [customerId |-> NoOne, status |-> NoOne]

-------------------------------------------------------------------------------
(* customers: a list for admins and reps, and the rule of one profile that *)
(* its branches go by.  Both read raw roles.                               *)
CustomerAdmin(u) == "customers:admin" \in u.roles
ProfileAdmits(u, query, profile) ==
    /\ CustomerAdmin(u) \/ u.salesRepId # NoOne
    /\ ~CustomerAdmin(u) =>
         profile.ownerSalesRepId = u.salesRepId /\ Filter(query.ownerSalesRepId, u.salesRepId)
    /\ Filter(query.ownerSalesRepId, profile.ownerSalesRepId)
    /\ query.isActive = NoOne \/ profile.isActive = (query.isActive = "yes")
NoProfileFilter == [ownerSalesRepId |-> NoOne, isActive |-> NoOne]

isVisibleToUser(profile, u) ==
    \/ CustomerAdmin(u)
    \/ profile.authCustomerId # NoOne /\ profile.authCustomerId = u.id
    \/ u.salesRepId # NoOne /\ profile.ownerSalesRepId = u.salesRepId

(* billing *)
InvoiceAdmin(u) == "billing:admin" \in expand(u.roles)
InvoiceAdmits(u, query, invoice) ==
    /\ ~InvoiceAdmin(u) => invoice.customerId = u.id /\ Filter(query.customerId, u.id)
    /\ Filter(query.customerId, invoice.customerId)
    /\ Filter(query.orderId, invoice.orderId)
NoInvoiceFilter == [customerId |-> NoOne, orderId |-> NoOne]

-------------------------------------------------------------------------------
(* The instance the assumptions below are evaluated on.                    *)
SomeUsers ==
    {AuthenticatedUser(id, roles, rep, NoOne, FALSE) :
       id \in {"ana", "rosa"},
       roles \in {{}, {"customer"}, {"admin"}, {"sales_rep"}, {"quotes:admin"},
                  {"customers:admin"}},
       rep \in {NoOne, "rosa"}}
SomeOrders ==
    [customerId : {"ana", "eva"}, salesRepId : {NoOne, "rosa"}, status : {"draft", "confirmed"}]
SomeQuotes ==
    [customerId : {NoOne, "ana", "eva"}, salesRepId : {NoOne, "rosa"}, status : QuoteStatuses,
     validUntil : 1..2]
SomeProfiles ==
    [ownerSalesRepId : {NoOne, "rosa", "raul"}, authCustomerId : {NoOne, "ana", "rosa"},
     isActive : BOOLEAN]
SomeOrderQueries == [customerId : {NoOne, "ana", "eva"}, status : {NoOne, "draft", "confirmed"}]
SomeQuoteQueries ==
    [customerId : {NoOne, "ana", "eva"}, status : {NoOne, "expired"} \cup QuoteStatuses]
SomeProfileQueries ==
    [ownerSalesRepId : {NoOne, "rosa", "raul"}, isActive : {NoOne, "yes", "no"}]

(* What a list shows its detail page shows, under every filter.            *)
ASSUME ListedIsReadable ==
    \A u \in SomeUsers :
      /\ \A q \in SomeOrderQueries, o \in SomeOrders :
           OrderAdmits(u, q, o) => OrderAdmits(u, NoOrderFilter, o)
      /\ \A q \in SomeQuoteQueries, r \in SomeQuotes :
           QuoteAdmits(u, q, r, 2) => QuoteAdmits(u, NoQuoteFilter, r, 2)
      /\ \A q \in SomeProfileQueries, p \in SomeProfiles :
           ProfileAdmits(u, q, p) => ProfileAdmits(u, NoProfileFilter, p)

(* Filtering quotes by a status shows the visible ones reported with it.   *)
ASSUME StatusFilterMatches ==
    \A u \in SomeUsers, s \in {"expired"} \cup QuoteStatuses, r \in SomeQuotes :
      QuoteAdmits(u, [NoQuoteFilter EXCEPT !.status = s], r, 2) <=>
        QuoteAdmits(u, NoQuoteFilter, r, 2) /\ effectiveStatus(r, 2) = s

(* A profile on somebody's list is one whose branches they may see; and a  *)
(* branch seen beyond the list is the caller's own.                        *)
ASSUME TwoProfileRules ==
    \A u \in SomeUsers, p \in SomeProfiles :
      isVisibleToUser(p, u) <=>
        ProfileAdmits(u, NoProfileFilter, p) \/ p.authCustomerId = u.id

(* The macro role admin sees every order and every invoice but, its quotes *)
(* and customers being asked for raw, neither of those.                    *)
ASSUME AdminSeesOrdersOnly ==
    \A u \in SomeUsers : u.roles = {"admin"} =>
      /\ tierOf(u) = "admin" /\ InvoiceAdmin(u)
      /\ QuoteTier(u) # "admin" /\ ~CustomerAdmin(u)
===============================================================================
