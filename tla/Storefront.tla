------------------------------- MODULE Storefront -------------------------------
(***************************************************************************)
(* What a shopper sees of the catalogue: the search and its facets, the    *)
(* products of a vehicle, and whether a product can be bought.  A query is *)
(* a record of filters; Everything is a filter that was left out.  A text  *)
(* that a query looks for is one of the words of the name or of the sku.   *)
(***************************************************************************)
EXTENDS Integers, FiniteSets

Everything == "everything"
Null == "null"
Chosen(filter, value) == filter = Everything \/ filter = value

(* applyFilters, for a listing (skip = "none") or for a facet.             *)
applyFilters(p, query, skip) ==
    /\ query.q = Everything \/ query.q \in p.words
    /\ skip = "brand" \/ Chosen(query.brand, p.brand)
    /\ skip = "category" \/ Chosen(query.category, p.category)
    /\ skip = "autoPart" \/ Chosen(query.autoPart, p.autoPart)
    /\ Chosen(query.provider, p.provider)
    /\ Chosen(query.isVisible, p.isVisible)

search(products, query) == {p \in products : applyFilters(p, query, "none")}

(* countBy: the options of a facet with how many products each has.        *)
countBy(products, query, field) ==
    LET found == {p \in products : p[field] # Null /\ applyFilters(p, query, field)}
    IN  [option \in {p[field] : p \in found} |->
           Cardinality({p \in found : p[field] = option})]
facets(products, query) ==
    [field \in {"brand", "category", "autoPart"} |-> countBy(products, query, field)]
Facet(products, query, field, option) ==
    LET f == facets(products, query)[field]
    IN  IF option \in DOMAIN f THEN f[option] ELSE 0

(* The products with a compatibility row that every vehicle filter admits: *)
(* a product once, however many rows it has.                               *)
findProductsByVehicle(products, compatibilities, query) ==
    {p \in products : /\ Chosen(query.isVisible, p.isVisible)
                      /\ \E c \in compatibilities :
                           /\ c.product = p.id
                           /\ Chosen(query.model, c.model) /\ Chosen(query.year, c.year)
                           /\ Chosen(query.plant, c.plant)
                           /\ Chosen(query.motorization, c.motorization)}

(* Availability over the stock rows of a product, at all its branches.     *)
Total(rows, field) ==
    LET f[S \in SUBSET rows] ==
          IF S = {} THEN 0
          ELSE LET r == CHOOSE x \in S : TRUE IN r[field] + f[S \ {r}]
    IN  f[rows]
available(rows) == Total(rows, "stock") - Total(rows, "reservedStock")
decorate(rows, threshold) ==
    [inStock |-> available(rows) > 0,
     lowStock |-> available(rows) > 0 /\ available(rows) <= threshold]

(* The listings that ORDER BY a key can answer with: each request sorts    *)
(* anew, and rows with the same key may come in any order.                 *)
Listings(rows, key) ==
    LET n == Cardinality(rows)
    IN  {s \in [1..n -> rows] :
           \A i, j \in 1..n : i < j => s[i] # s[j] /\ key[s[i]] <= key[s[j]]}

(* A page of it: OFFSET and LIMIT.                                         *)
Page(listing, page, limit) ==
    {listing[i] : i \in {i \in DOMAIN listing : (page - 1) * limit < i /\ i <= page * limit}}
pages(n, limit) == IF n = 0 THEN 1 ELSE (n + limit - 1) \div limit

-------------------------------------------------------------------------------
SomeProducts ==
    {[id |-> 1, words |-> {"lift"}, brand |-> "rc", category |-> "kit", autoPart |-> Null,
      provider |-> "usa", isVisible |-> "yes"],
     [id |-> 2, words |-> {"lift", "shock"}, brand |-> "rc", category |-> "shocks",
      autoPart |-> "shock", provider |-> "usa", isVisible |-> "yes"],
     [id |-> 3, words |-> {"shock"}, brand |-> "fox", category |-> "shocks", autoPart |-> "shock",
      provider |-> "mex", isVisible |-> "no"],
     [id |-> 4, words |-> {"lamp"}, brand |-> Null, category |-> "kit", autoPart |-> "lamp",
      provider |-> "mex", isVisible |-> "yes"]}
SomeQueries ==
    [q : {Everything, "lift", "shock"}, brand : {Everything, "rc", "fox"}, category : {Everything, "kit", "shocks"},
     autoPart : {Everything, "shock"}, provider : {Everything, "usa", "mex"}, isVisible : {Everything, "yes", "no"}]
SomeRows == [branch : 1..2, stock : 0..3, reservedStock : 0..3]

(* The number a facet shows beside an option is how many products the      *)
(* shopper finds when choosing it, the other filters as they are: also for *)
(* the option already chosen, and for one that is absent, which finds none.*)
ASSUME FacetsTellTheTruth ==
    \A query \in SomeQueries, option \in {"rc", "fox", "kit", "shocks", "shock", "lamp"} :
      /\ Facet(SomeProducts, query, "brand", option) =
           Cardinality(search(SomeProducts, [query EXCEPT !.brand = option]))
      /\ Facet(SomeProducts, query, "category", option) =
           Cardinality(search(SomeProducts, [query EXCEPT !.category = option]))
      /\ Facet(SomeProducts, query, "autoPart", option) =
           Cardinality(search(SomeProducts, [query EXCEPT !.autoPart = option]))

(* "Last units" is said of nothing that cannot be bought, and one more     *)
(* unit in stock never makes a product unavailable.                        *)
ASSUME LastUnitsCanBeBought ==
    \A rows \in {{r, s} : r, s \in SomeRows}, t \in 0..2 :
      /\ decorate(rows, t).lowStock => decorate(rows, t).inStock
      /\ decorate(rows, 0).lowStock = FALSE
      /\ \A r \in rows : r.branch = 1 /\ decorate(rows, t).inStock =>
           decorate((rows \ {r}) \cup {[r EXCEPT !.stock = @ + 1]}, t).inStock

(* Reading every page, each by a request of its own, shows every row once  *)
(* if no two rows have the same sort key: the products by id, departments  *)
(* and categories by code.                                                 *)
EachOnce(rows, limit, answers) ==
    /\ UNION {Page(answers[p], p, limit) : p \in DOMAIN answers} = rows
    /\ \A p, q \in DOMAIN answers :
          p # q => Page(answers[p], p, limit) \cap Page(answers[q], q, limit) = {}

ASSUME PagesHoldEachOnce ==
    \A n \in 0..5, limit \in 1..3 : \A key \in [1..n -> 1..n] :
      (\A r, s \in 1..n : r # s => key[r] # key[s]) =>
        \A answers \in [1..pages(n, limit) -> Listings(1..n, key)] : EachOnce(1..n, limit, answers)

(* It may show one twice and another not at all wherever the rows of two   *)
(* pages tie: the brands by name; quotes, customers and notifications by   *)
(* createdAt.                                                              *)
ASSUME TiesRepeatAndSkip ==
    \A n \in 2..4, limit \in 1..2 : limit < n =>
      \E answers \in [1..pages(n, limit) -> Listings(1..n, [r \in 1..n |-> 0])] :
        /\ \E p, q \in DOMAIN answers :
              p # q /\ Page(answers[p], p, limit) \cap Page(answers[q], q, limit) # {}
        /\ UNION {Page(answers[p], p, limit) : p \in DOMAIN answers} # 1..n
===============================================================================
