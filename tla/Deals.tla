--------------------------------- MODULE Deals ---------------------------------
(***************************************************************************)
(* Prices move while a cart and a quote hold them: one product, one        *)
(* customer, a rep.  The price lists, the catalogue's price, the list of   *)
(* the customer and the day change between the preview of a cart and the   *)
(* order made from it, and between a quote, its re-pricing and the order   *)
(* it is converted into.                                                   *)
(***************************************************************************)
EXTENDS Pricing

CONSTANTS Lists,       \* the price lists there are
          Prices,      \* bound: unit prices somebody sets or sends
          Quantities,  \* bound: quantities somebody sends
          TaxRate,
          MaxDeals     \* bound: changes in a behaviour

(* What the bodies (@Min) and the configuration's schema demand.           *)
ASSUME DealAssumption == Quantities \subseteq Nat /\ TaxRate \in Nat

VARIABLES items,      \* commerce.price_list_items
          catalogue,  \* pim.product.price
          profileCode,\* customers.customer_profile.price_list_code
          default,    \* the list with is_default
          day,
          cart,       \* what the last preview showed: its lines, or none yet
          quote,      \* the quote and its lines; whole (history): its columns hold
                      \* all the decimals it was computed from; given (history): the
                      \* percentage the rep last gave
          order,      \* the order and what it was made from
          deals       \* how many changes there were

dvars == <<items, catalogue, profileCode, default, day, cart, quote, order, deals>>
prices == <<items, catalogue, profileCode, default, day>>

NoQuote == [status |-> "none", list |-> NoList, lines |-> <<>>, totals |-> Totals(<<>>),
            whole |-> TRUE, given |-> 0]
Nothing == [from |-> "nothing", lines |-> <<>>, agreed |-> <<>>, totals |-> Totals(<<>>)]

DealInit ==
    /\ items = {} /\ profileCode = NoList /\ day = 1
    /\ catalogue \in Prices \cup {NoPrice}
    /\ default \in Lists \cup {NoList}
    /\ cart = <<>> /\ quote = NoQuote /\ order = Nothing
    /\ deals = 0

Count == deals < MaxDeals /\ deals' = deals + 1

-------------------------------------------------------------------------------
(* The back office.  An item may ask for a quantity or end with a day.     *)
AddItem ==
    /\ Count
    /\ \E list \in Lists, p \in Prices, kind \in {<<0, 0>>, <<0, 1>>, <<2, 0>>} :
         LET item == [list |-> list, minQty |-> kind[1], validFrom |-> 0, validTo |-> kind[2],
                      createdAt |-> deals + 1, price |-> Kept(p)]
         IN  items' = items \cup {item}
    /\ UNCHANGED <<catalogue, profileCode, default, day, cart, quote, order>>

EditItem ==
    /\ Count
    /\ \E i \in items, p \in Prices : items' = (items \ {i}) \cup {[i EXCEPT !.price = Kept(p)]}
    /\ UNCHANGED <<catalogue, profileCode, default, day, cart, quote, order>>

RemoveItem ==
    /\ Count
    /\ \E i \in items : items' = items \ {i}
    /\ UNCHANGED <<catalogue, profileCode, default, day, cart, quote, order>>

EditProduct ==
    /\ Count
    /\ catalogue' \in Prices
    /\ UNCHANGED <<items, profileCode, default, day, cart, quote, order>>

AssignList ==
    /\ Count
    /\ profileCode' \in Lists \cup {NoList}
    /\ UNCHANGED <<items, catalogue, default, day, cart, quote, order>>

NextDay ==
    /\ day = 1 /\ day' = 2
    /\ UNCHANGED <<items, catalogue, profileCode, default, cart, quote, order, deals>>

-------------------------------------------------------------------------------
(* A customer's cart and order.  bodyCode is a member of staff's to send.  *)
ListFor(bodyCode) ==
    findApplicable(default, documentPriceListCode(TRUE, bodyCode, profileCode))
UnitPrice(list, qty) == OrderPrice(items, list, catalogue, qty, day)

(* A behaviour has a cart or a quote, which share nothing but the prices.  *)
preview ==
    /\ quote = NoQuote
    /\ \E code \in Lists \cup {NoList}, qty \in Quantities :
         LET unitPrice == UnitPrice(ListFor(code), qty)
         IN  /\ unitPrice # NoPrice
             /\ cart' = <<PricedLine(qty, unitPrice, TaxRate)>>
    /\ UNCHANGED <<prices, quote, order, deals>>

\* mutant: the order is priced as the cart says, whatever the price is now
PricedAsClaimed(claimed, resolved) == TRUE
(* priceLines: the claim is compared with the price now, which is charged. *)
ClaimHolds(claimed, resolved) == quotedPriceMatches(claimed, resolved)

create ==
    \E code \in Lists \cup {NoList}, claims \in BOOLEAN :
      LET shown == cart[1]
          unitPrice == UnitPrice(ListFor(code), shown.qty)
          line == PricedLine(shown.qty, unitPrice, TaxRate)
      IN  /\ cart # <<>>
          /\ unitPrice # NoPrice
          /\ claims => ClaimHolds(shown.unitPrice, unitPrice)
          /\ order' = [from |-> IF claims THEN "cart" ELSE "body", lines |-> <<KeptLine(line)>>,
                       agreed |-> cart, totals |-> Totals(<<line>>)]
          /\ UNCHANGED <<prices, cart, quote, deals>>

-------------------------------------------------------------------------------
(* A rep's quote.  The row keeps the totals as they were computed, and of  *)
(* a line what its columns can hold, with its discount.                    *)
QuotedLine(list, qty, unitPrice, discountPct) ==
    LET listPrice == QuotePrice(items, list, catalogue, qty, day)
        n == negotiatedPrice(listPrice, unitPrice, discountPct)
    IN  [line |-> PricedLine(qty, n.effective, TaxRate), discountPct |-> n.discountPct]
Quotable(list, qty, unitPrice, discountPct) ==
    /\ QuotePrice(items, list, catalogue, qty, day) # NoPrice
    /\ Negotiable(unitPrice, discountPct)

SetQuote(list, l, given) ==
    quote' = [status |-> "draft", list |-> list,
              lines |-> <<[line |-> KeptLine(l.line), discountPct |-> l.discountPct]>>,
              totals |-> Totals(<<l.line>>), whole |-> l.line = KeptLine(l.line), given |-> given]

(* A price, the percentage the bounds have, or neither.                    *)
Terms == {<<p, Unsent>> : p \in Prices \cup {Unsent}} \cup {<<Unsent, 1000>>}

(* create, and update with lines in the body.                              *)
writeQuote ==
    \E code \in Lists \cup {NoList}, qty \in Quantities, terms \in Terms :
      /\ cart = <<>>
      /\ quote.status \in {"none", "draft"}
      /\ Quotable(ListFor(code), qty, terms[1], terms[2])
      /\ LET l == QuotedLine(ListFor(code), qty, terms[1], terms[2])
         IN  SetQuote(ListFor(code), l, l.discountPct)
      /\ UNCHANGED <<prices, cart, order, deals>>

(* What a line is re-priced with when the body sends no lines: the         *)
(* percentage, not the price.                                              *)
\* mutant: the lines are rebuilt from their quantities
CarriedNone(l) == Unsent
Carried(l) == l.discountPct

repriceQuote ==
    \E code \in Lists \cup {NoList} :
      LET list == ListFor(code)
          l == quote.lines[1]
      IN  /\ quote.status = "draft"
          /\ list # quote.list
          /\ Quotable(list, l.line.qty, Unsent, Carried(l))
          /\ SetQuote(list, QuotedLine(list, l.line.qty, Unsent, Carried(l)), quote.given)
          /\ UNCHANGED <<prices, cart, order, deals>>

(* send and approve, after which the quote is not edited.                  *)
approve ==
    /\ quote.status = "draft"
    /\ quote' = [quote EXCEPT !.status = "approved"]
    /\ UNCHANGED <<prices, cart, order, deals>>

convert ==
    /\ quote.status = "approved"
    /\ quote' = [quote EXCEPT !.status = "converted"]
    /\ LET line == SnapshotLine(quote.lines[1].line)
       IN  order' = [from |-> "quote", lines |-> <<KeptLine(line)>>,
                     agreed |-> <<quote.lines[1].line>>, totals |-> Totals(<<line>>)]
    /\ UNCHANGED <<prices, cart, deals>>

(* Bound: a behaviour ends with its order.                                 *)
DealNext ==
    /\ order = Nothing
    /\ \/ AddItem \/ EditItem \/ RemoveItem \/ EditProduct \/ AssignList \/ NextDay
       \/ preview \/ create \/ writeQuote \/ repriceQuote \/ approve \/ convert

-------------------------------------------------------------------------------
(* What somebody agreed to is what is charged, whatever happened to the    *)
(* prices since.  An order made from a cart that claims its prices is not  *)
(* a cent and a half a unit away from what the preview showed.  A quote    *)
(* that is converted charges its own totals, to the cent when its columns  *)
(* hold all its decimals, and else within what storing the quantity and    *)
(* the price rounded away.  A quote that is re-priced with the lines it    *)
(* has keeps what the rep took off.                                        *)
AsShown(o) ==
    10000 * Abs(o.lines[1].net - o.agreed[1].net) <= 15 * o.agreed[1].qty + 10000
AsQuoted(o, q) ==
    IF q.whole THEN o.totals = q.totals
    ELSE /\ o.totals.taxTotal = q.totals.taxTotal
         /\ LET l == q.lines[1].line
            IN  10000 * Abs(o.totals.subtotal - q.totals.subtotal)
                  <= 5 * (l.qty + l.unitPrice) + 10025
AgreedIsCharged ==
    [][/\ order' # order /\ order'.from = "cart" => AsShown(order')
       /\ order' # order /\ order'.from = "quote" => AsQuoted(order', quote)
       /\ \A i \in 1..Len(quote'.lines) : quote'.lines[i].discountPct = quote'.given]_dvars
===============================================================================
