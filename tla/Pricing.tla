-------------------------------- MODULE Pricing --------------------------------
(***************************************************************************)
(* What a line costs.  Amounts of money are whole cents.  A unit price and *)
(* a quantity, which a request may send with more decimals than the        *)
(* NUMERIC(14,2) columns keep, are in thousandths; a percentage and the    *)
(* tax rate in hundredths of a percent.  Floating point is left out: the   *)
(* code scales through decimal text to round as the exact value would.     *)
(***************************************************************************)
EXTENDS Integers, Sequences, FiniteSets

Abs(n) == IF n < 0 THEN -n ELSE n

(* The integer nearest to n / d, half away from zero: round2, and what a   *)
(* NUMERIC column does with the decimals it has no room for.               *)
Rounded(n, d) == IF n >= 0 THEN (2 * n + d) \div (2 * d) ELSE -((d - 2 * n) \div (2 * d))

Kept(v) == 10 * Rounded(v, 10)

priceLine(qty, unitPrice, taxRate) ==
    LET net == Rounded(qty * unitPrice, 10000)
        tax == Rounded(net * taxRate, 10000)
    IN  [net |-> net, tax |-> tax, lineTotal |-> net + tax]

quotedPriceMatches(claimed, resolved) == Rounded(Abs(claimed - resolved), 10) <= 1

orderGrandTotal(subtotal, taxTotal, shippingTotal, discountTotal) ==
    subtotal + taxTotal + shippingTotal - discountTotal

(* What a rep negotiated: a price, a percentage, or neither; not both.     *)
Unsent == -1
Negotiable(unitPrice, discountPct) == unitPrice = Unsent \/ discountPct \in {Unsent, 0}
derivedPct(listPrice, effective) ==
    IF listPrice <= effective THEN 0 ELSE Rounded((listPrice - effective) * 10000, listPrice)
negotiatedPrice(listPrice, unitPrice, discountPct) ==
    IF unitPrice # Unsent
    THEN [effective |-> Kept(unitPrice), discountPct |-> derivedPct(listPrice, Kept(unitPrice))]
    ELSE IF discountPct \notin {Unsent, 0}
    THEN [effective |-> 10 * Rounded(listPrice * (10000 - discountPct), 100000),
          discountPct |-> discountPct]
    ELSE [effective |-> listPrice, discountPct |-> 0]

-------------------------------------------------------------------------------
(* Price lists.  An item has a list, min_qty in units, a window and the    *)
(* instant it was created at; 0 stands for a NULL.                         *)
NoList == "no list"
NoPrice == -1

MinQty(item) == IF item.minQty = 0 THEN 1 ELSE item.minQty
Qualifies(item, list, qty, day) ==
    /\ item.list = list
    /\ 1000 * MinQty(item) <= qty
    /\ item.validFrom = 0 \/ item.validFrom <= day
    /\ item.validTo = 0 \/ item.validTo >= day
Before(i, j) == MinQty(i) > MinQty(j) \/ (MinQty(i) = MinQty(j) /\ i.createdAt >= j.createdAt)

(* The best qualifying tier, or none.                                      *)
Tier(items, list, qty, day) ==
    LET Q == {i \in items : Qualifies(i, list, qty, day)}
    IN  {i \in Q : \A j \in Q : Before(i, j)}

documentPriceListCode(honorBodyCode, bodyCode, profileCode) ==
    IF honorBodyCode /\ bodyCode # NoList THEN bodyCode ELSE profileCode
(* An explicit code that names no list is refused.                         *)
Findable(lists, code) == code = NoList \/ code \in lists
findApplicable(default, code) == IF code # NoList THEN code ELSE default

TierPrice(items, list, qty, day) ==
    LET T == Tier(items, list, qty, day)
    IN  IF T = {} THEN NoPrice ELSE (CHOOSE i \in T : TRUE).price

(* An order falls back to the catalogue's price, a quote does not.         *)
OrderPrice(items, list, catalogue, qty, day) ==
    LET p == IF list = NoList THEN NoPrice ELSE TierPrice(items, list, qty, day)
    IN  IF p # NoPrice THEN p ELSE catalogue
QuotePrice(items, list, catalogue, qty, day) ==
    IF list # NoList THEN TierPrice(items, list, qty, day) ELSE catalogue

-------------------------------------------------------------------------------
(* Sums over lines, which are sequences of priceLine's records with their  *)
(* quantity and unit price.                                                *)
Sum(f, n) == LET s[i \in 0..n] == IF i = 0 THEN 0 ELSE s[i - 1] + f[i] IN s[n]
Totals(lines) ==
    LET subtotal == Sum([i \in 1..Len(lines) |-> lines[i].net], Len(lines))
        taxTotal == Sum([i \in 1..Len(lines) |-> lines[i].tax], Len(lines))
    IN  [subtotal |-> subtotal, taxTotal |-> taxTotal,
         grandTotal |-> orderGrandTotal(subtotal, taxTotal, 0, 0)]

Line(qty, unitPrice, p) ==
    [qty |-> qty, unitPrice |-> unitPrice, net |-> p.net, tax |-> p.tax, lineTotal |-> p.lineTotal]
PricedLine(qty, unitPrice, taxRate) == Line(qty, unitPrice, priceLine(qty, unitPrice, taxRate))

(* What the columns of a line keep of it.                                  *)
KeptLine(l) == [l EXCEPT !.qty = Kept(@), !.unitPrice = Kept(@)]

(* A trusted caller's line: the price and the tax it brings, the net anew. *)
SnapshotLine(l) ==
    LET net == Rounded(l.qty * l.unitPrice, 10000)
    IN  Line(l.qty, l.unitPrice, [net |-> net, tax |-> l.tax, lineTotal |-> net + l.tax])

-------------------------------------------------------------------------------
(* The parcel of an order: dimensions in millimetres, weight in grams, 0   *)
(* for what the catalogue does not have.                                   *)
Ceiling(n, d) == (n + d - 1) \div d
Largest(S) == CHOOSE n \in S : \A m \in S : m <= n
Units(qty) == IF qty <= 1000 THEN 1 ELSE Ceiling(qty, 1000)
Sides(l) ==
    LET S == <<l.length, l.width, l.height>>
        rank(i) == Cardinality({j \in 1..3 : S[j] > S[i] \/ (S[j] = S[i] /\ j < i)})
    IN  [r \in 0..2 |-> S[CHOOSE i \in 1..3 : rank(i) = r]]

Measured(l) == l.weight > 0 /\ l.length > 0 /\ l.width > 0 /\ l.height > 0
Packable(lines) == lines # <<>> /\ \A i \in 1..Len(lines) : Measured(lines[i])
parcelFromLines(lines) ==
    LET all == 1..Len(lines)
    IN  [weight |-> Sum([i \in all |-> Units(lines[i].qty) * lines[i].weight], Len(lines)),
         length |-> Ceiling(Largest({Sides(lines[i])[0] : i \in all}), 10),
         width  |-> Ceiling(Largest({Sides(lines[i])[1] : i \in all}), 10),
         height |-> Ceiling(Sum([i \in all |-> Units(lines[i].qty) * Sides(lines[i])[2]],
                                Len(lines)), 10)]

-------------------------------------------------------------------------------
SomeAmounts == {1, 4, 5, 10, 14, 15, 999, 1005, 10000, 12345}
SomePcts == {1, 50, 1000, 3333, 9999, 10000}
SomeItems ==
    {[list |-> "retail", minQty |-> m, validFrom |-> f, validTo |-> t, createdAt |-> 7 * m + f + t,
      price |-> 10000 - 100 * m - f - t] : m \in {0, 1, 2, 5}, f \in {0, 2}, t \in {0, 2}}
SomeBooks == {{i, j} : i, j \in SomeItems}
SomeLines ==
    {[qty |-> q, weight |-> w, length |-> a, width |-> b, height |-> c] :
       q \in {10, 1000, 1500}, w \in {0, 20}, a \in {101, 300}, b \in {99, 301}, c \in {5, 300}}

(* A negotiated line can be explained by its percentage: it is within 0    *)
(* and 100%, and taking it off the list price gives the price charged,     *)
(* within a cent and the rounding of the percentage; except above list.    *)
ASSUME Explained ==
    \A l, u \in SomeAmounts, d \in SomePcts :
      LET byPrice == negotiatedPrice(l, u, Unsent)
          byPct == negotiatedPrice(l, Unsent, d)
          again == negotiatedPrice(l, Unsent, byPrice.discountPct)
      IN  /\ byPrice.discountPct \in 0..10000
          /\ byPct.effective \in 0..Kept(l)
          /\ Kept(u) <= l =>
               Abs(again.effective - byPrice.effective) <= 10 + Ceiling(l, 20000)

(* A bigger quantity never falls out of the list nor to a lower tier.      *)
ASSUME BiggerNeverWorse ==
    \A items \in SomeBooks, day \in 1..3, p, q \in {900, 1000, 2000, 4999, 5000} : p <= q =>
      \A i \in Tier(items, "retail", p, day) : \E j \in Tier(items, "retail", q, day) :
        MinQty(i) <= MinQty(j)

(* More of anything never quotes a smaller or a lighter parcel, nor does   *)
(* one more line; and every piece fits in it.                              *)
ASSUME ParcelGrows ==
    \A l, m \in {x \in SomeLines : Measured(x)} :
      LET one == parcelFromLines(<<l>>)
          two == parcelFromLines(<<l, m>>)
      IN  /\ \A k \in {"weight", "length", "width", "height"} : one[k] <= two[k]
          /\ two = parcelFromLines(<<m, l>>)
          /\ two.length * 10 >= Largest({l.length, l.width, l.height})
          /\ l.qty <= 1000 => one = parcelFromLines(<<[l EXCEPT !.qty = 1]>>)
===============================================================================
