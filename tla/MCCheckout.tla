----------------------------- MODULE MCCheckout -----------------------------
EXTENDS Checkout, FiniteSets

\* three days; the rate moves below and above the built-in one
QuoteTable == [t \in 1..6 |-> 15000 + 500 * ((t * 3) % 8) + 1]

Topups ==
    [usd : {TRUE}, amount : {90, 91, 499, 698, 699, 899, 999}]
        \cup [usd : {FALSE}, amount : {14999, 20000, 30000, 40000, 49999, 50000}]

Plan(n, p, usd, promo, d6, d12, d24) ==
    [name |-> n, price_monthly |-> p, price_usd |-> usd, promo_price_usd |-> promo,
     discount6 |-> d6, discount12 |-> d12, discount24 |-> d24]

\* the plan of the seed that is topped up, two with discounts of their own and the
\* price in one column or in two, one on sale, one without a price, one in IDR; two
\* years of "enterprise" are beyond TLC's integers
PlanRows == {Plan("pay", 100, 499, 0, 0, 0, 0), Plan("other", 499, 499, 0, 0, 15, 0),
             Plan("pro", 500, 0, 0, 0, 0, 40), Plan("pro", 500, 500, 300, 0, 0, 0),
             Plan("other", 0, 0, 0, 0, 0, 0), Plan("pro", 4900000, 0, 0, 5, 0, 0)}
=============================================================================
