------------------------------ MODULE Checkout ------------------------------
(***************************************************************************)
(* The exchange rate of the relay and the invoices that are priced by it.  *)
(* StartExchangeRateWorker loads or fetches the rate at startup and daily  *)
(* at 22:00 UTC; GET /api/exchange-rate reports the rate in memory;        *)
(* CreateCheckout and CreateTopupCheckout read the row of the day          *)
(* themselves.  PlanDetailPage.tsx shows prices, from other columns of the *)
(* plan than those CreateCheckout charges by.                              *)
(*                                                                         *)
(* Time is counted in half-days: 2d-1 is day d before 22:00 UTC, 2d is the *)
(* rest of day d.  A rate is named by the half-day in which the API quoted *)
(* it, and 0 names the built-in rate; Quote says how many IDR it is.       *)
(* Amounts of USD and prices of plans are in hundredths, as DECIMAL(10,2)  *)
(* holds them, and the arithmetic is exact; the table rounds a rate to two *)
(* decimals, which is worth a rupiah at most and left out.                 *)
(***************************************************************************)
EXTENDS Integers

CONSTANTS
    MaxNow,         \* bound: the last half-day
    Quote,          \* IDR per USD by half-day
    TopupRequests,  \* bodies of POST topup; amount is in US cents or in IDR
    Plans,          \* rows of pricing_plans
    Durations       \* values of duration_months in requests

Time == 1..MaxNow
Rates == 0..MaxNow

PlanType == [name : {"pro", "enterprise", "pay", "other"}, price_monthly : Nat, price_usd : Nat, promo_price_usd : Nat,
             discount6 : 0..100, discount12 : 0..100, discount24 : 0..100]

ASSUME CheckoutAssumption ==
    /\ MaxNow \in Nat \ {0}
    /\ Quote \in [Time -> Nat \ {0}]
    /\ TopupRequests \subseteq [usd : BOOLEAN, amount : Nat]
    /\ Plans \subseteq PlanType
    /\ Durations \subseteq Nat

VARIABLES
    now,              \* the half-day
    exchangeRateIDR,  \* the rate in memory, reported by GET /api/exchange-rate
    worker,           \* place in StartExchangeRateWorker, its `today` and nextTick
    exchange_rates,   \* the table: the rate of each day, NoRow if it has none
    lastInvoice,      \* the last invoice created at Xendit
    readFailed,       \* history: the SELECT of the worker's last fetch failed
    fetchFailed       \* history: some call of the worker's last fetch failed

checkoutVars == <<now, exchangeRateIDR, worker, exchange_rates, lastInvoice, readFailed, fetchFailed>>

DayOf(t) == (t + 1) \div 2
Today == DayOf(now)
Days == 1..DayOf(MaxNow)
NoRow == -1
Fallback == 0
IDR(rate) == IF rate = Fallback THEN 16500 ELSE Quote[rate]

NoInvoice == [kind |-> "none"]

InitCheckout ==
    /\ now = 1
    /\ exchangeRateIDR = Fallback
    /\ worker = [pc |-> "fetch", today |-> 1, nextTick |-> 1]
    /\ exchange_rates = [d \in Days |-> NoRow]
    /\ lastInvoice = NoInvoice
    /\ readFailed = FALSE
    /\ fetchFailed = FALSE

----------------------------------------------------------------------------
(* The worker *)

NextTick == IF now % 2 = 1 THEN now + 1 ELSE now + 2

\* Fault: the worker asks the API whether or not the day has its row.
LoadRateNever ==
    /\ worker.pc = "fetch"
    /\ \E failed \in BOOLEAN : readFailed' = failed /\ fetchFailed' = failed
    /\ worker' = [worker EXCEPT !.pc = "ask", !.today = Today]
    /\ UNCHANGED <<now, exchangeRateIDR, exchange_rates, lastInvoice>>

\* Fault: the SELECT takes the last row of the table, of whatever day.
LoadRateOfAnyDay ==
    /\ worker.pc = "fetch"
    /\ readFailed' = FALSE /\ fetchFailed' = FALSE
    /\ \/ /\ \A d \in Days : exchange_rates[d] = NoRow
          /\ worker' = [worker EXCEPT !.pc = "ask", !.today = Today]
          /\ UNCHANGED exchangeRateIDR
       \/ \E d \in Days :
            /\ exchange_rates[d] # NoRow
            /\ \A e \in Days : e > d => exchange_rates[e] = NoRow
            /\ exchangeRateIDR' = exchange_rates[d]
            /\ worker' = [worker EXCEPT !.pc = "sleep", !.today = Today, !.nextTick = NextTick]
    /\ UNCHANGED <<now, exchange_rates, lastInvoice>>

\* Fault: the early return forgets to put the row into memory.
LoadRateReturnsOnly ==
    /\ worker.pc = "fetch"
    /\ readFailed' = FALSE /\ fetchFailed' = FALSE
    /\ worker' = IF exchange_rates[Today] # NoRow
                 THEN [worker EXCEPT !.pc = "sleep", !.today = Today, !.nextTick = NextTick]
                 ELSE [worker EXCEPT !.pc = "ask", !.today = Today]
    /\ UNCHANGED <<now, exchangeRateIDR, exchange_rates, lastInvoice>>

\* GetExchangeRate of the worker, and the early return when the day has its row
LoadRate ==
    /\ worker.pc = "fetch"
    /\ \E failed \in BOOLEAN :
        LET found == ~failed /\ exchange_rates[Today] # NoRow IN
        /\ readFailed' = failed
        /\ fetchFailed' = failed
        /\ exchangeRateIDR' = IF found THEN exchange_rates[Today] ELSE exchangeRateIDR
        /\ worker' = IF found
                     THEN [worker EXCEPT !.pc = "sleep", !.today = Today, !.nextTick = NextTick]
                     ELSE [worker EXCEPT !.pc = "ask", !.today = Today]
    /\ UNCHANGED <<now, exchange_rates, lastInvoice>>

\* http.Get answered, after as long as it liked: it has no timeout
ReceiveQuote ==
    /\ worker.pc = "ask"
    /\ exchangeRateIDR' = now
    /\ worker' = [worker EXCEPT !.pc = "save"]
    /\ UNCHANGED <<now, exchange_rates, lastInvoice, readFailed, fetchFailed>>

\* http.Get failed, or its answer was not JSON or had no IDR
QuoteFails ==
    /\ worker.pc = "ask"
    /\ fetchFailed' = TRUE
    /\ worker' = [worker EXCEPT !.pc = "sleep", !.nextTick = NextTick]
    /\ UNCHANGED <<now, exchangeRateIDR, exchange_rates, lastInvoice, readFailed>>

\* SaveExchangeRate: under the date captured before the request
SaveExchangeRate ==
    /\ worker.pc = "save"
    /\ \/ /\ exchange_rates' = [exchange_rates EXCEPT ![worker.today] = exchangeRateIDR]
          /\ UNCHANGED fetchFailed
       \/ /\ fetchFailed' = TRUE
          /\ UNCHANGED exchange_rates
    /\ worker' = [worker EXCEPT !.pc = "sleep", !.nextTick = NextTick]
    /\ UNCHANGED <<now, exchangeRateIDR, lastInvoice, readFailed>>

WakeUp ==
    /\ worker.pc = "sleep"
    /\ now >= worker.nextTick
    /\ worker' = [worker EXCEPT !.pc = "fetch"]
    /\ UNCHANGED <<now, exchangeRateIDR, exchange_rates, lastInvoice, readFailed, fetchFailed>>

----------------------------------------------------------------------------
(* Checkout.  The handlers share nothing but the row they read, once, so    *)
(* each is a step; one that returns an error leaves everything as it was.   *)

\* the rate a handler uses: of the row of the day, or the built-in one when
\* there is no row or the SELECT failed
CheckoutRates ==
    {Fallback} \cup (IF exchange_rates[Today] # NoRow THEN {exchange_rates[Today]} ELSE {})

\* A price of a thousand or less is one in USD.
LargestUSD == 100000

BaseMonthlyPrice(plan, rate) ==   \* in hundredths of IDR
    CASE plan.price_monthly > LargestUSD -> plan.price_monthly
      [] plan.price_monthly \in 1..LargestUSD -> plan.price_monthly * IDR(rate)
      [] OTHER -> CASE plan.name = "pro" -> 4900000
                    [] plan.name = "enterprise" -> 99000000
                    [] plan.name = "pay" -> 500000
                    [] OTHER -> 0

OrDefault(discount, default) == IF discount = 0 THEN default ELSE discount

Discount(plan, months) ==
    CASE months >= 24 -> OrDefault(plan.discount24, 35)
      [] months \in 12..23 -> OrDefault(plan.discount12, 20)
      [] months \in 6..11 -> OrDefault(plan.discount6, 10)
      [] OTHER -> 0

\* amount * percent \div 100, of numbers TLC can hold
Percent(amount, percent) == (amount \div 100) * percent + ((amount % 100) * percent) \div 100

PlanPrice(plan, months, rate) ==
    Percent(BaseMonthlyPrice(plan, rate) * months, 100 - Discount(plan, months)) \div 100

CreateCheckout ==
    \E plan \in Plans, duration_months \in Durations, rate \in CheckoutRates :
        LET months == IF duration_months = 0 THEN 1 ELSE duration_months IN
        /\ worker.pc # "off"
        /\ lastInvoice' = [kind |-> "plan", rate |-> rate, plan |-> plan,
                           months |-> months, price |-> PlanPrice(plan, months, rate)]
        /\ UNCHANGED <<now, exchangeRateIDR, worker, exchange_rates, readFailed, fetchFailed>>

\* What PlanDetailPage shows in USD: getBasePrice, and the discounts of the
\* durations it offers.
BasePriceUSD(plan) ==
    CASE plan.promo_price_usd > 0 -> plan.promo_price_usd
      [] plan.promo_price_usd = 0 /\ plan.price_usd > 0 -> plan.price_usd
      [] OTHER -> plan.price_monthly

PageDiscount(plan, months) ==
    LET listed == CASE months = 6 -> plan.discount6
                    [] months = 12 -> plan.discount12
                    [] months = 24 -> plan.discount24
                    [] OTHER -> 0
        usual == CASE months = 6 -> 10 [] months = 12 -> 20 [] months = 24 -> 35 [] OTHER -> 0
    IN  IF listed > 0 THEN listed ELSE usual

\* getPriceForDuration in USD, converted at a rate to whole IDR
PageTotal(plan, months, rate) ==
    Percent(BasePriceUSD(plan) * IDR(rate) * months, 100 - PageDiscount(plan, months)) \div 100

\* Fault: the tiers compare with > instead of >=.
TopupBytesAbove(usd, amount) ==
    LET above(cents, idr) == amount > IF usd THEN cents ELSE idr IN
    CASE above(999, 50000) -> 5120
      [] above(899, 40000) /\ ~above(999, 50000) -> 3072
      [] above(699, 30000) /\ ~above(899, 40000) -> 1536
      [] OTHER -> 1024

\* megabytes bought by an amount
TopupBytes(usd, amount) ==
    LET atLeast(cents, idr) == amount >= IF usd THEN cents ELSE idr IN
    CASE atLeast(999, 50000) -> 5120
      [] atLeast(899, 40000) /\ ~atLeast(999, 50000) -> 3072
      [] atLeast(699, 30000) /\ ~atLeast(899, 40000) -> 1536
      [] OTHER -> 1024

AmountIDR(req, rate) == IF req.usd THEN (req.amount * IDR(rate)) \div 100 ELSE req.amount

CreateTopupCheckout ==
    \E req \in TopupRequests, rate \in CheckoutRates :
        /\ worker.pc # "off"
        /\ AmountIDR(req, rate) >= 15000
        /\ lastInvoice' = [kind |-> "topup", rate |-> rate, req |-> req,
                           amount_idr |-> AmountIDR(req, rate),
                           bytes_added |-> TopupBytes(req.usd, req.amount)]
        /\ UNCHANGED <<now, exchangeRateIDR, worker, exchange_rates, readFailed, fetchFailed>>

----------------------------------------------------------------------------
(* The world *)

\* Time passes while the worker sleeps, no longer than it means to, waits for
\* the API, or is not there.  A query of the database does not take half a day.
Tick ==
    /\ now < MaxNow
    /\ \/ worker.pc = "sleep" /\ now < worker.nextTick
       \/ worker.pc \in {"ask", "off"}
    /\ now' = now + 1
    /\ UNCHANGED <<exchangeRateIDR, worker, exchange_rates, lastInvoice, readFailed, fetchFailed>>

Crash ==
    /\ worker.pc # "off"
    /\ worker' = [worker EXCEPT !.pc = "off"]
    /\ exchangeRateIDR' = Fallback
    /\ UNCHANGED <<now, exchange_rates, lastInvoice, readFailed, fetchFailed>>

Restart ==
    /\ worker.pc = "off"
    /\ worker' = [worker EXCEPT !.pc = "fetch"]
    /\ UNCHANGED <<now, exchangeRateIDR, exchange_rates, lastInvoice, readFailed, fetchFailed>>

NextCheckout ==
    \/ LoadRate \/ ReceiveQuote \/ QuoteFails \/ SaveExchangeRate \/ WakeUp
    \/ CreateCheckout \/ CreateTopupCheckout
    \/ Tick \/ Crash \/ Restart

SpecCheckout == InitCheckout /\ [][NextCheckout]_checkoutVars

----------------------------------------------------------------------------
(* Properties *)

\* Types; the worker's date is a day, and a rate is never one of the future.
CheckoutTypeOK ==
    /\ now \in Time
    /\ exchangeRateIDR \in 0..now
    /\ worker \in [pc : {"fetch", "ask", "save", "sleep", "off"},
                   today : 1..Today, nextTick : 1..(now + 2)]
    /\ exchange_rates \in [Days -> {NoRow} \cup 1..now]
    /\ readFailed \in BOOLEAN
    /\ fetchFailed \in BOOLEAN

\* The rate of a day is settled once: restarts, the fetch at 22:00 and answers
\* that come after midnight leave a row that is there alone, so that everyone
\* pays the same on a day.  Only a fetch whose SELECT failed replaces it
\* (fetchExchangeRate asks the table first; the upsert overwrites).
RowKeepsItsRate ==
    [][\A d \in Days : exchange_rates[d] # NoRow /\ exchange_rates'[d] # exchange_rates[d]
                       => readFailed]_checkoutVars

\* Unless its last fetch failed, a worker that sleeps shows a rate that was
\* quoted yesterday or later, however restarts, slow answers and the
\* row it may have found instead of asking fall together.
FreshRate ==
    worker.pc = "sleep" /\ ~fetchFailed => DayOf(exchangeRateIDR) >= Today - 1

\* A fixed plan that is not on sale, as the owner's dashboard saves it: price_monthly
\* is price_usd, or nothing was entered (OwnerDashboard.tsx:467; 0 is the column's
\* default).
PricedInUSD(plan) ==
    /\ plan.name # "pay" /\ plan.price_monthly \in 1..LargestUSD
    /\ plan.price_usd \in {0, plan.price_monthly} /\ plan.promo_price_usd = 0

\* A plan in USD that is not on sale is charged the dollars that the plan page
\* shows, at the rate that GET /api/exchange-rate reports: base prices and discounts
\* agree although they are computed twice, from different columns, and the rate in
\* memory and the row the checkout reads are the same, when the worker has come
\* through a fetch without a failure and the row is there and was read.  A plan on
\* sale is charged its full price, which the page does not show.
ChargedAsShown ==
    [][ /\ lastInvoice' # lastInvoice /\ lastInvoice'.kind = "plan" /\ lastInvoice'.rate # Fallback
        /\ worker.pc = "sleep" /\ ~fetchFailed
        /\ PricedInUSD(lastInvoice'.plan) /\ lastInvoice'.months \in {1, 6, 12, 24}
        => lastInvoice'.price = PageTotal(lastInvoice'.plan, lastInvoice'.months, exchangeRateIDR)]_checkoutVars

\* The tiers of the billing page (UserDashboard.tsx:901), with its megabytes.
Tiers == {[idr |-> 20000, usd |-> 499, mb |-> 1024], [idr |-> 30000, usd |-> 699, mb |-> 1536],
          [idr |-> 40000, usd |-> 899, mb |-> 3072], [idr |-> 50000, usd |-> 999, mb |-> 5120]}

\* A topup buys what the billing page, which alone makes topups, says of its
\* amount, in both currencies and at every rate; and no topup buys more than the
\* largest tier it paid for in full, or less than the first.  The plan page says 2 GB
\* of the second amount (PlanDetailPage.tsx:108, 114), and sells a plan for it.
TopupAsBillingPageSays ==
    lastInvoice.kind = "topup" =>
        LET paid(tier) == lastInvoice.req.amount >= IF lastInvoice.req.usd THEN tier.usd ELSE tier.idr
        IN  /\ \A tier \in Tiers : paid(tier) => tier.mb <= lastInvoice.bytes_added
            /\ lastInvoice.bytes_added = 1024
                 \/ \E tier \in Tiers : paid(tier) /\ tier.mb = lastInvoice.bytes_added
=============================================================================
