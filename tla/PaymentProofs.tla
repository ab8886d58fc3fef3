---------------------------- MODULE PaymentProofs ----------------------------
(***************************************************************************)
(* Proofs about the billing side of the relay: Checkout, for any number of *)
(* days, any quotes and any plans and requests, and PaymentWebhook, for    *)
(* any number of invoices, handlers, repetitions and failures.             *)
(***************************************************************************)
EXTENDS Checkout, PaymentWebhook, FiniteSetTheorems, TLAPS

-----------------------------------------------------------------------------
(* Checkout                                                                 *)

\* The days of half-days are in order, and two half-days are at most one apart.
LEMMA DayOrder ==
    ASSUME NEW t \in Nat, NEW u \in Nat, t <= u
    PROVE  /\ DayOf(t) \in Nat
           /\ DayOf(t) <= DayOf(u)
           /\ DayOf(t + 1) <= DayOf(t) + 1
           /\ t >= 1 => DayOf(t) >= 1
    BY DEF DayOf

\* The next 22:00 is within a day of the present, and today or tomorrow.
LEMMA NextTickIsNear ==
    ASSUME now \in Nat, now >= 1
    PROVE  /\ NextTick \in (now + 1)..(now + 2)
           /\ DayOf(NextTick) <= Today + 1
    BY DEF NextTick, DayOf, Today

\* What a fetch in progress knows: nobody else fills in the day it found empty,
\* and what it saves was quoted just now.
FetchInProgress ==
    /\ worker.pc \in {"ask", "save"} /\ ~readFailed => exchange_rates[worker.today] = NoRow
    /\ worker.pc = "save" => exchangeRateIDR = now

\* A row was quoted on its day or, if the answer came late, after it.
RowsAreRecent ==
    \A d \in Days : exchange_rates[d] # NoRow => DayOf(exchange_rates[d]) >= d

\* A worker that sleeps wakes before its rate is two days old.
SleepIsShort ==
    worker.pc = "sleep" =>
        /\ now <= worker.nextTick
        /\ ~fetchFailed => DayOf(exchangeRateIDR) >= DayOf(worker.nextTick) - 1

RateInv == CheckoutTypeOK /\ FetchInProgress /\ RowsAreRecent /\ SleepIsShort

LEMMA TodayIsADay ==
    ASSUME CheckoutTypeOK
    PROVE  /\ Today \in Days
           /\ \A d \in 1..Today : d \in Days
    <1>1. now \in Nat /\ now >= 1 /\ now <= MaxNow /\ MaxNow \in Nat
        BY CheckoutAssumption DEF CheckoutTypeOK, Time
    <1>2. DayOf(now) \in Nat /\ DayOf(now) >= 1 /\ DayOf(now) <= DayOf(MaxNow) /\ DayOf(MaxNow) \in Nat
        BY <1>1, DayOrder
    <1> QED BY <1>2 DEF Today, Days

\* where the worker may be
Places == {"fetch", "ask", "save", "sleep", "off"}

LEMMA InitRateInv == InitCheckout => RateInv
    <1> SUFFICES ASSUME InitCheckout PROVE RateInv
        OBVIOUS
    <1>1. MaxNow \in Nat /\ MaxNow >= 1 /\ Today = 1
        BY CheckoutAssumption DEF InitCheckout, Today, DayOf
    <1>2. CheckoutTypeOK
        <2>1. now \in Time /\ exchangeRateIDR \in 0..now /\ readFailed \in BOOLEAN /\ fetchFailed \in BOOLEAN
            <3>1. now = 1 /\ exchangeRateIDR = 0 /\ readFailed = FALSE /\ fetchFailed = FALSE
                BY DEF InitCheckout, Fallback
            <3>2. now \in Time /\ exchangeRateIDR \in 0..now
                BY <1>1, <3>1 DEF Time
            <3> QED BY <3>1, <3>2
        <2>2. worker \in [pc : Places, today : 1..Today, nextTick : 1..(now + 2)]
            BY <1>1 DEF InitCheckout, Places
        <2>3. exchange_rates \in [Days -> {NoRow} \cup 1..now]
            BY DEF InitCheckout
        <2> QED BY <2>1, <2>2, <2>3 DEF CheckoutTypeOK, Places
    <1>3. FetchInProgress /\ RowsAreRecent /\ SleepIsShort
        BY DEF InitCheckout, FetchInProgress, RowsAreRecent, SleepIsShort
    <1> QED BY <1>2, <1>3 DEF RateInv

\* What a sleeping worker's invariant says of the present.
LEMMA SleepGivesFresh == RateInv => FreshRate
    <1> SUFFICES ASSUME RateInv, worker.pc = "sleep", ~fetchFailed
                 PROVE  DayOf(exchangeRateIDR) >= Today - 1
        BY DEF FreshRate
    <1>1. now \in Nat /\ worker.nextTick \in Nat /\ exchangeRateIDR \in Nat /\ now <= worker.nextTick
        BY CheckoutAssumption DEF RateInv, CheckoutTypeOK, Time, SleepIsShort
    <1>2. DayOf(now) <= DayOf(worker.nextTick) /\ DayOf(now) \in Nat
        BY <1>1, DayOrder
    <1>3. DayOf(worker.nextTick) \in Nat /\ DayOf(exchangeRateIDR) \in Nat
        BY <1>1, DayOrder
    <1>4. DayOf(exchangeRateIDR) >= DayOf(worker.nextTick) - 1
        BY DEF RateInv, SleepIsShort
    <1> QED BY <1>2, <1>3, <1>4 DEF Today

LEMMA LoadRateInv == RateInv /\ LoadRate => RateInv'
    <1> SUFFICES ASSUME RateInv, LoadRate PROVE RateInv'
        OBVIOUS
    <1>1. PICK fails \in BOOLEAN :
            LET found == ~fails /\ exchange_rates[Today] # NoRow IN
            /\ readFailed' = fails
            /\ fetchFailed' = fails
            /\ exchangeRateIDR' = IF found THEN exchange_rates[Today] ELSE exchangeRateIDR
            /\ worker' = IF found
                         THEN [worker EXCEPT !.pc = "sleep", !.today = Today, !.nextTick = NextTick]
                         ELSE [worker EXCEPT !.pc = "ask", !.today = Today]
        BY DEF LoadRate
    <1>2. UNCHANGED <<now, exchange_rates, lastInvoice>> /\ Today' = Today
        BY DEF LoadRate, Today
    <1>3. now \in Nat /\ now >= 1 /\ Today \in Nat /\ Today >= 1 /\ Today \in Days
        BY CheckoutAssumption, TodayIsADay, DayOrder DEF RateInv, CheckoutTypeOK, Time, Today
    <1>4. NextTick \in (now + 1)..(now + 2) /\ DayOf(NextTick) <= Today + 1
        BY <1>3, NextTickIsNear
    <1>5. exchange_rates[Today] \in {NoRow} \cup 1..now
        BY <1>3 DEF RateInv, CheckoutTypeOK
    <1>6. CheckoutTypeOK'
        <2>1. worker.today \in 1..Today /\ worker.nextTick \in 1..(now + 2) /\ NextTick \in 1..(now + 2)
            BY <1>3, <1>4 DEF RateInv, CheckoutTypeOK
        <2>2. worker' \in [pc : Places, today : 1..Today, nextTick : 1..(now + 2)]
            <3>1. worker' \in {[pc |-> "sleep", today |-> Today, nextTick |-> NextTick],
                              [pc |-> "ask", today |-> Today, nextTick |-> worker.nextTick]}
                BY <1>1 DEF RateInv, CheckoutTypeOK
            <3> QED BY <1>3, <2>1, <3>1 DEF Places
        <2>3. exchangeRateIDR' \in 0..now
            BY <1>1, <1>3, <1>5 DEF RateInv, CheckoutTypeOK
        <2> QED BY <1>1, <1>2, <2>2, <2>3 DEF RateInv, CheckoutTypeOK, Places
    <1>7. CASE ~fails /\ exchange_rates[Today] # NoRow
        <2>1. worker'.pc = "sleep" /\ worker'.nextTick = NextTick /\ exchangeRateIDR' = exchange_rates[Today]
            BY <1>1, <1>7 DEF RateInv, CheckoutTypeOK
        <2>2. DayOf(exchange_rates[Today]) >= Today
            BY <1>3, <1>7 DEF RateInv, RowsAreRecent
        <2>3. DayOf(exchange_rates[Today]) \in Nat /\ DayOf(NextTick) \in Nat
            BY <1>3, <1>4, <1>5, <1>7, DayOrder DEF NoRow
        <2>4. SleepIsShort'
            BY <1>2, <1>3, <1>4, <2>1, <2>2, <2>3 DEF SleepIsShort, DayOf
        <2> QED BY <1>2, <1>6, <2>1, <2>4 DEF RateInv, FetchInProgress, RowsAreRecent, DayOf
    <1>8. CASE fails \/ exchange_rates[Today] = NoRow
        <2>1. worker'.pc = "ask" /\ worker'.today = Today
            BY <1>1, <1>8 DEF RateInv, CheckoutTypeOK
        <2> QED BY <1>1, <1>2, <1>6, <1>8, <2>1 DEF RateInv, FetchInProgress, RowsAreRecent, SleepIsShort, DayOf
    <1> QED BY <1>7, <1>8

LEMMA ReceiveQuoteInv == RateInv /\ ReceiveQuote => RateInv'
    <1> SUFFICES ASSUME RateInv, ReceiveQuote PROVE RateInv'
        OBVIOUS
    <1>1. Today' = Today /\ now \in Nat
        BY CheckoutAssumption DEF ReceiveQuote, Today, RateInv, CheckoutTypeOK, Time
    <1>2. CheckoutTypeOK'
        BY <1>1 DEF RateInv, CheckoutTypeOK, ReceiveQuote
    <1>3. FetchInProgress' /\ RowsAreRecent' /\ SleepIsShort'
        BY DEF RateInv, CheckoutTypeOK, ReceiveQuote, FetchInProgress, RowsAreRecent, SleepIsShort, DayOf
    <1> QED BY <1>2, <1>3 DEF RateInv

LEMMA QuoteFailsInv == RateInv /\ QuoteFails => RateInv'
    <1> SUFFICES ASSUME RateInv, QuoteFails PROVE RateInv'
        OBVIOUS
    <1>1. Today' = Today /\ now \in Nat /\ now >= 1
        BY CheckoutAssumption DEF QuoteFails, Today, RateInv, CheckoutTypeOK, Time
    <1>2. NextTick \in (now + 1)..(now + 2)
        BY <1>1, NextTickIsNear
    <1>3. CheckoutTypeOK'
        <2>1. worker' \in [pc : Places, today : 1..Today, nextTick : 1..(now + 2)]
            <3>1. worker' = [pc |-> "sleep", today |-> worker.today, nextTick |-> NextTick]
                BY DEF RateInv, CheckoutTypeOK, QuoteFails
            <3>2. worker.today \in 1..Today /\ NextTick \in 1..(now + 2)
                BY <1>1, <1>2 DEF RateInv, CheckoutTypeOK
            <3> QED BY <3>1, <3>2 DEF Places
        <2> QED BY <1>1, <2>1 DEF RateInv, CheckoutTypeOK, QuoteFails, Places
    <1>4. FetchInProgress' /\ RowsAreRecent' /\ SleepIsShort'
        BY <1>1, <1>2 DEF RateInv, CheckoutTypeOK, QuoteFails, FetchInProgress, RowsAreRecent, SleepIsShort, DayOf
    <1> QED BY <1>3, <1>4 DEF RateInv

LEMMA SaveExchangeRateInv == RateInv /\ SaveExchangeRate => RateInv'
    <1> SUFFICES ASSUME RateInv, SaveExchangeRate PROVE RateInv'
        OBVIOUS
    <1>1. now \in Nat /\ now >= 1 /\ Today' = Today /\ Today \in Nat
        BY CheckoutAssumption, DayOrder DEF SaveExchangeRate, Today, RateInv, CheckoutTypeOK, Time
    <1>2. NextTick \in (now + 1)..(now + 2) /\ DayOf(NextTick) <= Today + 1 /\ DayOf(NextTick) \in Nat
        BY <1>1, NextTickIsNear, DayOrder
    <1>3. /\ worker.today \in Days /\ worker.today \in 1..Today
          /\ exchangeRateIDR = now
          /\ worker' = [worker EXCEPT !.pc = "sleep", !.nextTick = NextTick]
          /\ UNCHANGED <<now, exchangeRateIDR, readFailed>>
        BY TodayIsADay DEF SaveExchangeRate, RateInv, CheckoutTypeOK, FetchInProgress
    <1>4. \/ exchange_rates' = [exchange_rates EXCEPT ![worker.today] = exchangeRateIDR] /\ fetchFailed' = fetchFailed
          \/ exchange_rates' = exchange_rates /\ fetchFailed' = TRUE
        BY DEF SaveExchangeRate
    <1>5. CheckoutTypeOK'
        <2>1. worker' \in [pc : Places, today : 1..Today, nextTick : 1..(now + 2)]
            <3>1. worker' = [pc |-> "sleep", today |-> worker.today, nextTick |-> NextTick]
                BY <1>3 DEF RateInv, CheckoutTypeOK
            <3>2. NextTick \in 1..(now + 2)
                BY <1>1, <1>2
            <3> QED BY <1>3, <3>1, <3>2 DEF Places
        <2>2. exchange_rates' \in [Days -> {NoRow} \cup 1..now]
            BY <1>1, <1>3, <1>4 DEF RateInv, CheckoutTypeOK
        <2> QED BY <1>1, <1>3, <1>4, <2>1, <2>2 DEF RateInv, CheckoutTypeOK, Places
    <1>6. RowsAreRecent'
        BY <1>1, <1>3, <1>4 DEF RateInv, CheckoutTypeOK, RowsAreRecent, Today, DayOf
    <1>7. SleepIsShort' /\ FetchInProgress'
        BY <1>1, <1>2, <1>3 DEF RateInv, CheckoutTypeOK, SleepIsShort, FetchInProgress, Today, DayOf
    <1> QED BY <1>5, <1>6, <1>7 DEF RateInv

LEMMA WakeUpInv == RateInv /\ WakeUp => RateInv'
    BY DEF RateInv, CheckoutTypeOK, WakeUp, FetchInProgress, RowsAreRecent, SleepIsShort, DayOf, Today

LEMMA CheckoutsInv == RateInv /\ (CreateCheckout \/ CreateTopupCheckout) => RateInv'
    <1> SUFFICES ASSUME RateInv, CreateCheckout \/ CreateTopupCheckout PROVE RateInv'
        OBVIOUS
    <1>1. UNCHANGED <<now, exchangeRateIDR, worker, exchange_rates, readFailed, fetchFailed>>
        BY DEF CreateCheckout, CreateTopupCheckout
    <1> QED BY <1>1 DEF RateInv, CheckoutTypeOK, FetchInProgress, RowsAreRecent, SleepIsShort, DayOf, Today

LEMMA TickInv == RateInv /\ Tick => RateInv'
    <1> SUFFICES ASSUME RateInv, Tick PROVE RateInv'
        OBVIOUS
    <1>1. /\ now \in Nat /\ now >= 1 /\ now < MaxNow /\ MaxNow \in Nat /\ now' = now + 1
          /\ UNCHANGED <<exchangeRateIDR, worker, exchange_rates, lastInvoice, readFailed, fetchFailed>>
          /\ worker.pc = "sleep" => now < worker.nextTick
        BY CheckoutAssumption DEF Tick, RateInv, CheckoutTypeOK, Time
    <1>2. Today \in Nat /\ Today' \in Nat /\ Today <= Today'
        BY <1>1, DayOrder DEF Today
    <1>3. CheckoutTypeOK'
        BY <1>1, <1>2 DEF RateInv, CheckoutTypeOK, Time
    <1>4. worker.pc # "save" /\ worker.nextTick \in Nat
        BY <1>1 DEF Tick, RateInv, CheckoutTypeOK
    <1>5. FetchInProgress' /\ RowsAreRecent' /\ SleepIsShort'
        BY <1>1, <1>4 DEF RateInv, FetchInProgress, RowsAreRecent, SleepIsShort, DayOf
    <1> QED BY <1>3, <1>5 DEF RateInv

LEMMA StopsInv == RateInv /\ (Crash \/ Restart) => RateInv'
    <1> SUFFICES ASSUME RateInv, Crash \/ Restart PROVE RateInv'
        OBVIOUS
    <1>1. /\ UNCHANGED <<now, exchange_rates, readFailed, fetchFailed>>
          /\ \/ worker' = [worker EXCEPT !.pc = "off"]
             \/ worker' = [worker EXCEPT !.pc = "fetch"]
          /\ exchangeRateIDR' \in {exchangeRateIDR, Fallback}
        BY DEF Crash, Restart
    <1>2. Today' = Today /\ now \in Nat
        BY <1>1, CheckoutAssumption DEF Today, RateInv, CheckoutTypeOK, Time
    <1>3. worker'.pc \in {"off", "fetch"} /\ CheckoutTypeOK'
        BY <1>1, <1>2 DEF RateInv, CheckoutTypeOK, Fallback
    <1> QED BY <1>1, <1>3 DEF RateInv, FetchInProgress, RowsAreRecent, SleepIsShort, DayOf

LEMMA NextRateInv == RateInv /\ [NextCheckout]_checkoutVars => RateInv'
    <1> SUFFICES ASSUME RateInv, [NextCheckout]_checkoutVars PROVE RateInv'
        OBVIOUS
    <1>1. CASE LoadRate BY <1>1, LoadRateInv
    <1>2. CASE ReceiveQuote BY <1>2, ReceiveQuoteInv
    <1>3. CASE QuoteFails BY <1>3, QuoteFailsInv
    <1>4. CASE SaveExchangeRate BY <1>4, SaveExchangeRateInv
    <1>5. CASE WakeUp BY <1>5, WakeUpInv
    <1>6. CASE CreateCheckout \/ CreateTopupCheckout BY <1>6, CheckoutsInv
    <1>7. CASE Tick BY <1>7, TickInv
    <1>8. CASE Crash \/ Restart BY <1>8, StopsInv
    <1>9. CASE UNCHANGED checkoutVars
        BY <1>9 DEF checkoutVars, RateInv, CheckoutTypeOK, FetchInProgress, RowsAreRecent, SleepIsShort, DayOf, Today
    <1> QED BY <1>1, <1>2, <1>3, <1>4, <1>5, <1>6, <1>7, <1>8, <1>9 DEF NextCheckout

LEMMA RateInductive == SpecCheckout => []RateInv
    BY InitRateInv, NextRateInv, PTL DEF SpecCheckout

\* No rate is of the future, and the worker's date and wake-up stay in range.
THEOREM CheckoutTypeCorrect == SpecCheckout => []CheckoutTypeOK
    <1>1. RateInv => CheckoutTypeOK
        BY DEF RateInv
    <1> QED BY <1>1, RateInductive, PTL

\* FreshRate: the age of the rate shown is bounded for any number of days,
\* restarts and slow answers.
THEOREM RateIsFresh == SpecCheckout => []FreshRate
    BY SleepGivesFresh, RateInductive, PTL

\* RowKeepsItsRate: the row of a day is settled once, unless it could not be read.
THEOREM RowIsSettled == SpecCheckout => RowKeepsItsRate
    <1>1. ASSUME RateInv, [NextCheckout]_checkoutVars,
                 NEW d \in Days, exchange_rates[d] # NoRow, exchange_rates'[d] # exchange_rates[d]
          PROVE  readFailed
        <2>1. SaveExchangeRate
            BY <1>1 DEF NextCheckout, checkoutVars, LoadRate, ReceiveQuote, QuoteFails, WakeUp, CreateCheckout,
                        CreateTopupCheckout, Tick, Crash, Restart
        <2>2. worker.pc = "save" /\ d = worker.today
            BY <1>1, <2>1 DEF SaveExchangeRate, RateInv, CheckoutTypeOK
        <2> QED BY <1>1, <2>2 DEF RateInv, FetchInProgress
    <1>2. RateInv /\ [NextCheckout]_checkoutVars =>
            [\A d \in Days : exchange_rates[d] # NoRow /\ exchange_rates'[d] # exchange_rates[d]
                             => readFailed]_checkoutVars
        BY <1>1
    <1> QED BY <1>2, RateInductive, PTL DEF SpecCheckout, RowKeepsItsRate

\* TopupAsBillingPageSays: whatever amounts are requested and however the rate moves,
\* an invoice buys the largest tier that was paid for.
THEOREM TopupsBuyTheirTier == SpecCheckout => []TopupAsBillingPageSays
    <1>1. InitCheckout => TopupAsBillingPageSays
        BY DEF InitCheckout, NoInvoice, TopupAsBillingPageSays
    <1>2. ASSUME TopupAsBillingPageSays, [NextCheckout]_checkoutVars PROVE TopupAsBillingPageSays'
        <2>1. CASE CreateTopupCheckout
            <3>1. PICK req \in TopupRequests, rate \in CheckoutRates :
                    lastInvoice' = [kind |-> "topup", rate |-> rate, req |-> req,
                                amount_idr |-> AmountIDR(req, rate),
                                bytes_added |-> TopupBytes(req.usd, req.amount)]
                BY <2>1 DEF CreateTopupCheckout
            <3>2. req \in [usd : BOOLEAN, amount : Nat]
                BY CheckoutAssumption
            <3>3. lastInvoice'.req = req /\ lastInvoice'.bytes_added = TopupBytes(req.usd, req.amount)
                BY <3>1
            <3>4. CASE req.usd
                <4>1. TopupBytes(req.usd, req.amount) =
                        CASE req.amount >= 999 -> 5120
                          [] req.amount >= 899 /\ ~(req.amount >= 999) -> 3072
                          [] req.amount >= 699 /\ ~(req.amount >= 899) -> 1536
                          [] OTHER -> 1024
                    BY <3>4 DEF TopupBytes
                <4>2. TopupBytes(req.usd, req.amount) =
                        IF req.amount >= 999 THEN 5120
                        ELSE IF req.amount >= 899 THEN 3072
                        ELSE IF req.amount >= 699 THEN 1536 ELSE 1024
                    BY <3>2, <4>1
                <4>3. \A tier \in Tiers : req.amount >= tier.usd => tier.mb <= TopupBytes(req.usd, req.amount)
                    BY <3>2, <4>2 DEF Tiers
                <4>4. TopupBytes(req.usd, req.amount) = 1024
                        \/ \E tier \in Tiers : req.amount >= tier.usd /\ tier.mb = TopupBytes(req.usd, req.amount)
                    BY <3>2, <4>2 DEF Tiers
                <4>5. req.usd = TRUE
                    BY <3>2, <3>4
                <4> QED BY <3>3, <4>3, <4>4, <4>5 DEF TopupAsBillingPageSays
            <3>5. CASE ~req.usd
                <4>1. TopupBytes(req.usd, req.amount) =
                        CASE req.amount >= 50000 -> 5120
                          [] req.amount >= 40000 /\ ~(req.amount >= 50000) -> 3072
                          [] req.amount >= 30000 /\ ~(req.amount >= 40000) -> 1536
                          [] OTHER -> 1024
                    BY <3>5 DEF TopupBytes
                <4>2. TopupBytes(req.usd, req.amount) =
                        IF req.amount >= 50000 THEN 5120
                        ELSE IF req.amount >= 40000 THEN 3072
                        ELSE IF req.amount >= 30000 THEN 1536 ELSE 1024
                    BY <3>2, <4>1
                <4>3. \A tier \in Tiers : req.amount >= tier.idr => tier.mb <= TopupBytes(req.usd, req.amount)
                    BY <3>2, <4>2 DEF Tiers
                <4>4. TopupBytes(req.usd, req.amount) = 1024
                        \/ \E tier \in Tiers : req.amount >= tier.idr /\ tier.mb = TopupBytes(req.usd, req.amount)
                    BY <3>2, <4>2 DEF Tiers
                <4> QED BY <3>3, <3>5, <4>3, <4>4 DEF TopupAsBillingPageSays
            <3> QED BY <3>2, <3>4, <3>5
        <2>2. CASE CreateCheckout
            <3>1. lastInvoice'.kind = "plan"
                BY <2>2 DEF CreateCheckout
            <3> QED BY <3>1 DEF TopupAsBillingPageSays
        <2>3. CASE ~CreateTopupCheckout /\ ~CreateCheckout
            <3>1. lastInvoice' = lastInvoice
                BY <1>2, <2>3 DEF NextCheckout, checkoutVars, LoadRate, ReceiveQuote, QuoteFails, SaveExchangeRate,
                                  WakeUp, Tick, Crash, Restart
            <3> QED BY <1>2, <3>1 DEF TopupAsBillingPageSays
        <2> QED BY <2>1, <2>2, <2>3
    <1> QED BY <1>1, <1>2, PTL DEF SpecCheckout

\* No row is ahead of the worker's date, and a worker that sleeps after a fetch
\* without a failure has in memory what the row of its date says.
ShownInv ==
    /\ \A d \in Days : d > worker.today => exchange_rates[d] = NoRow
    /\ worker.pc = "sleep" /\ ~fetchFailed
         => exchange_rates[worker.today] \in {NoRow, exchangeRateIDR}

LEMMA ShownInvInit == InitCheckout => ShownInv
    BY DEF InitCheckout, ShownInv

LEMMA ShownInvNext == RateInv /\ ShownInv /\ [NextCheckout]_checkoutVars => ShownInv'
    <1> SUFFICES ASSUME RateInv, ShownInv, [NextCheckout]_checkoutVars PROVE ShownInv'
        OBVIOUS
    <1>1. /\ now \in Nat /\ now >= 1 /\ Today \in Nat /\ Today \in Days
          /\ worker.today \in Nat /\ worker.today <= Today /\ worker.today \in Days
          /\ worker \in [pc : Places, today : 1..Today, nextTick : 1..(now + 2)]
          /\ exchange_rates \in [Days -> {NoRow} \cup 1..now]
        <2>1. now \in Nat /\ now >= 1 /\ CheckoutTypeOK
            BY CheckoutAssumption DEF RateInv, CheckoutTypeOK, Time
        <2>2. Today \in Nat /\ Today \in Days /\ \A d \in 1..Today : d \in Days
            BY <2>1, DayOrder, TodayIsADay DEF Today
        <2> QED BY <2>1, <2>2 DEF CheckoutTypeOK, Places
    <1>2. CASE LoadRate
        <2>1. PICK fails \in BOOLEAN :
                LET found == ~fails /\ exchange_rates[Today] # NoRow IN
                /\ fetchFailed' = fails
                /\ exchangeRateIDR' = IF found THEN exchange_rates[Today] ELSE exchangeRateIDR
                /\ worker' = IF found
                             THEN [worker EXCEPT !.pc = "sleep", !.today = Today, !.nextTick = NextTick]
                             ELSE [worker EXCEPT !.pc = "ask", !.today = Today]
            BY <1>2 DEF LoadRate
        <2>2. UNCHANGED exchange_rates
            BY <1>2 DEF LoadRate
        <2>3. CASE ~fails /\ exchange_rates[Today] # NoRow
            <3>1. worker' = [worker EXCEPT !.pc = "sleep", !.today = Today, !.nextTick = NextTick]
                BY <2>1, <2>3
            <3>2. worker'.today = Today /\ exchangeRateIDR' = exchange_rates[Today]
                BY <1>1, <2>1, <2>3, <3>1
            <3> QED BY <1>1, <2>2, <3>2 DEF ShownInv, Days
        <2>4. CASE fails \/ exchange_rates[Today] = NoRow
            <3>1. worker' = [worker EXCEPT !.pc = "ask", !.today = Today]
                BY <2>1, <2>4
            <3>2. worker'.today = Today /\ worker'.pc = "ask"
                BY <1>1, <3>1
            <3> QED BY <1>1, <2>2, <3>2 DEF ShownInv, Days
        <2> QED BY <2>3, <2>4
    <1>3. CASE SaveExchangeRate
        <2>1. /\ worker'.today = worker.today /\ UNCHANGED exchangeRateIDR
              /\ \/ exchange_rates' = [exchange_rates EXCEPT ![worker.today] = exchangeRateIDR]
                 \/ fetchFailed' = TRUE /\ UNCHANGED exchange_rates
            BY <1>1, <1>3 DEF SaveExchangeRate
        <2>2. ASSUME NEW d \in Days, d > worker.today PROVE exchange_rates'[d] = NoRow
            <3>1. d # worker.today /\ exchange_rates[d] = NoRow
                BY <1>1, <2>2 DEF ShownInv, Days
            <3> QED BY <1>1, <2>1, <2>2, <3>1
        <2>3. fetchFailed' = TRUE \/ exchange_rates'[worker'.today] = exchangeRateIDR'
            BY <1>1, <2>1
        <2> QED BY <2>1, <2>2, <2>3 DEF ShownInv
    <1>4. CASE ReceiveQuote
        BY <1>1, <1>4 DEF ReceiveQuote, ShownInv
    <1>5. CASE QuoteFails
        BY <1>1, <1>5 DEF QuoteFails, ShownInv
    <1>6. CASE WakeUp
        BY <1>1, <1>6 DEF WakeUp, ShownInv
    <1>7. CASE CreateCheckout \/ CreateTopupCheckout
        <2>1. UNCHANGED <<exchangeRateIDR, worker, exchange_rates, fetchFailed>>
            BY <1>7 DEF CreateCheckout, CreateTopupCheckout
        <2> QED BY <2>1 DEF ShownInv
    <1>8. CASE Tick
        BY <1>8 DEF Tick, ShownInv
    <1>9. CASE Crash
        BY <1>1, <1>9 DEF Crash, ShownInv
    <1>10. CASE Restart
        BY <1>1, <1>10 DEF Restart, ShownInv
    <1>11. CASE UNCHANGED checkoutVars
        BY <1>11 DEF checkoutVars, ShownInv
    <1> QED BY <1>2, <1>3, <1>4, <1>5, <1>6, <1>7, <1>8, <1>9, <1>10, <1>11 DEF NextCheckout

LEMMA ShownAlways == SpecCheckout => []ShownInv
    BY ShownInvInit, ShownInvNext, RateInductive, PTL DEF SpecCheckout

LEMMA LargestIsNat == LargestUSD \in Nat
    BY DEF LargestUSD

\* The discount of the backend is the one of the page, for the durations it offers,
\* and so is the price, without a sale.
LEMMA SamePrice ==
    ASSUME NEW plan \in PlanType, PricedInUSD(plan), NEW months \in {1, 6, 12, 24}, NEW rate
    PROVE  PlanPrice(plan, months, rate) = PageTotal(plan, months, rate)
    <1>1. BaseMonthlyPrice(plan, rate) = plan.price_monthly * IDR(rate)
        <2>1. plan.price_monthly \in 1..LargestUSD /\ ~(plan.price_monthly > LargestUSD)
            BY LargestIsNat DEF PricedInUSD
        <2> QED BY <2>1 DEF BaseMonthlyPrice
    <1>2. plan.discount6 \in Nat /\ plan.discount12 \in Nat /\ plan.discount24 \in Nat
        BY DEF PlanType
    <1>3. BasePriceUSD(plan) = plan.price_monthly
        <2>1. plan.price_monthly \in Nat /\ plan.price_usd \in {0, plan.price_monthly} /\ plan.promo_price_usd = 0
            BY LargestIsNat DEF PricedInUSD
        <2>2. CASE plan.price_usd > 0
            BY <2>1, <2>2 DEF BasePriceUSD
        <2>3. CASE ~(plan.price_usd > 0)
            BY <2>1, <2>3 DEF BasePriceUSD
        <2> QED BY <2>2, <2>3
    <1>4. Discount(plan, months) = PageDiscount(plan, months)
        <2>1. CASE months = 1
            BY <2>1 DEF Discount, PageDiscount
        <2>2. CASE months = 6
            <3>1. Discount(plan, months) = IF plan.discount6 = 0 THEN 10 ELSE plan.discount6
                BY <2>2 DEF Discount, OrDefault
            <3>2. PageDiscount(plan, months) = IF plan.discount6 > 0 THEN plan.discount6 ELSE 10
                BY <2>2 DEF PageDiscount
            <3> QED BY <1>2, <3>1, <3>2
        <2>3. CASE months = 12
            <3>1. Discount(plan, months) = IF plan.discount12 = 0 THEN 20 ELSE plan.discount12
                BY <2>3 DEF Discount, OrDefault
            <3>2. PageDiscount(plan, months) = IF plan.discount12 > 0 THEN plan.discount12 ELSE 20
                BY <2>3 DEF PageDiscount
            <3> QED BY <1>2, <3>1, <3>2
        <2>4. CASE months = 24
            <3>1. Discount(plan, months) = IF plan.discount24 = 0 THEN 35 ELSE plan.discount24
                BY <2>4 DEF Discount, OrDefault
            <3>2. PageDiscount(plan, months) = IF plan.discount24 > 0 THEN plan.discount24 ELSE 35
                BY <2>4 DEF PageDiscount
            <3> QED BY <1>2, <3>1, <3>2
        <2> QED BY <2>1, <2>2, <2>3, <2>4
    <1>5. /\ PlanPrice(plan, months, rate)
               = Percent(plan.price_monthly * IDR(rate) * months, 100 - Discount(plan, months)) \div 100
          /\ PageTotal(plan, months, rate)
               = Percent(plan.price_monthly * IDR(rate) * months,
                         100 - PageDiscount(plan, months)) \div 100
        BY <1>1, <1>3 DEF PlanPrice, PageTotal
    <1> QED BY <1>4, <1>5, Zenon

\* ChargedAsShown: for any number of days, any quotes and any prices and discounts,
\* what the plan page shows of a plan that is not on sale, at the rate in memory, is
\* what the checkout charges by the row of the day.
THEOREM ShownIsCharged == SpecCheckout => ChargedAsShown
    <1>1. ASSUME RateInv, ShownInv, [NextCheckout]_checkoutVars,
                 lastInvoice' # lastInvoice, lastInvoice'.kind = "plan", lastInvoice'.rate # Fallback,
                 worker.pc = "sleep", ~fetchFailed,
                 PricedInUSD(lastInvoice'.plan), lastInvoice'.months \in {1, 6, 12, 24}
          PROVE  lastInvoice'.price = PageTotal(lastInvoice'.plan, lastInvoice'.months, exchangeRateIDR)
        <2>1. CASE CreateCheckout
            <3>1. PICK plan \in Plans, duration_months \in Durations, rate \in CheckoutRates :
                    lastInvoice' = [kind |-> "plan", rate |-> rate, plan |-> plan,
                                    months |-> IF duration_months = 0 THEN 1 ELSE duration_months,
                                    price |-> PlanPrice(plan, IF duration_months = 0 THEN 1 ELSE duration_months, rate)]
                BY <2>1 DEF CreateCheckout
            <3> DEFINE months == IF duration_months = 0 THEN 1 ELSE duration_months
            <3>2. /\ lastInvoice'.rate = rate /\ lastInvoice'.plan = plan /\ lastInvoice'.months = months
                  /\ lastInvoice'.price = PlanPrice(plan, months, rate)
                BY <3>1
            <3>3. rate = exchange_rates[Today] /\ rate # NoRow
                BY <1>1, <3>2 DEF CheckoutRates
            <3>4. worker.today = Today
                <4>1. Today \in Days /\ worker.today \in 1..Today /\ Today \in Nat
                    BY <1>1, TodayIsADay DEF RateInv, CheckoutTypeOK, Days
                <4> QED BY <1>1, <3>3, <4>1 DEF ShownInv
            <3>5. rate = exchangeRateIDR
                BY <1>1, <3>3, <3>4 DEF ShownInv
            <3>6. plan \in PlanType
                BY CheckoutAssumption
            <3>7. PlanPrice(plan, months, rate) = PageTotal(plan, months, rate)
                <4> HIDE DEF months
                <4> QED BY <1>1, <3>2, <3>6, SamePrice
            <3> QED BY <3>2, <3>5, <3>7
        <2>2. CASE CreateTopupCheckout
            <3>1. lastInvoice'.kind = "topup"
                BY <2>2 DEF CreateTopupCheckout
            <3> QED BY <1>1, <3>1
        <2>3. CASE ~CreateTopupCheckout /\ ~CreateCheckout
            BY <1>1, <2>3 DEF NextCheckout, checkoutVars, LoadRate, ReceiveQuote, QuoteFails,
                              SaveExchangeRate, WakeUp, Tick, Crash, Restart
        <2> QED BY <2>1, <2>2, <2>3
    <1>2. RateInv /\ ShownInv /\ [NextCheckout]_checkoutVars =>
            [ /\ lastInvoice' # lastInvoice /\ lastInvoice'.kind = "plan" /\ lastInvoice'.rate # Fallback
              /\ worker.pc = "sleep" /\ ~fetchFailed
              /\ PricedInUSD(lastInvoice'.plan) /\ lastInvoice'.months \in {1, 6, 12, 24}
              => lastInvoice'.price = PageTotal(lastInvoice'.plan, lastInvoice'.months, exchangeRateIDR)]_checkoutVars
        BY <1>1
    <1> QED BY <1>2, RateInductive, ShownAlways, PTL DEF SpecCheckout, ChargedAsShown

-----------------------------------------------------------------------------
(* PaymentWebhook                                                           *)

(* Where a handler can be with which source, and what it has then done.     *)

\* The two transactions are entered by the invoices they are for.
HandlerSource(c) ==
  /\ call[c].pc \in {"record", "commit topup"} =>
       call[c].source \in Topup /\ invoice[call[c].source] = "PAID"
  /\ call[c].pc \in {"delete", "deleting", "commit plan"} =>
       call[c].source \in Plan \cup {Simulated}

\* A handler about to answer for a paid topup has committed it.
HandlerDone(c) ==
  call[c].pc = "answer" /\ call[c].source \in Topup /\ invoice[call[c].source] = "PAID"
    => entries[call[c].source] > 0

\* Only settled invoices are announced, so none is settled behind a handler's back.
NotifiedIsSettled ==
  /\ \A i \in answered : invoice[i] \in {"PAID", "EXPIRED"}
  /\ \A c \in Call : call[c].pc # "idle" /\ call[c].source # Simulated
       => invoice[call[c].source] \in {"PAID", "EXPIRED"}

HandlerInv ==
  /\ \A c \in Call : HandlerSource(c) /\ HandlerDone(c)
  /\ NotifiedIsSettled

IInv == TypeOK /\ HandlerInv /\ AnsweredIsEntered

-----------------------------------------------------------------------------
(* The next-state relation, spelled out for the case splits. *)
LEMMA NextCases ==
  ASSUME Next
  PROVE  \/ NoRequest
         \/ \E i \in Invoice : Checkout(i)
         \/ \E i \in Invoice : Settle(i, "PAID") \/ Settle(i, "EXPIRED")
         \/ \E c \in Call, i \in Invoice : Notify(c, i)
         \/ \E c \in Call : SimulateWebhook(c)
         \/ \E c \in Call : RecordTopup(c)
         \/ \E c \in Call : CommitTopup(c)
         \/ \E c \in Call : StartDelete(c)
         \/ \E c \in Call : FinishDelete(c)
         \/ \E c \in Call : CommitPlan(c)
         \/ \E c \in Call : Answer(c)
         \/ \E c \in Call : Rollback(c)
         \/ \E c \in Call : LoseAnswer(c)
BY DEF Next, Handler

LEMMA InitIInv == Init => IInv
<1> SUFFICES ASSUME Init PROVE IInv
  OBVIOUS
<1>1. IdleCall \in CallState /\ IdleCall.pc = "idle"
  BY DEF IdleCall, CallState, Source
<1>2. TypeOK
  BY <1>1 DEF Init, TypeOK
<1>3. answered = {} /\ \A c \in Call : call[c].pc = "idle"
  BY <1>1 DEF Init
<1> QED
  BY <1>2, <1>3 DEF IInv, HandlerInv, HandlerSource, HandlerDone, NotifiedIsSettled,
     AnsweredIsEntered

LEMMA TypeStep == IInv /\ [Next]_vars => TypeOK'
<1> SUFFICES ASSUME IInv, [Next]_vars PROVE TypeOK'
  OBVIOUS
<1> USE PaymentAssumption DEF IInv
<1>0. IdleCall \in CallState
  BY DEF IdleCall, CallState, Source
<1>1. CASE UNCHANGED vars
  BY <1>1 DEF TypeOK, vars, xenditVars, quotaVars
<1>2. CASE NoRequest
  BY <1>2 DEF NoRequest, TypeOK, vars, xenditVars, quotaVars
<1>3. ASSUME NEW i \in Invoice, Checkout(i) PROVE TypeOK'
  BY <1>3 DEF Checkout, TypeOK, quotaVars
<1>4. ASSUME NEW i \in Invoice, Settle(i, "PAID") \/ Settle(i, "EXPIRED") PROVE TypeOK'
  BY <1>4 DEF Settle, TypeOK, quotaVars
<1>5. ASSUME NEW c \in Call, NEW i \in Invoice, Notify(c, i) PROVE TypeOK'
  <2>1. sent[i] + 1 \in Nat /\ sent' \in [Source -> Nat]
    BY <1>5 DEF Notify, TypeOK, Source
  <2>2. [IdleCall EXCEPT !.pc = FirstStep(i), !.source = i, !.number = sent[i] + 1] \in CallState
    BY <2>1 DEF FirstStep, CallState, IdleCall, Source
  <2> QED
    BY <1>5, <2>1, <2>2 DEF Notify, TypeOK, quotaVars
<1>6. ASSUME NEW c \in Call, SimulateWebhook(c) PROVE TypeOK'
  <2>1. sent[Simulated] + 1 \in Nat /\ sent' \in [Source -> Nat]
    BY <1>6 DEF SimulateWebhook, TypeOK, Source
  <2>2. [IdleCall EXCEPT !.pc = "delete", !.source = Simulated,
                         !.number = sent[Simulated] + 1] \in CallState
    BY <2>1 DEF CallState, IdleCall, Source
  <2> QED
    BY <1>6, <2>1, <2>2 DEF SimulateWebhook, TypeOK, quotaVars
<1>7. ASSUME NEW c \in Call, RecordTopup(c) PROVE TypeOK'
  BY <1>7 DEF RecordTopup, TypeOK, xenditVars, CallState
<1>8. ASSUME NEW c \in Call, CommitTopup(c) PROVE TypeOK'
  <2>1. call[c].source \in Topup
    BY <1>8 DEF CommitTopup, HandlerInv, HandlerSource
  <2>2. entries' \in [Topup -> Nat]
    <3>1. entries \in [Topup -> Nat] /\ entries[call[c].source] + 1 \in Nat
      BY <2>1 DEF TypeOK
    <3>2. entries' = [entries EXCEPT ![call[c].source] = entries[call[c].source] + 1]
      BY <1>8 DEF CommitTopup
    <3> QED
      BY <3>1, <3>2
  <2>4. purchased \in Nat /\ BytesAdded[call[c].source] \in Nat
    BY <2>1 DEF TypeOK
  <2>5. purchased' \in Nat
    <3>1. purchased' = purchased + BytesAdded[call[c].source]
      BY <1>8 DEF CommitTopup
    <3> QED
      BY <2>4, <3>1
  <2>3. call' \in [Call -> CallState]
    BY <1>8 DEF CommitTopup, TypeOK, CallState
  <2> QED
    BY <1>8, <2>2, <2>3, <2>5 DEF CommitTopup, TypeOK, xenditVars
<1>9. ASSUME NEW c \in Call, StartDelete(c) PROVE TypeOK'
  BY <1>9 DEF StartDelete, TypeOK, xenditVars, quotaVars, CallState
<1>10. ASSUME NEW c \in Call, FinishDelete(c) PROVE TypeOK'
  <2>1. call[c] \in CallState /\ call[c].seen \cap subs \in SUBSET SubscriptionRow
    BY <1>10 DEF TypeOK
  <2>2. call'[c] = [call[c] EXCEPT !.pc = "commit plan", !.seen = {},
                                   !.gone = call[c].seen \cap subs]
    BY <1>10 DEF FinishDelete, TypeOK
  <2>3. call'[c] \in CallState /\ call' = [call EXCEPT ![c] = call'[c]]
    BY <1>10, <2>1, <2>2 DEF FinishDelete, TypeOK, CallState
  <2> QED
    BY <1>10, <2>3 DEF FinishDelete, TypeOK, xenditVars, quotaVars
<1>11. ASSUME NEW c \in Call, CommitPlan(c) PROVE TypeOK'
  <2>1. call[c] \in CallState /\ call[c].source \in Plan \cup {Simulated}
    BY <1>11 DEF CommitPlan, TypeOK, HandlerInv, HandlerSource
  <2>2. [source |-> call[c].source, number |-> call[c].number] \in SubscriptionRow
    BY <2>1 DEF CallState, SubscriptionRow
  <2> QED
    BY <1>11, <2>1, <2>2 DEF CommitPlan, TypeOK, xenditVars, quotaVars, CallState
<1>12. ASSUME NEW c \in Call, Answer(c) PROVE TypeOK'
  <2>1. call[c].source \in Source
    BY <1>12 DEF TypeOK, CallState
  <2>2. answered' \in SUBSET Invoice /\ call' \in [Call -> CallState]
    BY <1>0, <1>12, <2>1 DEF Answer, TypeOK, Source
  <2> QED
    BY <1>12, <2>2 DEF Answer, TypeOK, quotaVars
<1>13. ASSUME NEW c \in Call, Rollback(c) PROVE TypeOK'
  BY <1>0, <1>13 DEF Rollback, TypeOK
<1>14. ASSUME NEW c \in Call, LoseAnswer(c) PROVE TypeOK'
  BY <1>0, <1>14 DEF LoseAnswer, TypeOK, quotaVars
<1> QED
  BY <1>1, <1>2, <1>3, <1>4, <1>5, <1>6, <1>7, <1>8, <1>9, <1>10, <1>11, <1>12, <1>13, <1>14,
     NextCases

(* A handler's record has the fields that EXCEPT changes. *)
LEMMA CallShape ==
  ASSUME TypeOK
  PROVE  /\ DOMAIN call = Call
         /\ \A c \in Call : DOMAIN call[c] = {"pc", "source", "number", "seen", "gone"}
BY DEF TypeOK, CallState

(* What is left to show of a step of one handler. *)
LEMMA HandlerFrame ==
  ASSUME IInv, NEW c \in Call,
         invoice' = invoice,
         \A d \in Call \ {c} : call'[d] = call[d],
         \A t \in Topup : entries[t] > 0 => entries'[t] > 0,
         call'[c].pc \in {"record", "commit topup"} =>
           call'[c].source \in Topup /\ invoice[call'[c].source] = "PAID",
         call'[c].pc \in {"delete", "deleting", "commit plan"} =>
           call'[c].source \in Plan \cup {Simulated},
         call'[c].pc = "answer" /\ call'[c].source \in Topup
           /\ invoice[call'[c].source] = "PAID" => entries'[call'[c].source] > 0,
         call'[c].pc # "idle" /\ call'[c].source # Simulated
           => invoice[call'[c].source] \in {"PAID", "EXPIRED"},
         \A i \in answered' : i \in answered
           \/ (i = call[c].source /\ call[c].pc = "answer" /\ i # Simulated)
  PROVE  HandlerInv' /\ AnsweredIsEntered'
<1>2. \A d \in Call : HandlerSource(d)'
  BY DEF IInv, HandlerInv, HandlerSource
<1>3. \A d \in Call : HandlerDone(d)'
  BY DEF IInv, HandlerInv, HandlerDone
<1>4. NotifiedIsSettled'
  BY DEF IInv, HandlerInv, NotifiedIsSettled
<1>5. AnsweredIsEntered'
  <2> SUFFICES ASSUME NEW t \in Topup, t \in answered', invoice[t] = "PAID" PROVE entries'[t] > 0
    BY DEF AnsweredIsEntered
  <2>1. entries[t] > 0
    BY DEF IInv, HandlerInv, HandlerDone, AnsweredIsEntered
  <2> QED
    BY <2>1
<1> QED
  BY <1>2, <1>3, <1>4, <1>5 DEF HandlerInv

LEMMA HandlerStep == IInv /\ [Next]_vars => HandlerInv' /\ AnsweredIsEntered'
<1> SUFFICES ASSUME IInv, [Next]_vars PROVE HandlerInv' /\ AnsweredIsEntered'
  OBVIOUS
<1> DEFINE Goal == HandlerInv' /\ AnsweredIsEntered'
<1>s. /\ DOMAIN call = Call
      /\ \A c \in Call : DOMAIN call[c] = {"pc", "source", "number", "seen", "gone"}
      /\ \A t \in Topup : entries[t] \in Nat
      /\ DOMAIN entries = Topup
  BY CallShape DEF IInv, TypeOK
<1>h. \A c \in Call : /\ HandlerSource(c) /\ HandlerDone(c)
                      /\ call[c].pc # "idle" /\ call[c].source # Simulated
                           => invoice[call[c].source] \in {"PAID", "EXPIRED"}
  BY DEF IInv, HandlerInv, NotifiedIsSettled
<1>1. CASE UNCHANGED vars \/ NoRequest
  BY <1>1 DEF NoRequest, vars, xenditVars, quotaVars, IInv, HandlerInv, HandlerSource,
     HandlerDone, NotifiedIsSettled, AnsweredIsEntered
<1>2. ASSUME NEW i \in Invoice, Checkout(i) \/ Settle(i, "PAID") \/ Settle(i, "EXPIRED")
      PROVE  Goal
  <2>1. /\ i \notin answered
        /\ \A c \in Call : call[c].pc # "idle" => call[c].source # i
    BY <1>2, PaymentAssumption DEF Checkout, Settle, IInv, HandlerInv, NotifiedIsSettled
  <2>2. /\ UNCHANGED <<call, entries, answered>>
        /\ \A j \in Invoice : j # i => invoice'[j] = invoice[j]
    BY <1>2 DEF Checkout, Settle, quotaVars, IInv, TypeOK
  <2>3. answered \subseteq Invoice /\ \A c \in Call : call[c].source \in Invoice \cup {Simulated}
    BY DEF IInv, TypeOK, CallState, Source
  <2> QED
    BY <2>1, <2>2, <2>3, PaymentAssumption DEF IInv, HandlerInv, HandlerSource, HandlerDone,
       NotifiedIsSettled, AnsweredIsEntered, Invoice
<1>3. ASSUME NEW c \in Call, NEW i \in Invoice, Notify(c, i) PROVE Goal
  <2>1. /\ call'[c].pc = FirstStep(i) /\ call'[c].source = i
        /\ \A d \in Call \ {c} : call'[d] = call[d]
    BY <1>s, <1>3 DEF Notify, IdleCall
  <2>2. UNCHANGED <<invoice, answered, entries>> /\ invoice[i] \in {"PAID", "EXPIRED"}
    BY <1>3 DEF Notify, quotaVars
  <2> QED
    BY <1>s, <2>1, <2>2, HandlerFrame DEF FirstStep, Invoice
<1>4. ASSUME NEW c \in Call, SimulateWebhook(c) PROVE Goal
  <2>1. /\ call'[c].pc = "delete" /\ call'[c].source = Simulated
        /\ \A d \in Call \ {c} : call'[d] = call[d]
    BY <1>s, <1>4 DEF SimulateWebhook, IdleCall
  <2>2. UNCHANGED <<invoice, answered, entries>>
    BY <1>4 DEF SimulateWebhook, quotaVars
  <2> QED
    BY <1>s, <2>1, <2>2, PaymentAssumption, HandlerFrame DEF Invoice
<1>5. ASSUME NEW c \in Call, Answer(c) \/ Rollback(c) \/ LoseAnswer(c) PROVE Goal
  <2>1. /\ call'[c].pc = "idle" /\ UNCHANGED <<invoice, entries>>
        /\ \A d \in Call \ {c} : call'[d] = call[d]
    BY <1>s, <1>5 DEF Answer, Rollback, LoseAnswer, IdleCall, quotaVars
  <2>2. \A i \in answered' : i \in answered
          \/ (i = call[c].source /\ call[c].pc = "answer" /\ i # Simulated)
    <3>1. CASE Answer(c)
      BY <3>1 DEF Answer
    <3>2. CASE Rollback(c) \/ LoseAnswer(c)
      BY <3>2 DEF Rollback, LoseAnswer
    <3> QED
      BY <1>5, <3>1, <3>2
  <2> QED
    BY <1>s, <2>1, <2>2, HandlerFrame
<1>6. ASSUME NEW c \in Call, RecordTopup(c) PROVE Goal
  <2>1. /\ call[c].pc = "record"
        /\ call'[c].pc = "commit topup" /\ call'[c].source = call[c].source
        /\ \A d \in Call \ {c} : call'[d] = call[d]
    BY <1>s, <1>6 DEF RecordTopup
  <2>2. UNCHANGED <<invoice, answered, entries>>
    BY <1>6 DEF RecordTopup, xenditVars
  <2> QED
    BY <1>s, <1>h, <2>1, <2>2, HandlerFrame DEF HandlerSource
<1>7. ASSUME NEW c \in Call, CommitTopup(c) PROVE Goal
  <2>1. /\ call[c].pc = "commit topup"
        /\ call'[c].pc = "answer" /\ call'[c].source = call[c].source
        /\ \A d \in Call \ {c} : call'[d] = call[d]
    BY <1>s, <1>7 DEF CommitTopup
  <2>2. UNCHANGED <<invoice, answered>> /\ call[c].source \in Topup
    BY <1>h, <1>7, <2>1 DEF CommitTopup, HandlerSource, xenditVars
  <2>3. entries' = [entries EXCEPT ![call[c].source] = @ + 1]
    BY <1>7 DEF CommitTopup
  <2>4. /\ \A t \in Topup : entries[t] > 0 => entries'[t] > 0
        /\ entries'[call[c].source] > 0
    BY <1>s, <2>2, <2>3
  <2> QED
    BY <1>h, <2>1, <2>2, <2>4, HandlerFrame DEF HandlerSource
<1>8. ASSUME NEW c \in Call, StartDelete(c) \/ FinishDelete(c) \/ CommitPlan(c) PROVE Goal
  <2>1. /\ call[c].pc \in {"delete", "deleting", "commit plan"}
        /\ call'[c].pc \in {"deleting", "commit plan", "answer"}
        /\ call'[c].source = call[c].source
        /\ \A d \in Call \ {c} : call'[d] = call[d]
    BY <1>s, <1>8 DEF StartDelete, FinishDelete, CommitPlan
  <2>2. UNCHANGED <<invoice, answered, entries>>
    BY <1>8 DEF StartDelete, FinishDelete, CommitPlan, xenditVars, quotaVars
  <2>3. call[c].source \in Plan \cup {Simulated} /\ call[c].source \notin Topup
    BY <1>h, <2>1, PaymentAssumption DEF HandlerSource, Invoice
  <2> QED
    BY <1>s, <1>h, <2>1, <2>2, <2>3, HandlerFrame
<1> QED
  BY <1>1, <1>2, <1>3, <1>4, <1>5, <1>6, <1>7, <1>8, NextCases

LEMMA PaymentInductive == Spec => []IInv
<1>1. IInv /\ [Next]_vars => IInv'
  BY TypeStep, HandlerStep DEF IInv
<1> QED
  BY InitIInv, <1>1, PTL DEF Spec

(* The shapes of TypeOK are never left.                                     *)
THEOREM PaymentTypeCorrect == Spec => []TypeOK
<1>1. IInv => TypeOK
  BY DEF IInv
<1> QED
  BY PaymentInductive, <1>1, PTL

(* A payment that was answered 200 has been entered, for any number of      *)
(* invoices, overlapping handlers, repetitions and failures.                *)
THEOREM AnsweredEntered == Spec => []AnsweredIsEntered
<1>1. IInv => AnsweredIsEntered
  BY DEF IInv
<1> QED
  BY PaymentInductive, <1>1, PTL

-----------------------------------------------------------------------------
(* Only CommitPlan writes subscriptions, and it inserts a row.              *)
THEOREM PlanNeverMissing == Spec => PlanIsNeverMissing
<1>1. [Next]_vars => [subs # {} => subs' # {}]_vars
  <2> SUFFICES ASSUME [Next]_vars, subs' # subs PROVE subs' # {}
    BY DEF vars
  <2>1. ~(UNCHANGED vars) /\ ~NoRequest
    BY DEF vars, NoRequest
  <2>2. \E c \in Call : CommitPlan(c)
    BY <2>1, NextCases DEF Checkout, Settle, Notify, SimulateWebhook, RecordTopup, CommitTopup,
       StartDelete, FinishDelete, Answer, Rollback, LoseAnswer
  <2> QED
    BY <2>2 DEF CommitPlan
<1> QED
  BY <1>1, PTL DEF Spec, PlanIsNeverMissing

-----------------------------------------------------------------------------
(* "Nonaktifkan subscription lama" does not leave one row when handlers     *)
(* overlap, but the rows do not pile up either: a handler deletes what it   *)
(* found before it inserts, so the rows can be told apart by the handlers   *)
(* that inserted them.  The owner of a row is such a handler; as long as it *)
(* is activating another plan, the row is one of those it will delete.      *)
Owned(owner) ==
  /\ owner \in [subs -> Call]
  /\ \A r, s \in subs : owner[r] = owner[s] => r = s
  /\ \A r \in subs :
       /\ call[owner[r]].pc = "deleting" => r \in call[owner[r]].seen
       /\ call[owner[r]].pc = "commit plan" => r \in call[owner[r]].gone
RowsAreOwned == \E owner : Owned(owner)

\* A step that starts no deletion and inserts no row leaves the owners.
LEMMA OwnersStay ==
  ASSUME TypeOK, RowsAreOwned, NEW c \in Call,
         subs' = subs, \A d \in Call \ {c} : call'[d] = call[d],
         call'[c].pc \notin {"deleting", "commit plan"}
  PROVE  RowsAreOwned'
<1>1. PICK owner : Owned(owner)
  BY DEF RowsAreOwned
<1>2. Owned(owner)'
  <2> SUFFICES ASSUME NEW r \in subs
               PROVE  /\ call'[owner[r]].pc = "deleting" => r \in call'[owner[r]].seen
                      /\ call'[owner[r]].pc = "commit plan" => r \in call'[owner[r]].gone
    BY <1>1 DEF Owned
  <2>1. owner[r] \in Call
    BY <1>1 DEF Owned
  <2> QED
    BY <1>1, <2>1 DEF Owned
<1> QED
  BY <1>2 DEF RowsAreOwned

LEMMA RowsOwnedStep == TypeOK /\ RowsAreOwned /\ [Next]_vars => RowsAreOwned'
<1> SUFFICES ASSUME TypeOK, RowsAreOwned, [Next]_vars PROVE RowsAreOwned'
  OBVIOUS
<1>0. /\ DOMAIN call = Call
      /\ \A c \in Call : DOMAIN call[c] = {"pc", "source", "number", "seen", "gone"}
  BY DEF TypeOK, CallState
<1>1. CASE UNCHANGED <<call, subs>>
  BY <1>1 DEF RowsAreOwned, Owned
<1>2. ASSUME NEW i \in Invoice, Checkout(i) \/ Settle(i, "PAID") \/ Settle(i, "EXPIRED")
      PROVE  UNCHANGED <<call, subs>>
  BY <1>2 DEF Checkout, Settle
<1>3. ASSUME NEW c \in Call, NEW i \in Invoice, Notify(c, i) PROVE RowsAreOwned'
  <2>1. /\ subs' = subs /\ \A d \in Call \ {c} : call'[d] = call[d]
        /\ call'[c].pc \in {"answer", "record", "delete"}
    BY <1>0, <1>3 DEF Notify, FirstStep, IdleCall
  <2> QED
    BY <2>1, OwnersStay
<1>4. ASSUME NEW c \in Call, SimulateWebhook(c) \/ Answer(c) \/ Rollback(c) \/ LoseAnswer(c)
      PROVE  RowsAreOwned'
  <2>1. CASE SimulateWebhook(c)
    <3>1. /\ subs' = subs /\ \A d \in Call \ {c} : call'[d] = call[d]
          /\ call'[c].pc = "delete"
      BY <1>0, <2>1 DEF SimulateWebhook, IdleCall
    <3> QED
      BY <3>1, OwnersStay
  <2>2. CASE Answer(c) \/ Rollback(c) \/ LoseAnswer(c)
    <3>1. subs' = subs /\ call' = [call EXCEPT ![c] = IdleCall]
      BY <2>2 DEF Answer, Rollback, LoseAnswer
    <3>2. /\ \A d \in Call \ {c} : call'[d] = call[d]
          /\ call'[c].pc = "idle"
      BY <1>0, <3>1 DEF IdleCall
    <3> QED
      BY <3>1, <3>2, OwnersStay
  <2> QED
    BY <1>4, <2>1, <2>2
<1>5. ASSUME NEW c \in Call, RecordTopup(c) \/ CommitTopup(c) PROVE RowsAreOwned'
  <2>1. /\ subs' = subs /\ \A d \in Call \ {c} : call'[d] = call[d]
        /\ call'[c].pc \in {"commit topup", "answer"}
    BY <1>0, <1>5 DEF RecordTopup, CommitTopup
  <2> QED
    BY <2>1, OwnersStay
<1>6. ASSUME NEW c \in Call, StartDelete(c) PROVE RowsAreOwned'
  <2>1. PICK owner : Owned(owner)
    BY DEF RowsAreOwned
  <2>2. /\ subs' = subs /\ \A d \in Call \ {c} : call'[d] = call[d]
        /\ call'[c].pc = "deleting" /\ call'[c].seen = subs
    BY <1>0, <1>6 DEF StartDelete
  <2>3. Owned(owner)'
    <3> SUFFICES ASSUME NEW r \in subs
                 PROVE  /\ call'[owner[r]].pc = "deleting" => r \in call'[owner[r]].seen
                        /\ call'[owner[r]].pc = "commit plan" => r \in call'[owner[r]].gone
      BY <2>1, <2>2 DEF Owned
    <3>1. owner[r] \in Call
      BY <2>1 DEF Owned
    <3> QED
      BY <2>1, <2>2, <3>1 DEF Owned
  <2> QED
    BY <2>3 DEF RowsAreOwned
<1>7. ASSUME NEW c \in Call, FinishDelete(c) PROVE RowsAreOwned'
  <2>1. PICK owner : Owned(owner)
    BY DEF RowsAreOwned
  <2>2. /\ subs' = subs /\ \A d \in Call \ {c} : call'[d] = call[d]
        /\ call[c].pc = "deleting" /\ call'[c].pc = "commit plan"
        /\ call'[c].gone = call[c].seen \cap subs
    BY <1>0, <1>7 DEF FinishDelete
  <2>3. Owned(owner)'
    <3> SUFFICES ASSUME NEW r \in subs
                 PROVE  /\ call'[owner[r]].pc = "deleting" => r \in call'[owner[r]].seen
                        /\ call'[owner[r]].pc = "commit plan" => r \in call'[owner[r]].gone
      BY <2>1, <2>2 DEF Owned
    <3>1. owner[r] \in Call
      BY <2>1 DEF Owned
    <3> QED
      BY <2>1, <2>2, <3>1 DEF Owned
  <2> QED
    BY <2>3 DEF RowsAreOwned
<1>8. ASSUME NEW c \in Call, CommitPlan(c) PROVE RowsAreOwned'
  <2>1. PICK owner : Owned(owner)
    BY DEF RowsAreOwned
  <2> DEFINE new == [source |-> call[c].source, number |-> call[c].number]
             owner2 == [r \in subs' |-> IF r = new THEN c ELSE owner[r]]
  <2>2. /\ subs' = (subs \ call[c].gone) \cup {new}
        /\ \A d \in Call \ {c} : call'[d] = call[d]
        /\ call[c].pc = "commit plan" /\ call'[c].pc = "answer"
    BY <1>0, <1>8 DEF CommitPlan
  <2> HIDE DEF new
  <2>3. \A r \in subs' \ {new} : r \in subs /\ owner[r] \in Call /\ owner[r] # c
    BY <2>1, <2>2 DEF Owned
  <2>4. /\ owner2 \in [subs' -> Call]
        /\ \A r, s \in subs' : owner2[r] = owner2[s] => r = s
    BY <2>1, <2>3 DEF Owned
  <2>5. ASSUME NEW r \in subs'
        PROVE  /\ call'[owner2[r]].pc = "deleting" => r \in call'[owner2[r]].seen
               /\ call'[owner2[r]].pc = "commit plan" => r \in call'[owner2[r]].gone
    BY <2>1, <2>2, <2>3 DEF Owned
  <2>6. \E w : Owned(w)'
    <3> HIDE DEF owner2
    <3>1. /\ owner2 \in [subs' -> Call]
          /\ \A r, s \in subs' : owner2[r] = owner2[s] => r = s
          /\ \A r \in subs' :
               /\ call'[owner2[r]].pc = "deleting" => r \in call'[owner2[r]].seen
               /\ call'[owner2[r]].pc = "commit plan" => r \in call'[owner2[r]].gone
      BY <2>4, <2>5
    <3> QED
      BY <3>1, Zenon DEF Owned
  <2> QED
    BY <2>6 DEF RowsAreOwned
<1> QED
  BY <1>1, <1>2, <1>3, <1>4, <1>5, <1>6, <1>7, <1>8, NextCases DEF NoRequest, vars

(* Overlapping activations leave at most as many subscriptions as handlers  *)
(* ran at the same time, whatever was repeated, failed or simulated, and    *)
(* however many plans were bought: with handlers that never overlap, one.   *)
SubscriptionsAreBounded == Cardinality(subs) <= Cardinality(Call)

THEOREM SubscriptionsNeverPileUp ==
  ASSUME IsFiniteSet(Call)
  PROVE  Spec => []SubscriptionsAreBounded
<1>1. Init => RowsAreOwned
  <2> SUFFICES ASSUME Init PROVE RowsAreOwned
    OBVIOUS
  <2> DEFINE none == [r \in {} |-> NoCall]
  <2>1. Owned(none)
    BY DEF Init, Owned
  <2> QED
    BY <2>1 DEF RowsAreOwned
<1>2. RowsAreOwned => SubscriptionsAreBounded
  <2> SUFFICES ASSUME NEW owner, Owned(owner) PROVE SubscriptionsAreBounded
    BY DEF RowsAreOwned
  <2>1. owner \in Injection(subs, Call)
    BY DEF Owned, Injection, IsInjective
  <2> QED
    BY <2>1, FS_Injection DEF SubscriptionsAreBounded
<1> QED
  BY <1>1, <1>2, RowsOwnedStep, PaymentTypeCorrect, PTL DEF Spec

-----------------------------------------------------------------------------
(* The rows implement the abstract ledger.                                  *)
THEOREM PaymentsImplementLedger == Spec => ImplementsLedger
<1>1. Init => Ledger!Init
  BY DEF Init, Ledger!Init, Invoice
<1>2. IInv /\ [Next]_vars => [Ledger!Next]_Ledger!ledgerVars
  <2> SUFFICES ASSUME IInv, [Next]_vars PROVE [Ledger!Next]_Ledger!ledgerVars
    OBVIOUS
  <2> DEFINE Paid == {t \in Topup : invoice[t] = "PAID"}
  <2> USE PaymentAssumption DEF Ledger!ledgerVars
  <2>1. CASE invoice' = invoice /\ entries' = entries /\ purchased' = purchased
    BY <2>1
  <2>2. ASSUME NEW c \in Call, CommitTopup(c) PROVE Ledger!Next
    <3>1. call[c].source \in Topup /\ invoice[call[c].source] = "PAID"
      BY <2>2 DEF CommitTopup, IInv, HandlerInv, HandlerSource
    <3>2. Ledger!Enter(call[c].source)
      BY <2>2, <3>1 DEF CommitTopup, Ledger!Enter, xenditVars
    <3> QED
      BY <3>1, <3>2 DEF Ledger!Next
  <2>3. ASSUME NEW i \in Invoice, Checkout(i) PROVE Paid' = Paid /\ UNCHANGED <<entries, purchased>>
    BY <2>3 DEF Checkout, IInv, TypeOK, quotaVars, Invoice
  <2>4. ASSUME NEW i \in Invoice, Settle(i, "PAID") \/ Settle(i, "EXPIRED")
        PROVE  [Ledger!Next]_Ledger!ledgerVars
    <3>1. UNCHANGED <<entries, purchased>>
      BY <2>4 DEF Settle, quotaVars
    <3>2. CASE i \in Topup /\ Settle(i, "PAID")
      <4>1. Paid' = Paid \cup {i}
        BY <3>2 DEF Settle, IInv, TypeOK, Invoice
      <4> QED
        BY <3>1, <3>2, <4>1 DEF Ledger!Next, Ledger!Pay
    <3>3. CASE ~(i \in Topup /\ Settle(i, "PAID"))
      <4>1. Paid' = Paid
        BY <2>4, <3>3 DEF Settle, IInv, TypeOK, Invoice
      <4> QED
        BY <3>1, <4>1
    <3> QED
      BY <3>2, <3>3
  <2>5. CASE UNCHANGED vars \/ NoRequest
    BY <2>1, <2>5 DEF NoRequest, vars, xenditVars, quotaVars
  <2>6. ASSUME NEW c \in Call, NEW i \in Invoice, Notify(c, i)
        PROVE  UNCHANGED <<invoice, entries, purchased>>
    BY <2>6 DEF Notify, quotaVars
  <2>7. ASSUME NEW c \in Call,
               \/ SimulateWebhook(c) \/ RecordTopup(c) \/ StartDelete(c) \/ FinishDelete(c)
               \/ CommitPlan(c) \/ Answer(c) \/ Rollback(c) \/ LoseAnswer(c)
        PROVE  UNCHANGED <<invoice, entries, purchased>>
    BY <2>7 DEF SimulateWebhook, RecordTopup, StartDelete, FinishDelete, CommitPlan, Answer,
       Rollback, LoseAnswer, quotaVars, xenditVars
  <2> QED
    BY <2>1, <2>2, <2>3, <2>4, <2>5, <2>6, <2>7, NextCases
<1> QED
  BY <1>1, <1>2, PaymentInductive, PTL DEF Spec, ImplementsLedger, Ledger!Spec
=============================================================================
