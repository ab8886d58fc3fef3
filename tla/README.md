# Verification of BIZETO-Tunnel

TLA+ models of the core of BIZETO-Tunnel, model-checked with TLC and proved
with TLAPS. BIZETO-Tunnel is a reverse proxy in Go: an *agent* beside a local
application keeps one multiplexed (yamux) connection to a *relay*, the relay's
HTTP *gateway* turns every public request for the agent's domain into a stream
of that connection, and a *bandwidth worker* charges the bytes to a prepaid
quota in PostgreSQL, which payments fill. Customers and owners use a React
*dashboard*, a single-page application that calls the relay's HTTP API: it sells
plans, registers tunnels, hands out keys and shows what they carry.

Everything below is translated from the code in `src/`; `PROJECT.json` gives
the lines of every definition.

## 1. Inventory

| Part | Source | State it keeps | Operations | Talks to |
|---|---|---|---|---|
| Tunnel manager | `internal/tunnel/manager.go` | maps domain → session, counters, limiter, paid flag, metadata, under one `RWMutex`; two `int64` counters per session, atomic; a ring of 50 log entries | `AddSession`, `GetStream`, `GetStats`, `SetThrottle`, `SetPaidStatus`, `scavenge`, `AddLog`, snapshots | everyone below, by calls |
| Counted streams | `manager.go` `CountingConn` | pointers to counters and a limiter, captured at open | `Read`, `Write` | yamux stream; counters without the mutex |
| Bandwidth worker | `internal/tunnel/sync.go` | list of domains of the round | once a minute: stats with reset, session rows, quota transaction, throttle | manager, repository |
| Relay agent handler | `cmd/relay/main.go` | one goroutine per agent connection | handshake, `LogSession`, `AddSession`, quota status, throttle | manager, repository |
| HTTP gateway | `internal/tunnel/gateway.go` | log channel of 1000, pooled streams | availability probe, proxying, audit log, log worker | manager, repository |
| gRPC control plane | `internal/tunnel/grpc_handler.go` | limiter per peer address | `RegisterAgent`, `ControlStream` | repository, tokens |
| Quota | `internal/db/bandwidth.go` | row of `user_bandwidth_quota`, `topup_transactions` | status reads, `InitializeTrial`, `AddBandwidthQuota`, `UpdateBandwidthUsage` | PostgreSQL |
| Session and audit rows | `internal/db/repository.go` | `tunnel_sessions`, `traffic_logs`, `subscriptions` | `ValidateKey`, `LogSession`, `UpdateSessionStatsIncrement`, `InsertTrafficLog`, `ActivateSubscription` | PostgreSQL |
| Payments | `internal/billing/service.go`, webhooks of `api.go` | invoices at Xendit | checkout, topup, webhook | repository, Xendit |
| Agent | `cmd/agent/main.go`, `internal/tunnel/agent.go` | retry delay, session | register, connect, serve streams, reconnect | relay |
| Dashboard API | `internal/tunnel/api.go` | none | queries; totals of database plus live counters; wizard | manager, repository |
| Accounts, owner | `internal/db/user.go`, `owner.go` | users, keys, domains, plans | single SQL statements | PostgreSQL |
| Authentication | `internal/auth` | JWT key | tokens, OAuth, middleware | repository, Google |
| Exchange rate | `api.go`, `db/exchange_rate.go` | one row per day | daily worker, fallbacks | an HTTP API |
| Session and routing of the dashboard | `dashboard/src/App.tsx`, `context/AuthContext.tsx`, `pages/LoginPage.tsx` | route; user, token and features of a document; `localStorage`, shared by all tabs | restore, sign in by Google or mock, sign out, redirects by role | API, Google, other tabs |
| Public pages | `LandingPage.tsx`, `PricingPage.tsx`, `PlanDetailPage.tsx` | language, plan, choice, busy flag | language by choice or by ipapi.co, plans and their totals, checkout in two requests | API, ipapi.co, Xendit |
| User dashboard | `UserDashboard.tsx`, `Onboarding.tsx`, `ui/Shared.tsx` | copies of the customer's rows, one dialog, one form, tab | polls every 5 s, delete, create, profile, avatar, topup, onboarding | API |
| Tunnel wizard | `AddTunnelWizard.tsx` | key and domain it drew, step, saved, connected | save, steps, status check every 2 s | API |
| Owner dashboard | `OwnerDashboard.tsx`, `db/owner.go` | copies of users and plans, one dialog, the plan form | polls every 10 s, toggle, role, save a plan | API |
| Certificates, generated code, setup wizard, documentation page | `internal/cert`, `api/v1`, `SetupWizard.tsx`, `DocsPage.tsx` | – | – | – |

**Hard behaviour.** Goroutines of four kinds share the manager: its mutex
protects the maps but not the counters, and streams keep what they captured
when they were opened. Quota decisions are made in Go from a row read earlier
in the transaction, while payments write the same row. Sessions die without
telling the manager, and a domain may reconnect at any time. Database calls
fail, and the worker goes on without the bytes it had taken. In the browser
every handler goes on after its `await` over whatever the page has become: polls
overtake each other, answers come to pages that were left, users sign in and out,
here and in other tabs, and one dialog serves all who have something to say.
`PROJECT.json` lists each of these under `hazards`, with its line.

**What makes each part correct.** Manager: the maps agree with each other, the
connected agent is the one that is reached, bytes go to the session and the
domain that carried them, are billed at most once, and dead sessions go. Quota:
no charge or payment is lost, a used-up quota is throttled, payment lifts the
throttle and nothing else does. Session rows: a row shows the bytes of its
session. Payments: what was
answered is entered, and an entry is worth what it says. Gateway: every
proxied request leaves one entry, saved or reported as lost, and logging holds
no request up. Prices: a day has one rate, which is not old, the two places that
compute the price of a plan agree, and a topup buys what it is sold as. Agent: it comes back after every failure, and not faster than its
backoff says. Dashboard: it shows what the relay has, in the end; features and
orders are those of the signed-in user, but for the mock login; a dialog does what it asks; a checkout ends
and is placed once; what the wizard calls registered is registered; a plan is one
plan under its id and its name; and redirects come to rest.

## 2. Modules

| Module | Models |
|---|---|
| `UsageMeter` | the abstract promise of the billing: per account, bytes carried and bytes charged, the second never above the first |
| `TunnelManager` | the manager, its streams, the handler of an agent connection, the scavenger and the bandwidth worker |
| `TunnelSessions` | `TunnelManager` with the `tunnel_sessions` table |
| `TunnelManagerProofs` | the inductive invariants of `TunnelManager` and of `TunnelSessions`, and their theorems |
| `BandwidthQuota` | the quota row with the worker's and the payments' transactions and the relay state they decide |
| `BandwidthQuotaProofs` | the inductive invariant of `BandwidthQuota` and its theorems |
| `PaymentLedger` | the abstract promise of the payments: an entry and the bytes it buys are one step, of a paid invoice |
| `PaymentWebhook` | invoices at Xendit, repeated notifications, overlapping webhook handlers and their transactions |
| `Gateway` | the HTTP gateway: probe, pooled streams, proxying, the ring and the channel of the audit log, the log worker |
| `GatewayProofs` | its inductive invariant and theorems |
| `Checkout` | the exchange-rate worker, the invoices of plans and topups, and the totals the plan page shows |
| `PaymentProofs` | the inductive invariants of `Checkout` and `PaymentWebhook`, and their theorems |
| `AgentLifecycle` | the agent's retry loop, the handlers of its connections at the relay, and what breaks between them |
| `AgentLifecycleProofs` | its inductive invariant and theorems |
| `AppSession` | one tab of the browser: documents, routes and redirects, who is signed in, signing in and out, `localStorage` |
| `PlanPages` | `AppSession` with the public pages in it, the search for a language, and the checkout |
| `TunnelWizard` | the wizard that registers a tunnel, the relay's handlers it calls, the agents run with its keys |
| `PagesProofs` | the inductive invariants of `PlanPages` with `AppSession` and of `TunnelWizard`, and their theorems |
| `UserDashboard` | the customer's page: polls, tabs, dialog, forms, onboarding, and the rows of the customer at the relay |
| `UserDashboardProofs` | its inductive invariant and theorems |
| `PlanCatalogue` | the abstract promise of the pricing plans: id and name of a plan mean one plan for ever |
| `OwnerDashboard` | the owner's page, the relay's users and plans, and other owners |
| `OwnerDashboardProofs` | its inductive invariant, the refinement of `PlanCatalogue`, and its theorems |
| `MC...` | the modules TLC runs: symmetry sets and values of constants |

### TunnelManager

A connection `c \in Conn` stands for one accepted agent connection and for what
`AddSession` allocates for it, so `sessions`, `bytesIn`, `bytesOut` and `meta`
map domains to connections, and `cell[<<dir, c>>]` is the `int64` that the
pointer leads to. `yamux[c]` is the state of its session.

* *Grain.* A critical section of the mutex is one step when nothing it touches
  is touched outside the mutex. `GetStats` is not: `CountingConn` adds to the
  counters without the mutex, so its two loads and two stores are four steps
  (`StatsLoadIn`, `StatsLoadOut`, `StatsStoreIn`, `StatsStoreOut`), and
  `MuFree` keeps the other critical sections out meanwhile. `GetStream` is
  three: the read under the lock, and the open, or the failure, after it.
  `CountingConn` is two: the wrapped call returns, and the counter is raised.
* *`handleAgentConnection`* is `LogSession`, `AddSession`, `ReadQuota`,
  `ThrottleOnConnect`; between any two of them other goroutines run. Its reply
  to the agent and its log lines are left out.
* *The worker* is `Tick` (the list of domains), one `Stats...` sequence for each
  domain in any order (a Go map has none), `UpdateSessionStatsIncrement`,
  `UpdateBandwidthUsage` (with its answer free, or an error), `SetThrottle`.
* *Abstracted.* The answer of the quota is free here and computed in
  `BandwidthQuota`. A limiter is its presence; its waiting is the freedom of
  `CountBytes` to come late. Bytes move one at a time. `RemoveSession` is never
  called, and `GetSnapshot`, `GetGlobalStats` only read.
* *History.* `counted` and `billed` are not in the program; they record what
  was ever added to a counter, and what was passed to a committed quota
  transaction.

### TunnelSessions

`EXTENDS TunnelManager` and conjoins to its steps what they do to
`tunnel_sessions`: `RegisterAgent` and `ConnectAgent` insert a row each,
`IncrementRows` is the worker's UPDATE. There is no step that disconnects a
row, because no code calls `CloseSession`.

### BandwidthQuota

One user with its row, the worker, payments and agent handlers. PostgreSQL is
modelled at READ COMMITTED: a SELECT sees the committed row; a write takes the
row's lock, held until commit or rollback; the new row is visible from the
commit. `UpdateBandwidthUsage` is `SelectQuota` (with the decision
`ShouldThrottle` made in Go), `UpdateQuota`, `CommitUsage` (the usage raised by
the UPDATE itself, the throttle flag overwritten by the earlier decision); it
may fail anywhere, also after the commit. `AddBandwidthQuota` is `UpsertQuota`
and `CommitTopup`. The relay side keeps the sets `online`, `limited` and
`isPaid` and the bytes not yet synchronised; the inside of these steps is in
`TunnelManager`. A user starts without a row or with a bonus row that will
expire: nothing in the present code creates a row with an expiry before the
user has one, but `RegisterAgent`, `UpdateBandwidthUsage` and the schema all
provide for it. `outage` says that the database is out of reach: it comes and
goes as it likes, and while it lasts every transaction may fail.

### Gateway

One domain. `req[r]` is the place of a request in `ServeHTTP`, with the session
`GetStream` has read for it; `session` and `yamux` are what the manager and the
agents make of the sessions meanwhile. `ProbeReads` and `ProbeOpens` are the test
of availability; its stream is opened and never closed, as in the code.
`DialReads`, `DialOpens` and `Reuse` are the transport's two ways to a stream,
`idle` counts its pool, which `AnswerEnds` fills and `IdleEnds` empties. `Abort` is
an answer that breaks off after its head: `ReverseProxy` panics and `ServeHTTP`
never comes to its log. `AddLog` is the critical section of the manager that
appends to the ring, `SendLog` the send that drops instead of waiting. The log
worker takes an entry (`TakeLog`) and is then in a database call, which ends in
`InsertTrafficLog` or `InsertFails`, or not, while `hung`. An error does not say whether
the row was committed before the connection was lost, so `InsertFails` has both
outcomes. An entry goes by the name
of its request; the sizes of the ring and of the channel (50 and 1000) are
constants. `logged` and `lost` are history: the entries in order, and those that
were dropped, or reported with an error, which the code only prints.

### Checkout

Time is counted in half-days, from midnight UTC to 22:00 and from 22:00 to
midnight, since nothing but the fetch and the change of the date depends on the
clock. A rate is named by the half-day in which the API quoted it. `worker.pc` is
the place in `StartExchangeRateWorker` and `fetchExchangeRate`: `fetch` (about to
read the table), `ask` (in `http.Get`, which has no timeout, so time goes on),
`save`, `sleep`, or `off` between `Crash` and `Restart`, which loses the rate in
memory. `worker.today` is the date that was captured before the request. A
database call does not take half a day here. `CreateCheckout` and
`CreateTopupCheckout` share nothing with anyone but the row they read, so each
is a step, with the price and the quota computed as in the code; a refused one
changes nothing and is no step. `BasePriceUSD`, `PageDiscount` and `PageTotal` are what
`PlanDetailPage` computes of the same row by itself, in USD: from `promo_price_usd`,
`price_usd` or `price_monthly`, with discounts for its four durations.
Rounding of a rate to the two decimals of its
column is left out, and so are the customer's profile and the URLs.

### PaymentWebhook

One user's invoices. `Notify` starts a handler for an invoice that was paid or
expired, again and again until one was answered 200; `SimulateWebhook` starts
one without an invoice. Each handler is a goroutine with a transaction of its
own: `RecordTopup` and `CommitTopup` are `AddBandwidthQuota`, where the upsert
waits for the row lock; `StartDelete`, `FinishDelete` and `CommitPlan` are
`ActivateSubscription`, whose DELETE takes the rows committed when it starts,
waits for those another transaction is deleting, and skips those that are gone.
`Rollback` is any failing statement, a cancelled request or a relay that stops,
`LoseAnswer` a 200 nobody heard. Prices, discounts and the months paid for are
left out: no property tells them apart. The ledger the topups implement is weak
on purpose: it lets an invoice be entered twice, because the code does.

### AgentLifecycle

One domain. `agent[a].pc` is the place in `main` and `runAgent`: `register` (gRPC),
`dial` (data connection and handshake), `await` (the answer), `serve`
(`StartSession`), `sleep` (the retry delay), or `off`. `conn[c]` has both ends of
a connection: the agent's (`agentOpen`), the handler's place at the relay
(`read`, `log`, `add`, then the yamux session, `open` or `closed`), the answer, and
whether the network lost it (`cut`) without telling either end. A handler may
stay at `log` (it waits for the database) as long as it likes, so the agent may
have come back on another connection meanwhile. `SessionEnds` and
`SessionBreaks` are the two results of `StartSession`: end of file, after which
`main` starts over at once with the first delay, and an error, after which it
sleeps and doubles it. `ReadReply` does not look at the answer, as `runAgent`
does not. A record of a finished connection is used again for a new one.

### AppSession and PlanPages

A *document* is what the browser loads. `Load` (a typed address, a reload,
`window.location.href`, in one step) starts a new one with the initial state of every
component; `Navigate` (links, `navigate()`, `<Navigate>`) changes the route within one.
`session` is user and token, which `AuthContext` always sets together; `features` is
named by the account they were fetched for, since the answer itself does not say.
`restoring` and `signing` are `fetchFeatures` under way after `Restore` and inside
`login()`; `signing` is a set, since a mock login may be started again while one is
under way and its page was left, and the member's `google` tells which caller goes on
after it. `isProcessing` belongs to the login page and goes with it. `OtherTab` changes
`stored` under the tab, which keeps what it has read.
The login page leaves when somebody is signed in (`Leaving`), but not while its address
has an `auth_data`: with one that cannot be parsed (`Garbled`, which `garbled` remembers
for the browser's back button) a signed-in user keeps the page, and its mock buttons
sign another account in without a new document. `mixed` is history and remembers that.

`PlanPages` conjoins `Moves` to every step of the tab: it opens the page of the new
route with its `useState`, and leaves the old one, whose requests are not
cancelled. What these still do is to `localStorage` or to the address, so they are
kept in the set `stray` (more of a kind than one are told apart only by a free
choice to stay in the set); orders stay in `orders` with `here = FALSE`.
`handleCheckout` is `HandleCheckout`, `CheckoutAnswered` and `WebhookAnswered`, the last
of which goes to the invoice from whatever page is open. `Order` is who ordered, and
whether the page still waits. Of the language only whether one is stored is kept
(`hasLang`), since that decides whether a page asks ipapi.co; which it is, the currency
that follows it and the selectors of duration and amount are left out. Prices are in
`Checkout`; theme, exchange rate and layout are left out.

### TunnelWizard

A mount is a visit `v`, and the key drawn then is the number of the visit, since
keys are long and random; a domain ends in three random characters and may be
drawn twice, or be another customer's (`Taken`). `saveToDB` is `Register` and, later,
`SaveAnswered` or `SaveLost`; at the relay `SaveWizardData` is `SaveKey` and `SaveDomain`,
two statements without a transaction, both `ON CONFLICT DO NOTHING`, either of which
may fail. The status check is `CheckStatus`, at the moment the relay looks, and its
answer. `AgentConnects` is `ValidateKey`: the key is joined to a domain of its user.

### UserDashboard

A row is a domain or a key. `FetchData` puts what the relay has at that moment into
`fetches`; `Apply` is an answer, of which any of the parts may be missing, in any
order. A handler is an action up to its `await` (`Send`), what the relay does (`Handle`)
and an action after it (`After...`), with the answers `ok`, `refused` and `lost`, where a
lost answer may be of something done. `modal` is the one dialog with what it says
and what Confirm will do. A topup leaves the document, and the customer comes back
(`Remount`). The custom-domain list is always empty, since `GetTunnels` sends no
`is_custom`, so its buttons are no actions.

### OwnerDashboard

`fetches` is a set of slots, so that each answer has a fairness condition of its
own. A request is a record, which is also what a question in `modal` will send.
The form is the id it will send; name and status are chosen when it is saved, since
they are typed. `UpsertPlan` is the statement with its `ON CONFLICT (name)`: a name
that exists changes that row whatever the id, a new name without an id gets a fresh
one, and a new name with the id of a row violates the primary key and is refused.
`OtherOwner` is any request of another owner's page. Tabs are left out: they decide
which buttons are seen and can be changed at any time.

## 3. Runs

Every property is explained where it is defined. Passing runs:

| Run | Instance | Shows |
|---|---|---|
| `manager_safety` | 2 domains, 2 connections, 1 stream, 1 byte per connection | maps, sessions, counters and streams agree: `CountersFollowSession`, `LiveAgentsAreReachable`, `BytesGoToTheirOwner`, `OpensOnCurrentSession` |
| `manager_billing` | `TunnelSessions`: 1 domain, 1 connection, 1 stream, 2 bytes, a database that may fail | the refinement `BillsLikeAMeter`, `RowsStayWithinDomainTraffic`, `UsageIsCollected`, `GhostsAreRemoved` |
| `quota` | 2 domains, 1 handler, 2 payments, 2 bytes, a database that fails and recovers | `LedgerAddsUp`, `UsedUpMeansThrottled`, `OnlyPaymentLiftsThrottle`, `LimiterFollowsTheRow` |
| `gateway` | 3 requests, 2 sessions, a ring of 2, a channel of 1 | `EntryIsInOnePlace`, `RingIsNewest`, `LoggingNeverBlocks`, `EntriesAreSaved` |
| `checkout` | 3 days, 13 amounts, 6 plans, 4 durations | `RowKeepsItsRate`, `FreshRate`, `ChargedAsShown`, `TopupAsBillingPageSays` |
| `payment_webhook` | 1 topup, 1 plan, 2 handlers, 3 notifications of each, 2 failures | `AnsweredIsEntered`, `ImplementsLedger`, `PlanIsNeverMissing`, `PaidIsEntered` |
| `agent_lifecycle` | 2 agents, 2 connections, 3 troubles | `OpenIsRegistered`, `OnlyAcceptedIsServed`, `Reconnects`, `NobodyServesUnreached`, `FailingAgentsSlowDown` |
| `app` | a customer, an owner, a plan and the address of none, 1 order of a document at a time | `FeaturesOfTheSignedIn`, `OrdersAreOfTheSignedIn`, `BusyWhileOrdering`, `ComesToRest`, `CheckoutEnds` |
| `wizard` | 3 domains, one of them taken, 2 visits, 2 saves, 2 checks | `RegistrationIsComplete`, `AgentIsNoticed` |
| `user_dashboard` | 1 tunnel, 1 key, 2 polls and 1 other request under way | `DialogAsksWhatItDoes`, `ShowsWhatTheServerHas` |
| `owner_dashboard` | 1 user, 2 plans, 2 polls and 1 other request under way, 2 changes | the refinement `ImplementsCatalogue`, `ListsFollowTheRelay` |

Four of these say less than their names, and their comments say so.
`ChargedAsShown` speaks of plans in dollars that are not on sale: the others are charged
differently from what is shown (below). `TopupAsBillingPageSays` is about the tiers of
`UserDashboard.tsx:901`, the only page that makes topups; the plan page's table has 2 GB
where this one has 1.5. `FeaturesOfTheSignedIn` and `OrdersAreOfTheSignedIn` except a
document in which a mock login replaced another account (`mixed`), where they are false.

The run that finds the code at odds with what it says of itself:

| Run | Finding |
|---|---|
| `manager_race` | `NoByteIsForgotten` is violated: a byte counted between the load and the store of `GetStats` is lost |

**Further disagreements.** Four more are shown by configurations that are kept here
and are not in the list of runs; `tlc -config X.cfg M` ends in a counterexample:

* `MCBandwidthQuota_topup.cfg`, `PaidQuotaIsUnthrottled`: a payment between the worker's
  SELECT and UPDATE leaves the user throttled with quota left (`bandwidth.go:178`; the
  comment at `bandwidth.go:110` says that a payment lifts the throttle);
* `MCPaymentWebhook_overlap.cfg`, `OneSubscription`: two handlers of one repeated
  notification leave two ACTIVE subscriptions (`repository.go:195`);
* `MCAgentLifecycle_slow.cfg`, `OldGivesWayToNew`: a handler that was slow in
  `LogSession` closes the newer, working session of its own agent (`manager.go:187`);
* `MCTunnelWizard_second.cfg`, `AgentServesItsAddress`: the agent started with the key of
  a customer's second tunnel is given the address of the first, because `ValidateKey`
  joins keys and domains on the user alone (`repository.go:51-57`), while the wizard
  says that "This tunnel is registered and ready to receive data"
  (`AddTunnelWizard.tsx:42`).

The others are evident from a statement or two. Of the relay:

* a stream keeps the limiter `GetStream` copied for it (`manager.go:255,273`), so
  `SetThrottle`, which by its comment throttles the domain (`manager.go:223`), does
  not reach streams that are open, and the transport keeps and reuses them;
* bytes are added to the rows of past sessions too, since nothing disconnects a
  row (`repository.go:114-118`);
* a user without a quota row is marked as paid (`bandwidth.go:84-86`,
  `cmd/relay/main.go:230`);
* a plan paid for several months is entered with 31 days (`repository.go:203`);
* a repeated notification enters a topup again (`bandwidth.go:102`);
* the agent takes a refused handshake for "Secure tunnel established!"
  (`cmd/agent/main.go:285-289`), then retries at once, since `StartSession`
  returns nil;
* the stream of the availability probe is never closed (`gateway.go:144`);
* a request whose answer breaks off after its head is not logged at all, though
  the comment at `gateway.go:130` promises a complete audit log;
* between midnight UTC and 22:00 the day has no row unless the relay restarted,
  so a plan in USD is charged at the built-in 16500 (`service.go:66-69`) while the
  dashboard shows it at the rate in memory;
* the minimum "Rp 15.000 or $1" (`service.go:165-166`) is Rp 15.000 alone: one
  dollar is refused at a rate below 15000, and 91 cents pass at 16500;
* a plan on sale is charged its full price, and a plan with a price in rupiah the
  converted dollars: the pages show `promo_price_*` and `price_idr`
  (`PlanDetailPage.tsx:249-254`), the checkout reads `price_monthly` alone
  (`service.go:56-82`); every tier of pay-as-you-go is charged as the plan's one price
  (`PlanDetailPage.tsx:105-119`);
* an INSERT whose answer was lost is reported as failed and its entry is there
  (`gateway.go:94`): a printed error does not say that the audit trail has a gap;
* the plan page sells 2 GB for Rp 30.000 or $6.99 (`PlanDetailPage.tsx:108,114`),
  the service enters 1.5 GB (`service.go:185,195`), and its order is a plan of one
  month, since `/api/billing/checkout` reads no `topup_amount` (`api.go:404-407`);
* `simulate-webhook` is for tests on localhost by its comment (`api.go:507`), but is
  always registered (`cmd/relay/main.go:106`), and the plan page always calls it before
  it goes to the invoice (`PlanDetailPage.tsx:215-228`), which activates a plan that is
  not paid yet (`api.go:508-546`);
* `SaveWizardData` answers ok for an address that is another customer's (`user.go:172-179`,
  `ON CONFLICT DO NOTHING`);
* disabling a user (`user.go:301-304`) is displayed and read by nothing else; the role in a
  token stays what it was at sign-in;
* a plan cannot be renamed (its id conflicts, `owner.go:162-183`), and one saved under
  the name of another overwrites that other; a hidden plan leaves the owner's list,
  which has a badge for it (`OwnerDashboard.tsx:826`), since `GetPricingPlans` reads only
  active rows (`owner.go:65`).

Of the dashboard:

* a late answer of ipapi.co overrides the language a visitor chose meanwhile ("only if
  no manual choice exists", `PricingPage.tsx:133`); the language decides the currency;
* a mock login over another account keeps that account's features and orders under way:
  `handleMockLogin` (`LoginPage.tsx:74-87`) neither asks whether somebody is signed in nor
  reloads, as the sign-in by Google does for exactly this reason (`LoginPage.tsx:53`), and
  an `auth_data` that cannot be parsed keeps a signed-in user on the page
  (`LoginPage.tsx:64-68`);
* the plan page stays blank when its plans cannot be loaded, and a late answer of a
  page that was left still navigates to `/pricing`, or to an invoice;
* leaving the plan page and coming back allows a second checkout during the first;
  when the second request of a checkout is not reached, an invoice exists and the
  page says that there was a connection error;
* "Account deletion requested" is replaced by the closing question, and nothing is
  requested (`UserDashboard.tsx:1061`, `1216`); a message that comes late replaces an open
  question in both dashboards, the owner's failing poll every ten seconds;
* the poll overwrites what is being typed into the profile form, and a cancelled
  edit of the name is saved with the next avatar;
* `createKey` takes an HTTP error for success; the list of custom domains is always
  empty, because the relay does not send `is_custom`; the buttons of currencies write a
  key of `localStorage` nobody reads (`UserDashboard.tsx:913`);
* leaving the wizard by Cancel does not reload the list, so the limit of tunnels
  (`UserDashboard.tsx:727`) may be passed; the onboarding may appear over the wizard and
  unmount it with its key;
* the success of a request closes whatever form of its kind is open by then;
* a stored role that is neither USER nor OWNER redirects between `/login` and
  `/dashboard` for ever: `ComesToRest` speaks of the two roles the relay knows;
* features that could not be fetched lock what was paid for until a reload; a 401 is
  treated like any failure; `?redirect=` of the login page is ignored;
* a price whose field was cleared is sent as `null` and stored as 0.

**Bounds.** Inside the specifications of the relay the only bound is `MaxBytes`. In
`TunnelManager` it limits the bytes of a connection (one more than the bound
can be under way for every further stream), in `BandwidthQuota` the bytes of
the user: with a bonus of one byte and two payments of one, two bytes use up
the bonus alone or with one payment, and leave quota when both payments came. Two connections are what a reconnection or a contest for a domain
takes; with two domains, both kinds occur, and the list the worker walks has a
rest. In `manager_billing` two bytes, and one more that is under way, let a byte arrive
before, inside and after the window of `GetStats`, and let the worker bill twice;
`NoOverBilling`, which is proved, is implied by the refinement there. Two connections
with the rows of the table are in `MCTunnelSessions_rows.cfg`, without liveness. Two payments let one commit before
the row exists and one race the worker. In `Gateway` nothing is counted without end: requests end for good. Three of
them overflow a ring of two and a channel of one whose worker holds the third
entry; two sessions are one that replaces another with a stream of the first
still pooled. `Checkout` ends at `MaxNow`: three days are the shortest time in
which a rate can be two days old. Its amounts lie on and beside the boundaries of
the tiers and of the minimum, its rates above and below the built-in one.
`PaymentWebhook` bounds the notifications
of an invoice (`MaxSent`), the simulated ones and the failures (`MaxFail`); one
notification more than there are failures lets every payment through, and three
let two handlers overlap on one invoice after a third was rolled back. With two
handlers at a time at most two subscriptions are left, and a DELETE that forgets
leaves three. `AgentLifecycle` bounds what goes wrong (`MaxTrouble`): three let the
second agent stop and still break the connection of the first twice, or crash the
relay before or after. Two connections are one slow handler and the connection
that overtakes it; the maximal delay of three is reached by doubling past it, as
30 s are from 16 s. In `app` a customer, an owner and nobody are the three the router tells
apart; the plans are one that can be ordered and an
address of none (the other kinds differ from the first in what is sent and shown only,
and the proofs cover them), and no account has two `login()`s under way at a time. Two visits are what a late request of an
earlier wizard needs. `user_dashboard` and `owner_dashboard` bound the polls under way
(two overtake each other) and the other requests (one is enough for a handler that
ends over another dialog or form; the owner's second request is another owner's);
`MaxChanges` bounds what happens to users and plans: two saves are a repetition, a
collision or a renaming. Symmetry is used in runs of safety
properties only.

**Fairness.** `TunnelManager!Fairness` says that the worker goes on (`time.Ticker`
never stops, and its database calls return, if only with an error) and that the
scavenger gets the mutex: the worker is the only one to hold it over several
steps, again and again, so weak fairness would not do; `sync.RWMutex` does not
starve a waiting writer. Agents, requests and streams owe nothing. In
`BandwidthQuota!FairSpec` the worker's steps are weakly fair; its UPDATE, which
waits for a row lock that other transactions take again and again, is strongly
fair (PostgreSQL queues the waiters), and so is its turn for each domain, since
a round visits every active one; a payment that was begun ends. In
`PaymentWebhook!FairSpec` a handler that was started goes on, PostgreSQL hands out
the row lock in turn, and Xendit repeats a notification that was not answered 200
(its documented behaviour; nothing in the repository can show it).
In `Gateway!FairSpec` the steps `ServeHTTP` takes by itself and those of the log
worker are weakly fair; clients, agents, answers and the database owe nothing,
and `EntriesAreSaved` speaks of a database that answers in the end.
`Checkout` has no liveness property: `http.Get` may wait for ever.
In `AgentLifecycle!FairSpec` agents and handlers go on, keepalive of yamux finds
what broke, and the scavenger's ticker never stops. Nobody is obliged to start a
relay or an agent again: `Reconnects` speaks of an agent whose relay is up in the
end, `FailingAgentsSlowDown` of one whose relay is not.
In the dashboard, effects run and intervals fire (the browser does it), and every
request ends, if only in an error, which browsers see to. What succeeds is a
premise of the properties: `ShowsWhatTheServerHas` and `ListsFollowTheRelay` speak of a
relay that gives complete answers again and again, and whose rows rest;
`TunnelWizard!Fairness` says that not every answer of an unending poll is lost.
Visitors, customers and owners owe nothing; `ComesToRest` speaks of a tab that is
left alone.

## 4. Proofs

All theorems are for every value of the constants that satisfies the named
assumptions (`NilAssumption`, `BoundAssumption`, `FailAssumption`;
`QuotaAssumption`, `NoRowAssumption`; `PaymentAssumption`; `GatewayAssumption`;
`CheckoutAssumption`; `AgentAssumption`; `WizardAssumption`; `AccountsAssumption`,
`PlanPagesAssumption`; `CustomerAssumption`; `OwnerAssumption`, `NothingAssumption`): the
nil values are not domains, connections, rows or requests, the amounts are natural
numbers. The sets are arbitrary, infinite ones included, but for the slots of the
owner's polls.

`TunnelManagerProofs`. The safety invariants are not inductive alone. `IndInv`
adds: a connection named by `sessions` was added by its handler, and is the only
one that may be open for its domain; a stream beyond its read names one
connection in all three fields; the worker between load and store holds the
counters its domain still has, since the mutex keeps others out; and the bytes
billed plus those in the worker's hands, plus those in the counter when it is
not about to be reset, never exceed the bytes counted. The last is what makes
`NoOverBilling` inductive: the store may forget bytes, it never invents any.
`NextIndInv` has one lemma per action; `CountersAlwaysFollowSession`,
`LiveAgentsStayReachable`, `Attribution`, `NeverOverBills` are consequences, and
`StreamsOpenOnCurrentSession` follows from the invariant before the step.
`ImplementsMeter` proves the refinement: `CountBytes` is `Carry`, a committed
`UpdateBandwidthUsage` is `Charge`, all other steps stutter.
`LossesAreDelimited` says where `manager_race` stops: `Kept` are the bytes of an account
that are billed, with the worker, or in a counter the worker will look at, and only four
kinds of step take counted bytes out of it, each exactly the bytes `Loss` names. They
are the store of `GetStats` over a late addition, a refused quota transaction, a session
replaced or scavenged between two rounds, and a stream that still adds to its counters.
It needs that a connection without a session has counted nothing (`CountersStartEmpty`),
or `AddSession` could bring bytes back. All four kinds do
occur, with two connections of one domain already.

Its second part is about `TunnelSessions`. `SessionsImplementManager` shows that the
table only adds to the manager's steps, so that every theorem above holds of both
together (`SessionsImplementMeter` is one). `RowsNeverOverCount` is about a sum over the
connections of a domain, of which there may be any number: `SumFunctionOnSet` takes one
chosen element after another, so the module first proves what a sum is (`SumIsChosen`),
that the choice does not matter (`SumApart`) and that sums grow with their terms and
their sets (`SumGrows`, `SumGrowsBy`). Induction over finite sets is not available as a
rule; each of these takes a smallest counterexample among the subsets instead
(`SmallestSubset`). The property itself is not inductive: a row may be raised long after
the bytes were carried, when they left the counter. `RowsAreCollected` bounds a row by
the bytes that left the counters of its domain for the rows (`Collected`), which a store
of zero raises by exactly what the worker holds, and only until it was added; a byte that
arrives between load and store is collected too, and in no row. That a handler has
no row before `LogSession` (`NewAgentsHaveNoRow`) keeps rows and agents of one domain.

`BandwidthQuotaProofs`. `DecisionIsSafe` is the heart: what the worker decided
from an old row stays on the safe side, because until its UPDATE payments only
add quota and only lift the throttle, and no one else adds to the usage. With
`LockIsHeld` and the types it is inductive and gives `LedgerAlwaysAddsUp`,
`UsedUpIsThrottled` and `PaymentAloneLiftsThrottle`.

`GatewayProofs`. `EntryIsInOnePlace` is an invariant about numbers: the entries of a
request in the channel, with the worker and dealt with (in the table, reported, or
both) are one together once it was sent, and none before; that the worker holds no
entry which was dealt with keeps a second row out. The lemmas say how many entries
of a request `Append` and `Tail` leave in a sequence. `RingIsNewest` follows
because the ring is the end of `logged`: `SubSeqOfAppend` says that it stays so when
an entry is appended to both, whether or not the ring drops its first.

`PaymentProofs`. Of the rate, `RateInv` says what a fetch in progress knows: the row of
its date is still missing, unless it could not be read, and what it is about to save was
quoted just now. With the order of days that makes a row as recent as its
day and a sleeping worker's rate at most a day and a half old, from which
`RowIsSettled` and `RateIsFresh` follow. `TopupsBuyTheirTier` compares the tests of
`TopupBytes` with the table of tiers, for every amount. `ShownIsCharged` needs
`ShownInv` besides: no row is ahead of the worker's date, and a worker that sleeps after
a fetch without a failure holds in memory what the row of its date says. The row a
checkout reads is then the rate shown, and `SamePrice` compares the two ways to compute
the price, of the service (`PlanPrice`) and of the plan page (`PageTotal`), for every
plan in dollars that is not on sale, every rate and every discount.

Of the webhooks, `PaymentsImplementLedger` needs that only a paid topup reaches
`CommitTopup`, which the types of the handlers' states and the status of their
invoices give; `AnsweredEntered` adds that a handler which is about to answer for
a topup has entered it. `PlanNeverMissing` holds of every step alone: the commit
that deletes also inserts. `SubscriptionsNeverPileUp` delimits what
`MCPaymentWebhook_overlap.cfg` shows: overlapping handlers may leave several rows, but
never more than handlers run at a time (for finitely many). `RowsAreOwned` is why: the rows can be given to
different handlers so that a handler which is activating another plan will delete the
row it owns, since its DELETE began after that row was committed.

`AgentLifecycleProofs`. `Inv` adds `Places` to the safety properties: a handler
about to register its connection has accepted it, and the registered connection
has passed `AddSession`. The second is what keeps a reused record, or a crash
between two steps of a handler, from leaving an open session unregistered.

`PagesProofs`. `SessionInv` explains why `fetchFeatures` may set an answer that
carries no owner: within a document all is of one account (`OneAccount`), unless
Google's callback signs another in, when `loading` hides the pages until the hard
redirect of `LoginPage` ends the document, or a mock login does, which `mixed`
remembers. That a document opened with an account has had no other page, and so
nothing under way, is `StrayInv`. `OrdersInv` and `BusyInv` say that orders live only in
documents with an account, and that the busy flag knows of the one order of its
page; each route that leaves a page resets both. `PagesInv` has them all, one lemma per
action. Of the wizard, `WizardInv` says what each request knows: a save past its first
statement has its key among the rows, an answered one its domain too, and one that
the wizard waits for is of this mount and carries its domain. Rows stay, so
`isSavedInDB` implies them, and the steps behind the first imply `isSavedInDB`.

`UserDashboardProofs`. The dialog is one of a message, a question and none, since every
handler replaces all of it: `DialogAlwaysAsksWhatItDoes` follows, and, with the types of
the requests, `DeletesAreAlwaysConfirmed`: a request to delete a row is only sent while
the open dialog names it. The types are not inductive by themselves: that the relay adds
rows only needs `ChangesNameRows`, which relates the kind of a request to what it is
about. `SavingEndsWithItsRequest` says that the flag two forms share is set only while a
request of one of them is under way; whichever ends first clears it, so the converse
does not hold, and Save may be clicked during the other request.

`OwnerDashboardProofs`. `OwnerImplementsCatalogue` proves the refinement: an UPSERT that finds
the name is `Revise`, one that does not is `Offer`, all else stutters. It needs
`NamesAreKeys`, that no two rows have one name, which the conflict target of the
statement preserves. Since rows stay under their names, all copies of them stay true to
that extent: `ShownPlansExist` says that the lists, the answers under way, the open form
and the saves sent from it only speak of plans the relay has, however old they are. It
is why a refusal for an unknown id need not be modelled.

**Only model-checked.** The liveness properties, since fairness and `ENABLED` are out of
the prover's reach: `GhostsAreRemoved`, `UsageIsCollected`, `LimiterFollowsTheRow`,
`PaidIsEntered`, `Reconnects`, `NobodyServesUnreached`, `FailingAgentsSlowDown`,
`LoggingNeverBlocks`, `EntriesAreSaved`, `ComesToRest`, `CheckoutEnds`, `AgentIsNoticed`,
`ShowsWhatTheServerHas`, `ListsFollowTheRelay`. Every invariant and every other action
property or refinement of the passing runs is a theorem.

## 5. Not modelled

The registration's trial and rate limits (`RegisterAgent` is its row), the agent's
piping of streams and its heartbeat, whose answers nobody reads. The handshake
hands the connection over whole: what `json.NewDecoder` may have read ahead of it is
not modelled. Reads that only format rows, and the totals of `GetStats` and
`GetBandwidthStatus`, which add live counters to rows: a round of the worker between
the two makes a total wrong until the next poll, and nothing says it should not.
`internal/cert` is used by nothing in the relay, `SetupWizard.tsx` is imported by
nothing in the dashboard, `DocsPage.tsx` is text, and OAuth is a dialogue with Google.
Of the dashboard, texts, layout, theme and the numbers of charts are left out, and
so are the statistics and sessions of the owner. Real time is not modelled: the
expiry of the bonus is a step, tickers and intervals are steps. More than one relay
is not: `docker-compose.yml` starts one.

## 6. What could be added

* Theorems: the safety that the liveness properties rest on, such as that a handler of a
  payment which is not answered 200 leaves its invoice to be repeated, or that a poll
  under way always has an answer to come.
* `Registration`: the rate limiter, the trial and the unique MAC address, of two
  users with one device.
* The audit trail as an abstract set of entries, of which each request adds one.
