# A TLA+ development of ctp_system

`ctp_system` is a trading gateway: several client terminals talk to one server
over TCP, the server keeps one CTP trading connection per account and one shared
CTP market-data connection, and it routes instructions to accounts and reports
back to clients. This directory holds TLA+ models of it, the TLC configurations
that check them on small instances, and theorems checked by TLAPS. Paths below
are relative to `src/crates/`; the commit under `src/` is the reference, and a
doc is quoted only where the code disagrees with it.

## 1. The system

```
 client process                 server process                          CTP front
 +---------------+  TCP trade  +-----------+  commands  +------------+  API  +-------+
 | TradingClient |<----------->| gateway   |----------->| trade      |------>| trade |
 |               |             | TcpServer |            | session    |<------| front |
 | MarketData-   |  TCP md     | + Server- |            | actor (one | events+-------+
 | Client        |<----------->| ActorState|            | /account)  |
 +---------------+             | (a mutex) |  commands  +------------+  API  +-------+
   TcpClient with              |           |----------->| market-    |------>| md    |
   reconnection                |           |            | data actor |<------| front |
                               +-----------+            +------------+ events+-------+
```

### Components

| Component | State | Operations | What is hard | What makes it correct |
|---|---|---|---|---|
| **Trade session actor** `server/src/actor/trade.rs` | command channel; `session`; `logged_in_ids`; `order_registry` (OrderRef to the client that placed it) | login, place, cancel, four queries, logout; loops `drive_trade_login`, `drive_cancel_order`, `drive_query_*` | every loop awaits the session's events in the middle of a command, while clients queue commands and the front fails or answers in either order | reports reach the client that placed the order; every command is answered; a session told LoggedIn is usable; nothing of a released session is mistaken for the next one's |
| **CTP trade session and SPI** `server/src/adapter/exchange/trade.rs` | the API handle; `request_id`; `pending_queries`; the event channel | `connect`, `authenticate`, `login`, `confirm_settlement`, `insert_order`, `cancel_order`, `query_*`; one SPI callback per answer | callbacks run on the API's thread and share `pending_queries` with the actor | a query result holds the rows of its own request, all but those the callbacks drop; an answer is for the request it names |
| **Report routing, envelopes** `server/src/actor/common.rs`, `model/src/reports.rs` | `trading_clients`, `market_data_clients`: outbound channel of each client | register, `push_order_report`, `push_trade_report`, `send_*` | a client re-registers under the same id; old channels linger | a push goes to the registered connection of its client |
| **Sessions and permissions** `server/src/session.rs` | clients with bound accounts; `account_states`; subscribers; whitelist | `register_client`, `bind_account`, `set_account_state`, `ensure_*_access` | state outlives the connection it describes | no operation beyond the permission; recorded state matches the account's |
| **Market-data actor** `server/src/actor/data.rs` | `market_data_subscriptions` (instrument to clients); `session`; `logged_in` | subscribe, unsubscribe, remove a client, resubscribe after a login, fan ticks out | the table changes under the mutex, the command is sent after it is released; login waits swallow events | what the front is subscribed to converges to the table; a tick goes to those subscribed when it is looked up |
| **CTP market-data client** `common/src/network/ctp_client`, `server/src/adapter/exchange/md.rs` | connection mode; bounded event channel; `pending_instruments` | connect, login, subscribe, unsubscribe; callbacks | `try_send` drops events when the channel is full | a lost tick is harmless, a lost LoginOk is not |
| **Gateway TCP server** `server/src/adapter/internal` | per connection: reader, writer task, `connected_client_id` | accept, decode, dispatch, clean up at end of file | cleanup is keyed by client id, and an old connection may end after the client came back | cleanup removes only what its connection registered |
| **TCP client** `common/src/network/tcp_client` | `connection_mode`; writer queue; reader, writer, heartbeat and controller tasks | `send_bytes`, `reconnect`, `close`, replay | four tasks share the mode and store it unconditionally | Active stands for one connection with both its halves; one read task; the server ends up told what the user wants; a lost connection is made again; close returns |
| **Backoff** `common/src/network/backoff.rs` | current delay | `next_duration`, `reset` | truncation, the cap, the immediate first attempt | delays stay between the initial and the maximal one and never shrink before a reset |
| **Order reference, field mapping** `model/src/ctp.rs`, `server/src/adapter/exchange/mapping.rs` | none | `normalize_order_ref` (drops what is not alphanumeric, keeps 12 characters) and enum conversions | two ids may collide | idempotent; injective on the ids in use |
| **Client wrappers** `client/src/{connection,trading,market_data}.rs` | list of envelopes to replay | connect, login, subscribe, logout | the list is updated after the send | a reconnection restores registration, logins and subscriptions |
| **Client demo** `client/src/main.rs` | a dozen locals of `main`: flags of the login, queries, order, hold and logout | hello, login, four queries, one passive order and its cancel, a hold of 20 s, logout, exit | answers, acknowledgements and reports come in any order, over a connection that is replaced | it leaves no live order behind, exits when told Disconnected, and gets to its end |
| Wire types, configuration, logging, start-up, smoke test | - | - | - | data or pure I/O; not to be modelled |

### Interactions

* A gateway connection task takes the mutex of `ServerActorState`, checks the
  whitelist, and queues a command on the account's **unbounded command channel**.
  `bind_account` (AccountLogin) is the only operation that spawns the actor.
* The actor is **one task** with a strictly serial mailbox: it takes a command
  only after the previous one ended. While logged in it selects between commands
  and events; while logged out it waits for commands only, and events stay queued.
* The actor calls the CTP API. A request returns nonzero at once (flow control,
  link down) or is answered later by SPI callbacks, which push onto the session's
  **unbounded event channel**. The channel lives as long as the `TradeSession`.
* Reports are pushed to the outbound channel of the registry's client.

### Hazards

`PROJECT.json` lists each place where the code is exposed to something a test
would hardly reach, with its line and the properties that cover it, and a note where the
code itself fails to stand up to it in some instances (section 4) or no property could.

## 2. Modules

| Module | What it holds |
|---|---|
| `TradeSession` | one trading account: gateway operations, actor, session, SPI callbacks, external front; `Spec` and `FairSpec` |
| `AccountService` | abstract: what the gateway promises the clients of an account |
| `TradeProperties` | type invariant, safety invariants, action and liveness properties of `TradeSession`; the refinement mapping to `AccountService` |
| `OrderRefs` | `normalize_order_ref` |
| `MCTrade` | the instances TLC checks |
| `TradeProofs`, `TradeRefinement`, `TradeSafety`, `LoginProofs` | proofs about `TradeSession`: types and routing; the refinement; released sessions, live orders, queries and their results; logins and cancels |
| `MarketData`, `MarketDataProperties`, `MCMarketData` | the market-data side: clients and their connections, the gateway's connection tasks and subscription table, the session actor, the CTP client with its bounded channel, external front |
| `MarketDataProofs`, `MarketSubscriptions` | proofs about `MarketData`: types, what clients are served, ticks and the login; what the front is and will be subscribed to |
| `Backoff` | the delays of `ExponentialBackoff` as functions |
| `TcpClient`, `TcpProperties`, `MCTcp`, `TcpProofs` | the reconnecting TCP client with the one task that uses it, on `Backoff` |
| `Gateway` | extends `TradeSession`: the trading endpoint, its read loops and registrations, and where each envelope goes |
| `ClientFlow`, `FlowProperties`, `MCFlow`, `FlowProofs` | extends `Gateway`: the client program over connections that break; the composition of clients, gateway, actor and front |

The trading and market-data sides of the server share nothing but the process:
`ServerActorState` keeps their tables in different fields, and no command or event passes
from one to the other. `TcpClient` and `ClientFlow` look at one connection at two levels: the first
has every step of the tasks that keep it up, the second only that a connection breaks,
is replaced and starts with the replayed requests.

### How `TradeSession` corresponds to the code

| Variables | Code |
|---|---|
| `account_states`, `commands` | `SessionManager::account_states` of the account; the actor's command channel (`Spawned`: `bind_account` was called) |
| `pc`, `cur`, `rid`, `login_ids` | which `recv().await` the actor's task is parked in, the command being driven, and the locals of that loop: the request id it waits for, `login_ids` of `drive_trade_login` |
| `logged_in_ids`, `order_registry` | the locals of `TradeSessionActor::spawn` |
| `config`, `events`, `request_id`, `pending_queries`, `link` # "None" | the `Option<TradeSession>` and its fields |
| `link`, `front_session`, `last_session`, `requests`, `book` | external: the API's connection, the session at the front, unanswered requests, orders at the exchange |
| `sent` | observation: the envelopes the last step put on outbound channels |
| `issued`, `faults` | bounds on what clients and the outside do |

Between two `recv().await` the actor's task runs alone, so each stretch is one
action. `ClientStep` has one disjunct per gateway method (`BindAccount`,
`PlaceOrder`, `CancelOrder`, `Query`, `LogoutAccount`); `CommandStep` one per way
a command starts or ends in `handle_logged_out_trade_command` and
`handle_logged_in_trade_command`; `EventStep` one per match arm, or group of arms
that do the same, of the event handler and the three kinds of loop; `FrontNext`
one per SPI callback. `order_registry` is written before the request is made and
kept when the API refuses it; `LoginResume` reuses the session of a failed login;
the query loops drop `FrontDisconnected` while the cancel loop ends on it without
logging out; `CTP` error answers through `on_rsp_error` leave the pending entry:
all as in the code.

**Callbacks.** `events` and `pending_queries` change together in one action. In
the code `finish_query`/`take_*` and the send are two steps of the callback
thread, but the actor reads `pending_queries` never and writes only entries of
its new request ids, so nothing can tell the two apart.

**Rows.** A query is answered by one callback per row, the last of which may carry a row or
none. The callbacks append a row to the pending entry only if the conversion to a report reads
it, and positions only if their volume is not 0 (`adapter/exchange/trade.rs` 477-483, 507, 534);
whatever becomes of its row, the last callback answers with what was collected. So a row is
`Good`, `Flat` (of volume 0) or `Unreadable`, `Keeps` is the filter, and the request carries
what the front has sent of each, for `CompleteResults` to compare the answer with. An account is one row that is
not collected. Order reports can always be read here: their direction and offset are those
the server wrote into the order.

**The front is external**, modelled from what the code handles: requests are
answered in order; an order inserted without a session, or with an OrderRef
already used in this session, is rejected; a session is numbered from 1 upwards
(0 is the `unwrap_or_default` of the code, which the front never gives out); a link
failure loses the unanswered requests and ends the session, never the orders; a
fill may come at any time, and nobody is told of it while the account has no
session (the private topics are resumed QUICK, without replay). A
successful cancel is reported by `on_rtn_order`, with or without an
`on_rsp_order_action` before or after it. The API reconnects by itself. A second
login on a live connection answers with the session it has, unless the fault
`secondLogin` happens.

**Faults** are a constant set of kinds with a bound on their number: `connect`
(creating the session fails), `flow` (a request is refused with the link up),
`drop`, `heartbeat`, `loginReject`, `secondLogin`, `orderReject`, `cancelReject`,
`queryReject`, `rspError`.

**Abstractions.** Prices, names, messages and volumes, but for rows of volume 0, are left out; statuses are
Accepted, Filled or Cancelled; a cancel names its order by `client_order_id` or by
`exchange_order_id`, an order's exchange id being its number in `book`; the
mapping of rows of QueryOrders to clients (`trade.rs` 940-954) is part of the
payload; here an envelope is addressed to a client, and `Gateway` says on which
of its connections it goes out; log lines are left out. The branch of
`bind_account` for a closed command channel is unreachable: the actor's task
never drops its receiver. `CHECK_DEADLOCK FALSE` is stated because clients stop
after `MaxCommands` operations, and an actor with nothing queued then rests.

### How `MarketData` corresponds to the code

| Variables | Code |
|---|---|
| `subscriptions`, `conn`, `ops` | `MarketDataClient::subscriptions` and the TCP connection each client has; a bound |
| `conns` | every connection accepted: `inbox` is what the server will read on it, `hello` its `connected_client_id`, `hand` the actor command its task has yet to send |
| `registered`, `table`, `spawned` | `market_data_clients`, `market_data_subscriptions` and `market_data_session` of `ServerActorState` |
| `commands`, `pc`, `cur`, `logged_in` | the actor's channel; whether it is parked in `wait_market_data_login`, about to send a tick (`Fanout`) or to subscribe the table again (`Resubscribe`), and with which command; its flag |
| `outbounds` | the channels `fanout_market_data_tick` has looked up and not yet sent on |
| `events` | the CTP client's channel of `EventBuffer` places |
| `link`, `front_login`, `front_subs`, `requests`, `ticks` | external: the API's connection, and what the front holds of this session |
| `sent` | observation: the ticks the last step put on outbound channels |

**The mutex and the channel.** `subscribe_exchange_market_data` and its siblings
change the table under the mutex of `ServerActorState` and send the command after
releasing it. So `OnSubscribe`, `OnUnsubscribe` and `OnEof` leave the command in the
task's `hand`, `SendCommand` sends it, and steps of other tasks come in between. The
actor itself releases the mutex before it uses what it read: `IdleTick` looks up the
outbound channels of a tick and `Fanout` sends on them, `IdleLoginOk` reads the table after a login and
`Resubscribe` asks the front for it, and any task may change the table in between. The sends are one step, since the channels
are unbounded and no task can tell in which order they were made.

**Connections.** A connection ends with an end of file after what was
written (`Eof`), or with any other read error after a part of it (`Reset`), and the
old one may be read to its end long after the client came back: `Reconnect` is the TCP client
giving a connection up and replaying `reconnect_envelopes`, and `Connect` is a
new process under the same client id (fault `again`). A subscription and its entry in the
replay list change together here; that they do not in the code is in
`TcpClient`.

**The bounded channel.** Each callback is `Emit`, which drops what does not fit, as
`try_send` does. SubscribeOk, SubscribeFailed and HeartBeatWarning are only logged
and share the event `Logged`.

**The front** answers in order, refuses subscriptions without a login, and forgets login,
subscriptions and unanswered requests when the link fails. Faults: `connect`,
`flow`, `drop`, `loginReject`, `subscribeReject`, `rspError`, `heartbeat` of the
front and the API; `again`, `reconnect`, `reset` of clients and their network.

**Left out**: the CTP client's `ConnectionMode`, `close` and `subscribe_configured`, which the
server does not use; contents of ticks; `HelloAck` and errors written to
the peer; frames that are too large or do not parse, which end `read_loop` just as a reset does.

### How `TcpClient` corresponds to the code

| Variables | Code |
|---|---|
| `mode` | `connection_mode`, the atomic all tasks share |
| `reader`, `writer`, `queue` | `run_read_loop`, `run_write_loop` with the connection each holds a half of, and the writer's channel |
| `ctrl`, `attempts`, `backoff`, `delay` | `spawn_controller` inside `reconnect`: which await or store it is at, `reconnect_attempt_count`, the backoff |
| `wanted`, `replay` | `reconnect_payloads`, folded into hello and items; what `reconnect` has yet to replay under their lock |
| `user`, `ops` | the task that calls `subscribe`, `unsubscribe`, `login_account`, `logout_account` or `close`; a bound |
| `net` | external: the connections so far, whether each is up, what the server was told on it |

A task is split where it awaits and between any two accesses to what is shared: the
load of the mode in the read task and the store that follows (`LoadMode`, `StoreReconnect`), the new
read task and the store of Active (`SpawnReader`, `Activate`), the send of an operation and its
entry in the replay list (`Push`, `Note`). An abort takes effect at the next await only
(`Awaiting`). Heartbeats are left out: `ClientConnection` configures none. Faults: `refuse` (a
connection cannot be made), `drop`, `frame` (one that cannot be read), `write` (a write error; without
it a write on a broken connection seems to succeed). `torn` and `missed` of a connection are observations for the properties.
`Backoff` computes with fractions, and allows the floating-point product to
come out just below an exact one.

### How `Gateway` and `ClientFlow` correspond to the code

| Variables | Code |
|---|---|
| `up`, `owed` | per client and connection: what its read loop has yet to read, and what the envelope being handled has yet to send |
| `inbox`, `live` | what is on its way to the client or received; whether its latest connection holds |
| `trading_clients` | `ServerActorState::trading_clients`: the connection a client registered last |
| `reply_tos`, `reply_to` | the `reply_to` channels of the queued commands and of the one being driven |
| `flow` | the locals of `main`, and where it is (`at`); `told` remembers the last two account states |
| `replay`, `replaying`, `breaks` | `reconnect_payloads`; a connection whose replay is to come; a bound |

`Gateway` extends `TradeSession` and conjoins its actions: `ReadLogin` is
`BindAccount`, `ReadCommand` is `SendTradeCommand`, `EndpointCommand`, `EndpointEvent` and
`EndpointFront` are the actor's and front's steps with what they send delivered:
answers on the connection the request was read from, reports on the one registered.
`ReadLogin` leaves the Connecting in `owed`: the lock is released before it is sent, so the
actor may answer first. An old connection is read to its end at any later time. In `ClientFlow` the
head of `main`'s loop does what is due before it receives anything (`QueriesDue` ... `ExitDue`,
`Waiting`). The market-data side of `main` is the first tick (`Tick`), and `GiveUp` is the
120 s deadline or a failure of that side. A replay is one step here; its interleaving with an operation is
`TcpClient`'s subject. `CHECK_DEADLOCK FALSE` is stated because programs end.

The operators commented "Faulty variant" are not part of the specification: each
is a plausible mistake in the definition that follows it, used to confirm that
the property it targets can fail.

## 3. Runs

Runs named `trade_*` instantiate `MCTrade`, `md_*` `MCMarketData`, `tcp_*` `MCTcp`, `flow_*` `MCFlow`; each ends
within three minutes.

| Run | Question | Instance | Result |
|---|---|---|---|
| `trade_core` | With two clients and the link up, do reports reach their owner, cancels name the live session, query loops have their answer coming, results hold the rows that are due, and is every command served? | 2 clients with an id each, 4 commands, 1 rejection, warning or failed connect, up to 2 rows of any kind, fair | holds, 454,875 states |
| `trade_faults` | With anything going wrong at any point, do live orders keep their registry entry, does a released session leave nothing behind, is at most one query in flight, do entries go only with the session, do clients see an `AccountService`? | 1 client whose id normalization changes, 4 commands, any 2 of 10 kinds of fault | holds, 1,152,553 states |
| `trade_relogin` | Is a client told LoggedIn given the ids of the front's session, and does every login end? | 1 client, logins, orders and logouts, 2 link failures, fair | holds, 101,570 states |
| `md_clients` | Does the table end up with what the clients want, are ticks looked up for and sent to those only who want them then? | 2 clients, 1 instrument, 6 operations, 1 fault of the front, link or API, a channel of 2 | holds, 262,080 states |
| `md_faults` | Does the front end up subscribed to what the table holds, and after link failures to nothing more? | 1 client, 2 instruments, 4 operations, 2 link failures | holds, 385,010 states |
| `md_serves` | Is the actor's login real, is it renewed, is every command served? | 1 client, 1 instrument, 4 operations, 2 link failures, reconnections, resets or warnings, fair | holds, 162,958 states |
| `tcp_link` | Is Active true of one connection, is the server told what the user wants, do delays stay in bounds, is a lost connection made again, does close return? | 2 operations and a close, any 2 faults, 1 reconnection attempt at a time, delays of 2 to 3 with jitter, fair | holds, 142,647 states |
| `flow_breaks` | Do reports go to the client's latest connection, and does it leave no live order? | 1 client, 2 queries, 1 break at any of 4 stages, a deadline | holds, 251,575 states |
| `flow_clients` | Do clients that share an account get to their end, exit on Disconnected only, leave no live order, and call the actor only as `TradeSession` says? | 2 clients, the second query-only, 1 query each, fair | holds, 153,258 states |
| `dis_*` | the disagreements of section 4 | one property each | violated |

The properties of the trading core:

* `TypeOK`: the one type invariant; also that every envelope sent has a client to
  go to (a report without registry entry is sent nowhere).
* `ReportsReachOwner`: an OrderUpdate or TradeUpdate goes to the client that
  placed the order, in whichever loop it is received.
* `CancelNamesLiveSession`: a cancel carries the front's session, which the
  actor knows only from the `LoginOk` of the login loop.
* `QueryHasAnswer`: a parked query loop has its request at the front or its
  ending event queued. It fails when the link drops (section 4).
* `CompleteResults`: a result has the rows the front sent for its request that the callbacks
  keep, no more and no fewer, though they are collected in a table from which the late answer
  of an earlier cancel removes an entry meanwhile. One mutant has that answer clear the table, another keeps
  positions of volume 0.
* `LiveOrdersRegistered`, `RegistryOutlivesCommands`: no order of the present
  session is unknown to the registry, which loses entries only with the session.
* `ReleasedSessionIsClean`: no event, pending query, registry entry or
  `logged_in_ids` outlives its session.
* `OneQueryInFlight`: the serial mailbox keeps one query at the front per account.
* `LoggedInIsTrue`: ids announced are the front's, or news of the session's end is
  queued. It holds for link failures alone, and fails when a failed login leaves
  answers behind (section 4).
* `EveryCommandServed`: the actor never wedges while the link holds; nor, when it
  drops, in a login. It does in a query (section 4).
* `ImplementsService`: every behaviour is one of `AccountService`: the mailbox is its queue, the
  command being driven the one it serves, `logged_in_ids` its login, and whatever is sent but reports are its
  answers. So commands are served one at a time and in order, an answer goes to the client being
  served and fits its command, and nobody is told LoggedIn but by a login that leaves the
  actor logged in.

Of market data:

* `ClientsServed`: once everything sent is handled, each client's outbound is its
  present connection's and the table holds just what the client wants. It holds when no
  client id comes back on a new connection (section 4) and no connection is reset.
* `TicksAreWanted`: a tick is taken in hand only for clients that want it then, or whose change
  of mind is still unread, and is sent to nobody else; the channel may lose what it likes. What is handled
  between the lookup and the sends comes too late for that tick (section 4).
* `FrontMatchesTable`: when all is handled and nothing failed, the front is
  subscribed to exactly the table's instruments. For one client: with two, the order of
  their commands is not that of their changes (section 4).
* `NoStraySubscription`: after link failures too, nothing is subscribed that no client wants.
* `LoggedInIsTrue`, `LoginRecovers`, `EveryCommandServed`: `logged_in` is true of the front or
  news of the contrary is queued; after the last link failure the session is logged in again; commands
  do not pile up. None survives a full channel (a lost FrontConnected is never
  repeated) nor, the last two, a rejected login: the actor tries again only
  when the front connects anew. `md_serves` has neither.

Of the TCP client:

* `ServerKnowsWanted`: when all is at rest on a connection that stands, the server
  was told on it just what the wrapper believes it asked for, whatever was lost or replayed before; but
  for a connection whose replay fell between the send and the note of an operation (section 4).
* `SameConnection`, `OneReader`: Active is only true of the newest connection with its read task and its write
  half in place; `reconnect` finds the old read task ended.
* `DelaysGrow`, `NoHotLoop`: delays lie between the initial one and the maximum plus jitter and shrink only after
  a success; only the first reconnection of all goes without one.
* `RecoversUnlessStranded`, `CloseReturns`: liveness of the controller and of `close`, also when a
  reconnection stores Active over its Disconnect.

Of the composition:

* `FlowTypeOK`: also that every connection only ever holds calls its client may make.
* `ReportsReachLatest`: once the old requests and the replay of the latest connection are read, the
  registration is the latest connection's.
* `ExitLeavesNoOrder`: a client that exits cleanly has no live order at the exchange; with breaks too.
* `ExitsWhenTold`: it exits on Disconnected, for connections that hold.
* `KeepsToSession`: projected on the actor's variables, the composition is a behaviour of `TradeSession!Spec`.
* `CompletesUnlessOvertaken`: each program ends as it should, or was left waiting by the
  acknowledgement of section 4.

`RoutingInv`, the invariant of the proof, was also checked by TLC on the instance of
`trade_core` before it was proved. It is no property of a run: it is there to
make `ReportsReachOwner` inductive.

### Bounds

Every hazard of the core takes at most four commands: a login, an order, a cancel or
query racing it and a logout or second login. Two faults allow a failure during the
recovery from another. Two clients are the least that can be confused with one
another; `trade_faults` and `trade_relogin` ask questions about
one actor and its session, which does not look at the client except to address
its replies, so one client is enough there and leaves room for faults. Two rows let one be
kept and the other dropped, each collected or in the last callback; the other runs, whose
properties do not look at rows, have at most one.

Six operations let two clients connect, share an instrument and leave it one after the
other; a subscription, an unsubscription and a login each may cross a link failure within
four. One instrument suffices where clients are confused, two where a
request is only partly new. The channel really has 4,096 places: `md_clients` gives it two so
that it overflows, the other runs so many that it does not. `md_clients` is symmetric in
its clients, which no definition tells apart.

Two faults of a TCP client let a second connection fail while the first is being replaced, which is
where its tasks race; two operations let one be under way in a reconnection and another
follow it. Milliseconds do not matter to the interleavings: delays of 2 to 3 with a factor of 3/2
have the product truncated, capped and exact. One break per client program at each stage
after the first acknowledgement covers every phase the replay list has then; `MaxCommands` of 20 is more than the
programs call. The two-character references of `MCTrade` let an id be left alone, cut down
and merged with another; an assumption TLC evaluates checks `normalize_order_ref` on all values of
up to four characters.

### Fairness

`FairSpec` assumes weak fairness of the actor's step (the tokio runtime polls a
ready task again, and its `select!` picks among ready branches at random), of the
reconnection, which the CTP API does by itself, and of the front answering
the requests it received. Fills, faults and clients have none. `trade_core`
has no `drop`: the code has no timeout, so a lost request is never answered (section 4).

The market-data `FairSpec` assumes the same of the actor, the reconnection and the
answers, and of each connection's task, which tokio polls until it ends.

The TCP client's assumes it of each task where it can run: the controller polls the mode every
100 ms whatever notifications it missed, and `close` gives up after five seconds. Nobody has to call
an operation, and faults need not happen. `FairFlow` assumes the least that keeps a
system going: some task with something to do, or the front with something to answer, does it (`Moves`). Since a client program
makes finitely many steps, that is enough for it to get to its end.

## 4. Where code and documents disagree

| Run | What the code does |
|---|---|
| `dis_credentials` | a login with a wrong password leaves its session; the next login resumes it, sends nothing and waits for ever, whatever its own password |
| `dis_tcp_reconnect` | a write error ends the write task for good, and every later attempt fails on its closed channel; a connection that fails between the start of its read task and the store of Active leaves the client Active on nothing |
| `dis_flow_login` | the actor completes a full login, or finds the account logged in, before the gateway has sent the Connecting of that login; the client takes Connecting for the last word and waits until its deadline of 120 s |

The lines and the sentences they contradict are in `PROJECT.json`.

**Where the properties stop holding.** These instances of the same modules, which are not among the runs,
violate a property that a run checks on another instance:

| Property | Fails with | What the code does |
|---|---|---|
| `QueryHasAnswer` | 2 clients, 1 fault, `Faults` = {drop} or {rspError} | a query loop ignores the disconnection that lost its request, or the unspecific error that answered it, and blocks the account (`actor/trade.rs` 801), though `docs/机考提交说明.md` 236 has the client print all four results |
| `LoggedInIsTrue` (trading) | 1 client, 2 faults of {drop, x} with x one of flow, loginReject, rspError; or drop and a query or cancel | a login that receives the settlement confirmation of an earlier attempt reports LoggedIn with ids (0, 0) (591), though 235 has it complete the login first; or a loop swallows the disconnection |
| `ReportsReachOwner` | 2 clients, `OrderIds` = `PlainAndMarked` | two ids that normalize to one OrderRef send one client the reports of the other's order (704), though 41 and `model/src/reports.rs` 18 have them sent back to the originating client |
| `FrontMatchesTable` | 2 clients, 1 instrument, no faults | the commands of two clients that leave and join an instrument overtake one another, and the one that joined gets no ticks (`actor/data.rs` 180, 195), though 64 has ticks broadcast to all subscribers |
| `NoStraySubscription` | `Faults` with any of again, reconnect, flow, rspError, or loginReject after a drop | an unsubscription the API refuses or the front answers with an error is not repeated; one sent while the login is not renewed is lost with it |
| `LoggedInIsTrue` (market data) | `EventBuffer` = 1 | the callback of the disconnection finds the channel full and drops the event |
| `ClientsServed` | 1 client, `Faults` = {reconnect}, {again} or {reset} | the late end of a client's old connection removes the registration and subscriptions of the new one (226), though 42 has them restored |
| `ReportsReachLatest` | a break before the first acknowledgement, or two breaks | the gateway reads the hello left on the old connection after the new one's, or the new connection had none to replay yet: reports go to the dead connection (`trading.rs` 36, `actor/common.rs` 116) |
| `ExitsWhenTold` | 1 break | the Connecting of a replayed login is taken for the end of the logout, and the client exits before it (`main.rs` 113, 125) |
| `ServerKnowsWanted` without its `torn` | `tcp_link` | a reconnection between the send and the note of an operation replays the list without it |

Further behaviour the models have because the code has it, which no property is stated about:

* `drive_cancel_order` and the query loops receive FrontDisconnected and leave
  `logged_in_ids` set (`actor/trade.rs` 764, 801).
* A Logout taken while logged out after a disconnection answers Disconnected and
  keeps the session (336).
* A query the API refuses gets no reply: `?` leaves the handler, which logs (781).
* A cancel is recognised by `client_order_id` as written, not normalized (729): when normalization
  changes it and the front confirms by the order return alone, the loop never ends.
* A market-data command that waits for the login receives its LoginOk, and the
  table is not subscribed again (`actor/data.rs` 300).
* The instruments of a table changed while the link was down are subscribed by that
  command only, and a command whose connect or login fails is dropped (265, 138).
* A login the market-data front rejects is repeated only when the front connects anew (290).
* The client of an order the front rejects is told nothing: the event is only logged, and the
  program waits until its deadline (`actor/trade.rs` 513).
* A tick that was looked up is sent although an unsubscription or the end of its client's
  connection is handled before the send: the lock is released in between (`actor/data.rs` 425-451).
* Rows of a query that the conversion cannot read, and positions of volume 0, are dropped
  without a word (`adapter/exchange/trade.rs` 477-483, 507, 534).
* A connection that is reset leaves its client registered and subscribed
  (`tcp_server.rs` 98).

## 5. Proofs

All theorems are proved for every value of the constants that satisfies the assumptions
declared in the modules: `ConstantsAssumption`, `OrderRefAssumption` (`normalize_order_ref` is an idempotent
function on ids) and `NoCommandAssumption` of `TradeSession`, `QueriesAssumption` of `ClientFlow`,
`BackoffAssumption` (what `ExponentialBackoff::new` accepts) and `TcpAssumption`, `MarketDataAssumption`
(the instruments are finitely many) and `NoCommandAssumption` of `MarketData`. TLC evaluates them in the runs. A
theorem that needs more says so in its statement, and section 4 has the instances that need
it. What is proved of `Spec` for a set of `Faults` covers any number of each.

### The trading core: `TradeProofs`, `TradeRefinement`, `TradeSafety`, `LoginProofs`

* **`TypeCorrect`**: `Spec => []TypeOK`. One lemma per action or group of
  actions with the same frame, on lemmas about what queues, commands, requests and events carry.
* **`ReportsCorrect`**: `Spec => []ReportsReachOwner` under `DistinctOwners`, that
  no two clients use ids that normalize to one OrderRef. Section 4 has the instance that needs it.
* **`Implements`**: `Spec => ImplementsService`. Every action maps to an action of `AccountService` or to a
  `Quiet` one; each lemma names the one. Besides the types it needs `DrivesLogin`, that the login
  loop drives a Login: then what each loop answers fits the command it is driven for.

`ReportsReachOwner` speaks of the envelopes of one step and is not inductive. The
argument needs to know why the registry and the book agree when an order
that was placed under an earlier session, or whose entry was overwritten since, is
reported. `RoutingInv` says that of each place a reference can be in: a queued
PlaceOrder carries one of its client's ids, a registry entry belongs to a client
that owns its reference, so do the order inserts on their way and the orders of
the book, and a queued report names an order of the book under its own
reference (and when it says that the order is over, so does the book). A report is pushed to the client of its registry entry
(`SentReports`: no other step sends one); that client and the order's both own the
reference, hence are the same (`PushReachesOwner`). The inductive invariant is
`TypeOK /\ RoutingInv /\ ReportsReachOwner`.

`TradeSafety`, with any faults unless said otherwise:

* **`ReleasedSessionCorrect`** (`ReleasedSessionIsClean`) and **`RegistryCorrect`** (`RegistryOutlivesCommands`).
  `ReleasedInv`: without a session the actor is idle and logged out, and channel,
  `pending_queries`, registry and requests are empty. A callback needs a connection, which only a session has.
* **`LiveOrdersCorrect`** (`LiveOrdersRegistered`). The book gains an order when the front takes an insert, long
  after the registry was written. So `LiveInv` says it of the inserts on their way too, and that no
  order of the book has a session number still to be given out: a new session has none yet.
* **`OneQueryCorrect`** (`OneQueryInFlight`) and **`CompleteCorrect`** (`CompleteResults`). Request ids only grow
  (`IdsInv`); a query at the front is the one the actor is parked for (`QueryInv`), and the entry
  of `pending_queries` under its id has the rows that are due of those the front sent for it so far
  (`CompleteInv`): a row that is kept adds one to both, and one that is dropped to neither (`DueRows`).
* **`QueryAnswerCorrect`** (`QueryHasAnswer`), without drop and rspError: a loop passes over
  reports and other requests' answers only, and a request leaves the front with its answer queued.

`LoginProofs`: **`LoggedInCorrect`** (`LoggedInIsTrue`) and **`CancelCorrect`** (`CancelNamesLiveSession`), under
`LoginsInOrder` (the API refuses nothing over a link that is up, the front rejects no login step) and
`DisconnectionsHeard` (no loop but the login's runs while the link may drop). The actor learns session numbers from a
queue that still holds news of earlier connections. `LoginInv` calls an event current when
no disconnection is queued after it, and says: only current LoginOk name the front's session
(`NumbersInv`), which is known or announced, ahead of any current confirmation (`OrderInv`); an authenticated
connection had good credentials (`CredentialsInv`); a loop but the login's finds the actor logged in (`LoopInv`).

### Market data: `MarketDataProofs`, `MarketSubscriptions`

* **`MarketTypeCorrect`**: `TypeOK`, the bound of the channel included.
* **`ServedCorrect`** (`ClientsServed`) and **`TicksCorrect`** (`TicksAreWanted`), under `ClientsComeOnce`:
  neither again, reconnect nor reset. `TicksCorrect` is about the lookup and what is sent of it, `Fanout` being
  a step of its own. `ServedInv`: a client has one connection, and what is still to be read on it turns the
  client's rows of the table into what it wants; an end of file comes last, and its cleanup is the client's own.
* **`LoginKnownCorrect`** (`LoggedInIsTrue`), for behaviours in which the channel has room when the link
  drops. This is a hypothesis on behaviours: a full channel is what breaks the property, and
  the theorem says that nothing else does, any fault included. `LoginKnown` says it of the LoginOk still in the channel as well.
* **`NoStrayCorrect`** (`NoStraySubscription`) under `OrderlyFront`. `Due` is what the front will be subscribed to
  after the requests on their way, the command being driven and those queued. `NoStrayInv`: an instrument
  that is due and in nobody's row has an unsubscription in the hand of a connection task, and a
  task that is about to subscribe has its client in the row. Only the second part makes the first
  inductive, since the table changes before the command is sent.
* **`FrontMatchesCorrect`** (`FrontMatchesTable`) for one client. `MatchInv`: as long as nothing failed, `Due` read with the
  one command in hand is the table. TLC checked `MatchInv` before it was proved.

### The TCP client: `TcpProofs`

* **`TcpTypeCorrect`**, **`ActiveOnOneConnection`** (`SameConnection`), **`OneReaderCorrect`** (`OneReader`): from the
  inductive invariant `TypeOK /\ LinkInv`.
* **`DelaysCorrect`**: `DelaysGrow`, for a factor above one. With a factor of exactly one the
  truncated product of an exact delay may be a millisecond less, so the assumption is needed.
* **`NoHotLoopCorrect`** (`NoHotLoop`): an immediate first attempt belongs to the first connection only (`ImmediateInv`).
* **`ServerKnowsCorrect`** (`ServerKnowsWanted`): from `UserInv` and `ToldInv`, which TLC checked on 2,494,853 states first.

`SameConnection` fails to be inductive because it does not know where the controller is. `PhaseInv` says
that the mode is not Active from the sleep before an attempt to the store of Active (only the controller
makes it Active), that the write task has the newest connection from the
acknowledgement on, and that while the mode is Reconnect the read task has
ended, unless its replacement was just started. `UpdateInv` is about the writer's channel: at
most one new write half is queued, it is the newest connection's, and then the controller awaits its acknowledgement or
was aborted there. Together they exclude an old write half that is swapped in late, and a
read task of an old connection that stores Reconnect over a new one's Active.

`ServerKnowsWanted` speaks of rest. `ToldInv` says where a fact about the newest connection is
meanwhile: what the server knows of it, with the writer's channel read in order and what remains of the replay, is what the
wrapper believes, counting an operation that is sent and not yet noted. Before the replay only one direction
holds, that nothing is told which is not believed; and no removal is ever replayed.

### The composition: `FlowProofs`

* **`KeepsSession`**: `FlowSpec => KeepsToSession`: clients, connections and gateway call the actor only as
  `TradeSession` says. The invariant is that every connection holds only calls its client may
  make (`CallsInv`): programs put them there, replays repeat them, a break or an
  exit keeps a prefix, and a client learns exchange ids only from reports of orders in the book.
* **`FlowImplements`**, **`FlowReportsCorrect`**: with that, `Implements` and `ReportsCorrect` hold
  of the composition. So does every other theorem about `Spec`, by the same two steps.
* **`FlowTypeCorrect`** (`FlowTypeOK`): `ShapeInv` adds that each connection has its read loop,
  each queued command its reply channel, and that an inbox holds only replies the endpoint sends.
* **`ExitsCorrect`** (`ExitsWhenTold`) on connections that hold (`MaxBreaks = 0`; section 4 has the break that
  needs it), with any faults, queries and impatience of any number of clients. Why can no Connecting or LoggedIn
  of a client's own login be the last state it hears? Its program sends a query only once told LoggedIn and places
  its order only after a result, and the mailbox is served in order. `InTurn` follows a client's calls through
  connection, owed acknowledgement, mailbox and actor: its one login comes before everything else (`LoginFirst`), so
  the result of a query stands in the inbox behind all it is told of that login (`ResultsLast`). TLC checked
  it on the constants of `flow_clients` and on one client with four kinds of fault.
* **`NoOrderLeftCorrect`** (`ExitLeavesNoOrder`) under `DistinctOwners`, whatever breaks or fails. The update that
  ends a program's wait may be of any of its orders, so why is none left live? `OneOrder` follows the one order a
  client places from its call through mailbox and requests to the book: it is in one of the four places at most, and
  in none before `order_sent`; replays never repeat it. `KnowsOver` says that an update in an inbox that ends an order
  is true of the book and of the client's own order, which is where `ReportsReachOwner` is needed. TLC checked
  `OrderInv` on the constants of both flow runs and on one client with a break and a fault.
* **`LatestCorrect`** (`ReportsReachLatest`) for one break in all, after the first acknowledgement; section 4 has the
  instances that need both. A program goes on with the first envelope it receives, whatever it is, and then expects to be
  registered. `Greeting` says that it may: until its hello is read, no command of its is queued or served, so the only
  answer is the hello's, and a report is sent to registered clients only. `Following` says that the old connection has
  no hello any more, so the one replayed on the new connection is the last to be read. TLC checked `KnownInv` on the
  constants of `flow_breaks`.

### Only model-checked

The liveness properties, since fairness and ENABLED are beyond the prover, and `normalize_order_ref`, which
is recursive over its characters. Every safety property of a run is a theorem. For each property that is proved under an assumption, the
instances without it are TLC's (section 4).

## 6. Not modelled

* The heartbeat task of the TCP client and its configuration: no client of the repository turns it on.
* `ConnectionMode`, `close` and `subscribe_configured` of the CTP market-data client, which the server does not use.
* `bound_accounts` and subscribers of `SessionManager`, which are written and never read.
* Conversions of CTP fields and enums (`mapping.rs`, `ctp.rs` but for the order reference): no state,
  and no property here depends on a price, or on a volume but that it is 0.
* Pure I/O: configuration, logging, start-up, the credentials file, the smoke test program.
* Data without behaviour: wire and domain types.

## 7. What could come next

In order of weight: an abstract set of
instruments the front comes to serve, implemented by `MarketData` where the order of commands is that of changes; a composition of
`TcpClient` with `ClientFlow`'s program, whose connection would then be the detailed one; several accounts per client.

## 8. Running

```
tlc -workers 2 -config trade_core.cfg MCTrade      # any .cfg of this directory
tlapm TradeProofs.tla                            # or any other module with theorems, in up to ten minutes
```
