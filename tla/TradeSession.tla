----------------------------- MODULE TradeSession -----------------------------
(***************************************************************************)
(* One CTP trading account: the gateway operations of ServerActorState     *)
(* that reach it, its TradeSessionActor (crates/server/src/actor/trade.rs),*)
(* the TradeSession it owns with the SPI callbacks that feed its event     *)
(* channel (crates/server/src/adapter/exchange/trade.rs), and the CTP      *)
(* front, which is external.                                               *)
(*                                                                         *)
(* The actor is one task: it handles a command to its end before it takes  *)
(* the next.  Handlers that await events are split at every recv, so that  *)
(* callbacks, clients and link failures interleave with them; pc names the *)
(* loop the task is parked in.                                             *)
(***************************************************************************)
EXTENDS Integers, Sequences, FiniteSets

CONSTANTS
    Clients,       \* client ids
    Permission,    \* the whitelist entry of each client for this account
    OrderIds,      \* client_order_id values
    OrderRef,      \* normalize_order_ref, a function on OrderIds
    IdsOf,         \* the client_order_ids each client uses
    Operations,    \* the operations clients call
    Credentials,   \* the credentials clients log in with
    Faults,        \* what the outside may do wrong
    MaxCommands,   \* bound: operations called by clients
    MaxFaults,     \* bound: faults that happen
    MaxRows,       \* bound: rows in the answer to a query
    NoClient, NoId, NoCommand

QueryOps == {"QueryAccount", "QueryPosition", "QueryOrders", "QueryTrades"}
Ops == {"Login", "PlaceOrder", "CancelOrder", "Logout"} \cup QueryOps
Permissions == {"Full", "TradeOnly", "QueryOnly", "None"}
AnyCredentials == {"right", "wrong"}
FaultKinds == {"connect", "flow", "drop", "loginReject", "secondLogin", "orderReject",
               "cancelReject", "queryReject", "rspError", "heartbeat"}

(* normalize_order_ref is idempotent, and a CTP order reference is itself a *)
(* client_order_id a client could have chosen.                              *)
ASSUME OrderRefAssumption ==
    /\ OrderRef \in [OrderIds -> OrderIds]
    /\ \A id \in OrderIds : OrderRef[OrderRef[id]] = OrderRef[id]

ASSUME ConstantsAssumption ==
    /\ Permission \in [Clients -> Permissions]
    /\ IdsOf \in [Clients -> SUBSET OrderIds]
    /\ Operations \subseteq Ops
    /\ Credentials \subseteq AnyCredentials
    /\ Faults \subseteq FaultKinds
    /\ MaxCommands \in Nat /\ MaxFaults \in Nat /\ MaxRows \in Nat
    /\ NoClient \notin Clients
    /\ NoId \notin OrderIds

Refs == {OrderRef[id] : id \in OrderIds}

NoIds == -1        \* logged_in_ids and login_ids: None
DefaultIds == 0    \* the (0, 0) of unwrap_or_default; no front session has it

VARIABLES
    \* gateway
    account_states,   \* SessionManager::account_states of this account
    issued,           \* operations called so far
    commands,         \* the actor's command channel
    \* actor
    pc,               \* the loop the task is parked in
    cur,              \* the command being driven
    rid,              \* the request id the loop waits for
    login_ids,        \* the local login_ids of drive_trade_login
    logged_in_ids,
    order_registry,   \* OrderRef -> the client of its OrderContext
    \* session
    config,           \* the credentials the session was created with
    events,           \* the session's event channel
    request_id,
    pending_queries,
    \* front
    link,             \* the API's connection to the front; None without a session
    front_session,    \* the session the front has logged in, 0 if none
    last_session,     \* the last session number the front gave out
    requests,         \* requests on their way to the front, in order
    book,             \* the orders the exchange accepted
    faults,           \* faults so far
    \* observation
    sent              \* the envelopes the last step put on outbound channels

gatewayVars == <<account_states, issued, commands>>
actorVars == <<pc, cur, rid, login_ids, logged_in_ids, order_registry>>
sessionVars == <<config, events, request_id, pending_queries>>
frontVars == <<link, front_session, last_session, requests, book, faults>>
vars == <<gatewayVars, actorVars, sessionVars, frontVars, sent>>

-------------------------------------------------------------------------------
(* Messages *)

(* The rows that answer a query, as on_rsp_qry_* tell them apart: a row of *)
(* volume 0, and one that the conversion to a report refuses.              *)
RowKinds == {"Good", "Flat", "Unreadable"}
RowCounts == [RowKinds -> Nat]
NoRows == [row \in RowKinds |-> 0]

Commands ==
    [op : {"PlaceOrder"}, client : Clients, id : OrderIds, exch : Nat, credentials : AnyCredentials]
    \cup [op : Ops \ {"PlaceOrder"}, client : Clients, id : OrderIds \cup {NoId},
          exch : Nat, credentials : AnyCredentials]

ASSUME NoCommandAssumption == NoCommand \notin Commands

Order == [ref : Refs, client : Clients, session : Nat,
          status : {"Accepted", "Filled", "Cancelled"}]

Requests ==
    [kind : {"Authenticate", "UserLogin", "Settlement"}, rid : Nat]
    \cup [kind : {"OrderInsert"}, rid : Nat, ref : Refs, client : Clients]
    \cup [kind : {"OrderAction"}, rid : Nat, ref : Refs \cup {NoId},
          exch : Nat, session : Int]
    \cup [kind : QueryOps, rid : Nat, rows : RowCounts]

Events ==
    [type : {"FrontConnected", "FrontDisconnected", "HeartBeatWarning",
             "AuthenticateOk", "AuthenticateFailed", "LoginFailed",
             "SettlementConfirmed", "SettlementConfirmFailed",
             "OrderInsertRejected"}]
    \cup [type : {"LoginOk"}, ids : Nat]
    \cup [type : {"Error", "QueryFailed", "CancelActionOk", "CancelActionFailed"},
          rid : Nat]
    \cup [type : {"OrderReturn"}, order : Nat, ref : Refs,
          status : {"Accepted", "Filled", "Cancelled"}]
    \cup [type : {"TradeReturn"}, order : Nat, ref : Refs]
    \cup [type : {"QueryReady"}, op : QueryOps, rid : Nat, rows : Nat, of : RowCounts]

PendingQueries == [rid : Nat, op : QueryOps \cup {"CancelOrder"}, rows : Nat]

ConnectionStates == {"Connecting", "Authenticating", "LoggedIn", "Disconnected", "Error"}

Envelopes ==
    [to : Clients, type : {"AccountState"}, state : ConnectionStates, ids : Int]
    \cup [to : Clients, type : {"Error"}]
    \cup [to : Clients, type : {"OrderUpdate", "TradeUpdate"}, order : Nat]
    \cup [to : Clients, type : {"QueryResult"}, op : QueryOps, rows : Nat]

Event(type) == [type |-> type]

(* send_account_state, send_error and account_state of actor/common.rs. *)
AccountStateTo(c, state) ==
    [to |-> c, type |-> "AccountState", state |-> state, ids |-> NoIds]
LoggedInTo(c, ids) ==
    [to |-> c, type |-> "AccountState", state |-> "LoggedIn", ids |-> ids]
ErrorTo(c) == [to |-> c, type |-> "Error"]

(* Definitions marked "Faulty variant" are not part of the model: each is  *)
(* a plausible mistake in the definition after it that the checks reject.  *)

(* Faulty variant: a report received while a command is driven is pushed   *)
(* to the client of that command.                                          *)
PushToCaller(type, e) ==
    {[to |-> c, type |-> type, order |-> e.order] :
        c \in (IF pc = "Idle" THEN {order_registry[e.ref]} ELSE {cur.client}) \ {NoClient}}

(* Faulty variant: a report without a registry entry is sent all the same. *)
PushUnchecked(type, e) ==
    {[to |-> order_registry[e.ref], type |-> type, order |-> e.order]}

(* push_order_report and push_trade_report: a report goes to the client of *)
(* its registry entry, and nowhere when there is none.                     *)
Push(type, e) ==
    {[to |-> c, type |-> type, order |-> e.order] :
        c \in {order_registry[e.ref]} \ {NoClient}}

-------------------------------------------------------------------------------
Init ==
    /\ account_states = "Unset"
    /\ issued = 0
    /\ commands = <<>>
    /\ pc = "Idle"
    /\ cur = NoCommand
    /\ rid = 0
    /\ login_ids = NoIds
    /\ logged_in_ids = NoIds
    /\ order_registry = [r \in Refs |-> NoClient]
    /\ config = "none"
    /\ events = <<>>
    /\ request_id = 0
    /\ pending_queries = {}
    /\ link = "None"
    /\ front_session = 0
    /\ last_session = 0
    /\ requests = <<>>
    /\ book = <<>>
    /\ faults = 0
    /\ sent = {}

(* bind_account is the one place that records a state for an account and   *)
(* the one that spawns its actor.                                          *)
Spawned == account_states # "Unset"

(* session.is_some() *)
HasSession == link # "None"
LinkUp == link \in {"Connected", "Authenticated"}

Fault(f) ==
    /\ f \in Faults
    /\ faults < MaxFaults
    /\ faults' = faults + 1

-------------------------------------------------------------------------------
(* Gateway: the ServerActorState methods, each under the state's mutex.    *)

CanRead(c) == Permission[c] \in {"Full", "QueryOnly"}
CanWrite(c) == Permission[c] \in {"Full", "TradeOnly"}

Enqueue(op, c, id, exch, credentials) ==
    /\ op \in Operations
    /\ issued < MaxCommands
    /\ issued' = issued + 1
    /\ commands' = Append(commands, [op |-> op, client |-> c, id |-> id,
                                     exch |-> exch, credentials |-> credentials])
    /\ UNCHANGED <<actorVars, sessionVars, frontVars>>

BindAccount(c, credentials) ==
    /\ Permission[c] # "None"
    /\ Enqueue("Login", c, NoId, 0, credentials)
    /\ account_states' = "Connecting"
    /\ sent' = {AccountStateTo(c, "Connecting")}

(* send_trade_command, and the same steps in place_order: without an actor *)
(* the request is an error and changes nothing.                            *)
SendTradeCommand(op, c, id, exch) ==
    /\ Spawned
    /\ Enqueue(op, c, id, exch, "right")
    /\ UNCHANGED account_states
    /\ sent' = {}

PlaceOrder(c) ==
    /\ CanWrite(c)
    /\ \E id \in IdsOf[c] : SendTradeCommand("PlaceOrder", c, id, 0)

(* A cancel names an order by client_order_id, by exchange_order_id or by  *)
(* both; whose order the exchange's id names is not checked.               *)
CancelOrder(c) ==
    /\ CanWrite(c)
    /\ \E id \in IdsOf[c] \cup {NoId}, exch \in {0} \cup DOMAIN book :
          /\ id # NoId \/ exch # 0
          /\ SendTradeCommand("CancelOrder", c, id, exch)

Query(c) ==
    /\ CanRead(c)
    /\ \E op \in QueryOps : SendTradeCommand(op, c, NoId, 0)

LogoutAccount(c) ==
    /\ CanWrite(c)
    /\ SendTradeCommand("Logout", c, NoId, 0)

ClientStep ==
    \E c \in Clients :
        \/ \E credentials \in Credentials : BindAccount(c, credentials)
        \/ PlaceOrder(c)
        \/ CancelOrder(c)
        \/ Query(c)
        \/ LogoutAccount(c)

-------------------------------------------------------------------------------
(* Requests of the session.  A request that the API takes travels to the   *)
(* front; it refuses one while the link is down, or by its flow control.   *)

Accepted(r) ==
    /\ LinkUp
    /\ requests' = Append(requests, r)
    /\ UNCHANGED faults

Refused ==
    /\ \/ ~LinkUp /\ UNCHANGED faults
       \/ Fault("flow")
    /\ UNCHANGED requests

NextRequestId == request_id + 1

(* authenticate, login and confirm_settlement; an error of theirs leaves   *)
(* drive_trade_login, which ends the command with an Error state.          *)
LoginRequest(kind, ids, replies) ==
    /\ request_id' = NextRequestId
    /\ \/ /\ Accepted([kind |-> kind, rid |-> NextRequestId])
          /\ login_ids' = ids
          /\ sent' = replies
          /\ UNCHANGED <<pc, cur>>
       \/ /\ Refused
          /\ sent' = replies \cup {AccountStateTo(cur.client, "Error")}
          /\ pc' = "Idle" /\ cur' = NoCommand /\ login_ids' = NoIds

-------------------------------------------------------------------------------
(* The actor's commands                                                    *)

TakeCommand ==
    /\ pc = "Idle"
    /\ commands # <<>>
    /\ commands' = Tail(commands)
    /\ UNCHANGED <<account_states, issued>>

LoggedOut == logged_in_ids = NoIds

(* Commands that end without touching the session or the registry. *)
Reply(envelopes) ==
    /\ sent' = envelopes
    /\ UNCHANGED <<actorVars, sessionVars, frontVars>>

LoggedOutReject ==
    /\ LoggedOut
    /\ TakeCommand
    /\ Head(commands).op \notin {"Login", "Logout"}
    /\ Reply({ErrorTo(Head(commands).client)})

LoggedOutLogout ==
    /\ LoggedOut
    /\ TakeCommand
    /\ Head(commands).op = "Logout"
    /\ Reply({AccountStateTo(Head(commands).client, "Disconnected")})

StartLogin(cmd) ==
    /\ pc' = "Login"
    /\ cur' = cmd
    /\ login_ids' = NoIds
    /\ sent' = {AccountStateTo(cmd.client, "Connecting")}
    /\ UNCHANGED <<rid, logged_in_ids, order_registry>>

(* drive_trade_login with no session: TradeSession::new and connect. *)
LoginConnect ==
    /\ LoggedOut /\ ~HasSession
    /\ TakeCommand
    /\ Head(commands).op = "Login"
    /\ StartLogin(Head(commands))
    /\ config' = Head(commands).credentials
    /\ link' = "Down"
    /\ UNCHANGED <<events, request_id, pending_queries, front_session,
                   last_session, requests, book, faults>>

LoginConnectFails ==
    /\ LoggedOut /\ ~HasSession
    /\ TakeCommand
    /\ Head(commands).op = "Login"
    /\ Fault("connect")
    /\ sent' = {AccountStateTo(Head(commands).client, "Error")}
    /\ UNCHANGED <<actorVars, sessionVars, link, front_session,
                   last_session, requests, book>>

(* With a session left from an earlier login the loop just resumes on it. *)
LoginResume ==
    /\ LoggedOut /\ HasSession
    /\ TakeCommand
    /\ Head(commands).op = "Login"
    /\ StartLogin(Head(commands))
    /\ UNCHANGED <<sessionVars, frontVars>>

LoggedInLogin ==
    /\ ~LoggedOut
    /\ TakeCommand
    /\ Head(commands).op = "Login"
    /\ Reply({LoggedInTo(Head(commands).client, logged_in_ids)})

(* Faulty variant: an order the API refuses loses its registry entry. *)
RegisterIfAccepted(cmd) ==
    [order_registry EXCEPT ![OrderRef[cmd.id]] =
        IF requests' = requests THEN NoClient ELSE cmd.client]

Register(cmd) == [order_registry EXCEPT ![OrderRef[cmd.id]] = cmd.client]
(* Faulty variant: logout forgets the registry. *)
KeepRegistry == UNCHANGED order_registry

ClearRegistry == order_registry' = [r \in Refs |-> NoClient]

(* register_and_insert_order: the registry entry is written before the     *)
(* request is made, and stays when the API refuses it.                     *)
InsertOrder ==
    LET cmd == Head(commands) IN
    /\ ~LoggedOut /\ HasSession
    /\ TakeCommand
    /\ cmd.op = "PlaceOrder"
    /\ request_id' = NextRequestId
    /\ \/ /\ Accepted([kind |-> "OrderInsert", rid |-> NextRequestId,
                       ref |-> OrderRef[cmd.id], client |-> cmd.client])
          /\ sent' = {}
       \/ /\ Refused
          /\ sent' = {ErrorTo(cmd.client)}
    /\ order_registry' = Register(cmd)
    /\ UNCHANGED <<pc, cur, rid, login_ids, logged_in_ids, config, events,
                   pending_queries, link, front_session, last_session, book>>

(* register_query *)
RegisterQuery(op) ==
    pending_queries' = pending_queries
        \cup {[rid |-> NextRequestId, op |-> op, rows |-> 0]}

(* A cancel or query registers its pending entry, makes its request and    *)
(* waits; when the API refuses, the handler returns and nobody is told.    *)
StartRequest(loop, r) ==
    /\ request_id' = NextRequestId
    /\ RegisterQuery(Head(commands).op)
    /\ \/ /\ Accepted(r)
          /\ pc' = loop /\ cur' = Head(commands) /\ rid' = NextRequestId
       \/ /\ Refused
          /\ UNCHANGED <<pc, cur, rid>>
    /\ sent' = {}
    /\ UNCHANGED <<login_ids, logged_in_ids, order_registry, config, events,
                   link, front_session, last_session, book>>

StartCancel ==
    LET cmd == Head(commands) IN
    /\ ~LoggedOut /\ HasSession
    /\ TakeCommand
    /\ cmd.op = "CancelOrder"
    /\ StartRequest("Cancel",
           [kind |-> "OrderAction", rid |-> NextRequestId,
            ref |-> IF cmd.id = NoId THEN NoId ELSE OrderRef[cmd.id],
            exch |-> cmd.exch, session |-> logged_in_ids])

StartQuery ==
    /\ ~LoggedOut /\ HasSession
    /\ TakeCommand
    /\ Head(commands).op \in QueryOps
    /\ StartRequest("Query",
           [kind |-> Head(commands).op, rid |-> NextRequestId, rows |-> NoRows])

(* session.take() drops the API and the event channel with all it holds.   *)
LoggedInLogout ==
    /\ ~LoggedOut
    /\ TakeCommand
    /\ Head(commands).op = "Logout"
    /\ link' = "None"
    /\ logged_in_ids' = NoIds
    /\ ClearRegistry
    /\ sent' = {AccountStateTo(Head(commands).client, "Disconnected")}
    /\ config' = "none" /\ events' = <<>> /\ request_id' = 0 /\ pending_queries' = {}
    /\ front_session' = 0 /\ requests' = <<>>
    /\ UNCHANGED <<pc, cur, rid, login_ids, last_session, book, faults>>

CommandStep ==
    \/ LoggedOutReject \/ LoggedOutLogout
    \/ LoginConnect \/ LoginConnectFails \/ LoginResume \/ LoggedInLogin
    \/ InsertOrder \/ StartCancel \/ StartQuery \/ LoggedInLogout

-------------------------------------------------------------------------------
(* The actor's events.  No event is received while the actor is idle and   *)
(* logged out: they stay in the channel for the next login.                *)

Receive(loop) ==
    /\ pc = loop
    /\ events # <<>>
    /\ events' = Tail(events)
    /\ UNCHANGED <<issued, commands, order_registry, config,
                   pending_queries, link, front_session, last_session, book>>

NoRequest == UNCHANGED <<request_id, requests, faults>>
Stay == UNCHANGED <<pc, cur, rid, login_ids>>
Finish == pc' = "Idle" /\ cur' = NoCommand /\ rid' = 0 /\ login_ids' = NoIds

(* push_order_report and push_trade_report of the event at the head. *)
PushReport ==
    /\ Head(events).type \in {"OrderReturn", "TradeReturn"}
    /\ sent' = IF Head(events).type = "OrderReturn"
                 THEN Push("OrderUpdate", Head(events))
                 ELSE Push("TradeUpdate", Head(events))

(* handle_logged_in_trade_event *)
IdleReport ==
    /\ Receive("Idle") /\ ~LoggedOut
    /\ PushReport
    /\ Stay /\ NoRequest /\ UNCHANGED <<account_states, logged_in_ids>>

(* Faulty variant: the disconnection is only recorded. *)
IdleFrontDisconnectedRecorded ==
    /\ Receive("Idle") /\ ~LoggedOut
    /\ Head(events).type = "FrontDisconnected"
    /\ account_states' = "Disconnected"
    /\ sent' = {}
    /\ Stay /\ NoRequest /\ UNCHANGED logged_in_ids

IdleFrontDisconnected ==
    /\ Receive("Idle") /\ ~LoggedOut
    /\ Head(events).type = "FrontDisconnected"
    /\ logged_in_ids' = NoIds
    /\ account_states' = "Disconnected"
    /\ sent' = {}
    /\ Stay /\ NoRequest

IdleIgnored ==
    /\ Receive("Idle") /\ ~LoggedOut
    /\ Head(events).type \notin {"OrderReturn", "TradeReturn", "FrontDisconnected"}
    /\ sent' = {}
    /\ Stay /\ NoRequest /\ UNCHANGED <<account_states, logged_in_ids>>

(* drive_trade_login *)
ReceiveLogin(type) ==
    /\ Receive("Login")
    /\ Head(events).type = type
    /\ UNCHANGED account_states

(* Faulty variant: a connection is only noted. *)
LoginFrontConnectedIgnored ==
    /\ ReceiveLogin("FrontConnected")
    /\ sent' = {}
    /\ Stay /\ NoRequest /\ UNCHANGED logged_in_ids

LoginFrontConnected ==
    /\ ReceiveLogin("FrontConnected")
    /\ LoginRequest("Authenticate", login_ids, {AccountStateTo(cur.client, "Authenticating")})
    /\ UNCHANGED <<rid, logged_in_ids>>

LoginAuthenticateOk ==
    /\ ReceiveLogin("AuthenticateOk")
    /\ LoginRequest("UserLogin", login_ids, {})
    /\ UNCHANGED <<rid, logged_in_ids>>

(* Faulty variant: the ids of LoginOk are not kept. *)
LoginLoginOkForgets ==
    /\ ReceiveLogin("LoginOk")
    /\ LoginRequest("Settlement", login_ids, {})
    /\ UNCHANGED <<rid, logged_in_ids>>

(* Faulty variant: LoginOk already counts as logged in. *)
LoginLoginOkLogsIn ==
    /\ ReceiveLogin("LoginOk")
    /\ LoginRequest("Settlement", Head(events).ids, {})
    /\ logged_in_ids' = Head(events).ids
    /\ UNCHANGED rid

LoginLoginOk ==
    /\ ReceiveLogin("LoginOk")
    /\ LoginRequest("Settlement", Head(events).ids, {})
    /\ UNCHANGED <<rid, logged_in_ids>>

LoginSettlementConfirmed ==
    LET ids == IF login_ids = NoIds THEN DefaultIds ELSE login_ids IN
    /\ ReceiveLogin("SettlementConfirmed")
    /\ logged_in_ids' = ids
    /\ sent' = {LoggedInTo(cur.client, ids)}
    /\ Finish /\ NoRequest

LoginFrontDisconnected ==
    /\ ReceiveLogin("FrontDisconnected")
    /\ sent' = {AccountStateTo(cur.client, "Disconnected")}
    /\ Stay /\ NoRequest /\ UNCHANGED logged_in_ids

(* The session is kept. *)
LoginFails ==
    /\ \E type \in {"AuthenticateFailed", "LoginFailed", "SettlementConfirmFailed", "Error"} :
            ReceiveLogin(type)
    /\ sent' = {AccountStateTo(cur.client, "Error")}
    /\ Finish /\ NoRequest /\ UNCHANGED logged_in_ids

LoginIgnored ==
    /\ \E type \in {"HeartBeatWarning", "OrderInsertRejected", "OrderReturn", "TradeReturn",
                    "QueryReady", "QueryFailed", "CancelActionOk", "CancelActionFailed"} :
            ReceiveLogin(type)
    /\ sent' = {}
    /\ Stay /\ NoRequest /\ UNCHANGED logged_in_ids

(* drive_cancel_order.  The report's client_order_id is the order          *)
(* reference, which is compared with the client_order_id of the cancel as  *)
(* it is.                                                                  *)
IsTarget(e) == e.ref = cur.id \/ e.order = cur.exch
(* Faulty variant: only a fill ends an order. *)
IsFilled(e) == e.status = "Filled"

IsTerminal(e) == e.status \in {"Cancelled", "Filled"}

Answers(type) == Head(events).type = type /\ Head(events).rid = rid

ReceiveCommand(loop) ==
    /\ Receive(loop)
    /\ NoRequest
    /\ UNCHANGED <<account_states, logged_in_ids>>

CancelReport ==
    LET e == Head(events) IN
    /\ ReceiveCommand("Cancel")
    /\ PushReport
    /\ IF e.type = "OrderReturn" /\ IsTarget(e) /\ IsTerminal(e) THEN Finish ELSE Stay

CancelEnds ==
    /\ ReceiveCommand("Cancel")
    /\ \/ Answers("CancelActionOk") /\ sent' = {}
       \/ Answers("CancelActionFailed") /\ sent' = {ErrorTo(cur.client)}
       \/ Head(events).type = "FrontDisconnected" /\ sent' = {}
    /\ Finish

CancelIgnored ==
    /\ ReceiveCommand("Cancel")
    /\ Head(events).type \notin {"OrderReturn", "TradeReturn", "FrontDisconnected"}
    /\ ~Answers("CancelActionOk") /\ ~Answers("CancelActionFailed")
    /\ sent' = {}
    /\ Stay

(* Faulty variant: the query loop returns after the first report. *)
QueryReportReturns ==
    /\ ReceiveCommand("Query")
    /\ PushReport
    /\ Finish

(* Faulty variant: a failed query falls to the loop's default arm. *)
QueryFailsUnseen ==
    /\ ReceiveCommand("Query")
    /\ Answers("QueryFailed")
    /\ sent' = {}
    /\ Stay

(* drive_query_account, _positions, _orders and _trades, each over         *)
(* wait_actionable_event.  A disconnection is one of the ignored events.   *)
QueryReport ==
    /\ ReceiveCommand("Query")
    /\ PushReport
    /\ Stay

QueryResult ==
    LET e == Head(events) IN
    /\ ReceiveCommand("Query")
    /\ Answers("QueryReady") /\ e.op = cur.op
    /\ sent' = {[to |-> cur.client, type |-> "QueryResult", op |-> e.op, rows |-> e.rows]}
    /\ Finish

QueryFails ==
    /\ ReceiveCommand("Query")
    /\ Answers("QueryFailed")
    /\ sent' = {ErrorTo(cur.client)}
    /\ Finish

QueryIgnored ==
    /\ ReceiveCommand("Query")
    /\ Head(events).type \notin {"OrderReturn", "TradeReturn"}
    /\ ~(Answers("QueryReady") /\ Head(events).op = cur.op)
    /\ ~Answers("QueryFailed")
    /\ sent' = {}
    /\ Stay

EventStep ==
    \/ IdleReport \/ IdleFrontDisconnected \/ IdleIgnored
    \/ LoginFrontConnected \/ LoginAuthenticateOk \/ LoginLoginOk
    \/ LoginSettlementConfirmed \/ LoginFrontDisconnected \/ LoginFails \/ LoginIgnored
    \/ CancelReport \/ CancelEnds \/ CancelIgnored
    \/ QueryReport \/ QueryResult \/ QueryFails \/ QueryIgnored

ActorStep == CommandStep \/ EventStep

-------------------------------------------------------------------------------
(* The front, and the SPI callbacks of TraderSpiHandler that turn what it  *)
(* says into events.  The front answers requests in order; a link failure  *)
(* loses the requests it has not answered and ends its session, never the  *)
(* orders at the exchange.                                                 *)

FrontStep(es) ==
    /\ events' = events \o es
    /\ sent' = {}
    /\ UNCHANGED <<gatewayVars, actorVars, config, request_id>>

OnFrontConnected ==
    /\ link = "Down"
    /\ link' = "Connected"
    /\ FrontStep(<<Event("FrontConnected")>>)
    /\ UNCHANGED <<pending_queries, front_session, last_session, requests, book, faults>>

OnFrontDisconnected ==
    /\ LinkUp
    /\ Fault("drop")
    /\ link' = "Down" /\ front_session' = 0 /\ requests' = <<>>
    /\ FrontStep(<<Event("FrontDisconnected")>>)
    /\ UNCHANGED <<pending_queries, last_session, book>>

OnHeartBeatWarning ==
    /\ LinkUp
    /\ Fault("heartbeat")
    /\ FrontStep(<<Event("HeartBeatWarning")>>)
    /\ UNCHANGED <<pending_queries, link, front_session, last_session, requests, book>>

(* The request the front answers next. *)
Serve(kinds) ==
    /\ requests # <<>>
    /\ Head(requests).kind \in kinds
    /\ requests' = Tail(requests)

OnRspAuthenticate ==
    /\ Serve({"Authenticate"})
    /\ \/ /\ config = "right"
          /\ link' = "Authenticated"
          /\ FrontStep(<<Event("AuthenticateOk")>>)
          /\ UNCHANGED faults
       \/ /\ (config # "right" /\ UNCHANGED faults) \/ Fault("loginReject")
          /\ FrontStep(<<Event("AuthenticateFailed")>>)
          /\ UNCHANGED link
    /\ UNCHANGED <<pending_queries, front_session, last_session, book>>

(* A second login over one connection answers with the session it has; a   *)
(* front may also refuse it or open a new session.                         *)
OnRspUserLogin ==
    /\ Serve({"UserLogin"})
    /\ \/ \E ids \in 1..(last_session + 1) :
            /\ link = "Authenticated"
            /\ \/ ids = front_session /\ UNCHANGED faults
               \/ /\ ids = last_session + 1
                  /\ (front_session = 0 /\ UNCHANGED faults) \/ Fault("secondLogin")
            /\ front_session' = ids
            /\ last_session' = IF ids = front_session THEN last_session ELSE ids
            /\ FrontStep(<<[type |-> "LoginOk", ids |-> ids]>>)
       \/ /\ \/ link # "Authenticated" /\ UNCHANGED faults
             \/ Fault("loginReject")
             \/ front_session # 0 /\ Fault("secondLogin")
          /\ FrontStep(<<Event("LoginFailed")>>)
          /\ UNCHANGED <<front_session, last_session>>
    /\ UNCHANGED <<pending_queries, link, book>>

OnRspSettlementInfoConfirm ==
    /\ Serve({"Settlement"})
    /\ \/ /\ front_session # 0
          /\ FrontStep(<<Event("SettlementConfirmed")>>)
          /\ UNCHANGED faults
       \/ /\ (front_session = 0 /\ UNCHANGED faults) \/ Fault("loginReject")
          /\ FrontStep(<<Event("SettlementConfirmFailed")>>)
    /\ UNCHANGED <<pending_queries, link, front_session, last_session, book>>

OrderReturn(o, ref, status) ==
    [type |-> "OrderReturn", order |-> o, ref |-> ref, status |-> status]

(* An order reference may be used once in a front session. *)
Duplicate(ref) ==
    \E o \in DOMAIN book : book[o].ref = ref /\ book[o].session = front_session

(* on_rtn_order, or on_rsp_order_insert and on_err_rtn_order_insert. *)
OnOrderInsert ==
    LET r == Head(requests) IN
    /\ Serve({"OrderInsert"})
    /\ \/ /\ front_session # 0 /\ ~Duplicate(r.ref)
          /\ book' = Append(book, [ref |-> r.ref, client |-> r.client,
                                   session |-> front_session, status |-> "Accepted"])
          /\ FrontStep(<<OrderReturn(Len(book) + 1, r.ref, "Accepted")>>)
          /\ UNCHANGED faults
       \/ /\ \/ (front_session = 0 \/ Duplicate(r.ref)) /\ UNCHANGED faults
             \/ Fault("orderReject")
          /\ FrontStep(<<Event("OrderInsertRejected")>>)
          /\ UNCHANGED book
    /\ UNCHANGED <<pending_queries, link, front_session, last_session>>

(* on_rtn_order and on_rtn_trade of a fill; a front without a session for  *)
(* the account has nobody to tell.                                         *)
OnFill(o) ==
    /\ book[o].status = "Accepted"
    /\ book' = [book EXCEPT ![o].status = "Filled"]
    /\ FrontStep(IF front_session = 0 THEN <<>>
                 ELSE <<OrderReturn(o, book[o].ref, "Filled"),
                        [type |-> "TradeReturn", order |-> o, ref |-> book[o].ref]>>)
    /\ UNCHANGED <<pending_queries, link, front_session, last_session, requests, faults>>

(* Faulty variant: the table is cleared, whichever request is answered. *)
FinishAll(id) == pending_queries' = {} /\ id \in Nat

(* finish_query *)
FinishQuery(id) == pending_queries' = {p \in pending_queries : p.rid # id}

Cancellable(r, o) ==
    /\ book[o].status = "Accepted"
    /\ \/ o = r.exch
       \/ book[o].ref = r.ref /\ book[o].session = r.session

(* A cancel that succeeds is reported by on_rtn_order, with or without an  *)
(* on_rsp_order_action before or after it.                                 *)
OnOrderAction ==
    LET r == Head(requests)
        ok == [type |-> "CancelActionOk", rid |-> r.rid]
    IN
    /\ Serve({"OrderAction"})
    /\ \/ \E o \in DOMAIN book :
            LET report == OrderReturn(o, book[o].ref, "Cancelled") IN
            /\ front_session # 0 /\ Cancellable(r, o)
            /\ book' = [book EXCEPT ![o].status = "Cancelled"]
            /\ \/ FrontStep(<<report>>) /\ UNCHANGED pending_queries
               \/ /\ FrontStep(<<ok, report>>) \/ FrontStep(<<report, ok>>)
                  /\ FinishQuery(r.rid)
            /\ UNCHANGED faults
       \/ /\ \/ /\ front_session = 0 \/ ~\E o \in DOMAIN book : Cancellable(r, o)
                /\ UNCHANGED faults
             \/ Fault("cancelReject")
          /\ FinishQuery(r.rid)
          /\ FrontStep(<<[type |-> "CancelActionFailed", rid |-> r.rid]>>)
          /\ UNCHANGED book
    /\ UNCHANGED <<link, front_session, last_session>>

Pending(r) == {p \in pending_queries : p.rid = r.rid /\ p.op = r.kind}

(* append_position, append_order and append_trade. *)
AppendRow(r) ==
    pending_queries' = (pending_queries \ Pending(r))
                         \cup {[p EXCEPT !.rows = @ + 1] : p \in Pending(r)}

(* Faulty variant: a position is kept whatever its volume. *)
KeepsFlat(op, row) == row \in {"Good", "Flat"} /\ op \in QueryOps

(* The callbacks drop a row they cannot read, and a position of volume 0.  *)
Keeps(op, row) == row \in (IF op = "QueryPosition" THEN {"Good"} ELSE {"Good", "Flat"})

CountRow(rows, row) == [rows EXCEPT ![row] = @ + 1]
RowsSent(r) == r.rows["Good"] + r.rows["Flat"] + r.rows["Unreadable"]

(* on_rsp_qry_*: a callback for every row; the last, which may carry one   *)
(* too, takes what the pending entry collected.  An account is one row     *)
(* that is not collected.                                                  *)
OnRspQryRow ==
    LET r == Head(requests) IN
    /\ requests # <<>>
    /\ r.kind \in QueryOps \ {"QueryAccount"}
    /\ RowsSent(r) < MaxRows
    /\ \E row \in RowKinds :
          /\ requests' = <<[r EXCEPT !.rows = CountRow(@, row)]>> \o Tail(requests)
          /\ IF Keeps(r.kind, row) THEN AppendRow(r) ELSE UNCHANGED pending_queries
    /\ FrontStep(<<>>)
    /\ UNCHANGED <<link, front_session, last_session, book, faults>>

QueryReady(r, rows, of) ==
    [type |-> "QueryReady", op |-> r.kind, rid |-> r.rid, rows |-> rows, of |-> of]

(* take_positions, take_orders and take_trades: nothing is collected for a *)
(* request without a pending entry.                                        *)
TakeRows(r, last, of) ==
    \/ \E p \in Pending(r) : FrontStep(<<QueryReady(r, p.rows + last, of)>>)
    \/ Pending(r) = {} /\ FrontStep(<<QueryReady(r, 0, of)>>)

OnRspQryLast ==
    LET r == Head(requests) IN
    /\ Serve(QueryOps)
    /\ FinishQuery(r.rid)
    /\ \/ r.kind = "QueryAccount" /\ FrontStep(<<QueryReady(r, 1, r.rows)>>)
       \/ r.kind # "QueryAccount" /\ TakeRows(r, 0, r.rows)
       \/ /\ r.kind # "QueryAccount" /\ RowsSent(r) < MaxRows
          /\ \E row \in RowKinds :
                TakeRows(r, IF Keeps(r.kind, row) THEN 1 ELSE 0, CountRow(r.rows, row))
    /\ UNCHANGED <<link, front_session, last_session, book, faults>>

OnRspQryError ==
    /\ Serve(QueryOps)
    /\ Fault("queryReject")
    /\ FinishQuery(Head(requests).rid)
    /\ FrontStep(<<[type |-> "QueryFailed", rid |-> Head(requests).rid]>>)
    /\ UNCHANGED <<link, front_session, last_session, book>>

(* on_rsp_error answers any request, and leaves its pending entry. *)
OnRspError ==
    /\ requests # <<>>
    /\ Fault("rspError")
    /\ requests' = Tail(requests)
    /\ FrontStep(<<[type |-> "Error", rid |-> Head(requests).rid]>>)
    /\ UNCHANGED <<pending_queries, link, front_session, last_session, book>>

(* What a front that works does with the head of the request queue. *)
FrontAnswers ==
    \/ OnRspAuthenticate \/ OnRspUserLogin \/ OnRspSettlementInfoConfirm
    \/ OnOrderInsert \/ OnOrderAction
    \/ OnRspQryRow \/ OnRspQryLast

FrontNext ==
    \/ OnFrontConnected \/ OnFrontDisconnected \/ OnHeartBeatWarning
    \/ FrontAnswers \/ OnRspQryError \/ OnRspError
    \/ \E o \in DOMAIN book : OnFill(o)

-------------------------------------------------------------------------------
Next == ClientStep \/ ActorStep \/ FrontNext

Spec == Init /\ [][Next]_vars

(* The runtime polls a ready task again and again, and a select over two   *)
(* ready branches takes each infinitely often; clients call finitely many  *)
(* operations.  The front reconnects and answers what it received.         *)
Fairness ==
    /\ WF_vars(ActorStep)
    /\ WF_vars(OnFrontConnected)
    /\ WF_vars(FrontAnswers)

FairSpec == Spec /\ Fairness

===============================================================================
