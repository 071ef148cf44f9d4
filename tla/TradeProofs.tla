------------------------------ MODULE TradeProofs ------------------------------
(***************************************************************************)
(* Proofs about TradeSession: its type invariant, and that reports reach   *)
(* the client that placed the order.                                       *)
(***************************************************************************)
EXTENDS TradeProperties, SequenceTheorems, TLAPS

-------------------------------------------------------------------------------
(* Messages *)

(* Appending what the model appends keeps a sequence's type. *)
LEMMA AppendType ==
    ASSUME NEW S, NEW s \in Seq(S)
    PROVE  /\ s \o <<>> \in Seq(S)
           /\ \A e \in S : Append(s, e) \in Seq(S) /\ s \o <<e>> \in Seq(S)
           /\ \A d, e \in S : s \o <<d, e>> \in Seq(S)
<1>1. /\ <<>> \in Seq(S)
      /\ \A e \in S : <<e>> \in Seq(S)
      /\ \A d, e \in S : <<d, e>> \in Seq(S)
  OBVIOUS
<1>2. \A t \in Seq(S) : s \o t \in Seq(S)
  OBVIOUS
<1>3. \A e \in S : Append(s, e) \in Seq(S)
  OBVIOUS
<1> QED
  BY <1>1, <1>2, <1>3

(* The head of a queue and what is left of it have the queue's type. *)
LEMMA TakeType ==
    ASSUME NEW S, NEW s \in Seq(S), s # <<>>
    PROVE  Head(s) \in S /\ Tail(s) \in Seq(S)
OBVIOUS

(* normalize_order_ref yields order references. *)
LEMMA RefType == \A id \in OrderIds : OrderRef[id] \in Refs
BY DEF Refs

(* The events that the callbacks construct. *)
LEMMA EventTypes ==
    /\ \A t \in {"FrontConnected", "FrontDisconnected", "HeartBeatWarning",
                 "AuthenticateOk", "AuthenticateFailed", "LoginFailed",
                 "SettlementConfirmed", "SettlementConfirmFailed",
                 "OrderInsertRejected"} : Event(t) \in Events
    /\ \A i \in Nat : [type |-> "LoginOk", ids |-> i] \in Events
    /\ \A t \in {"Error", "QueryFailed", "CancelActionOk", "CancelActionFailed"}, i \in Nat :
          [type |-> t, rid |-> i] \in Events
    /\ \A o \in Nat, r \in Refs, s \in {"Accepted", "Filled", "Cancelled"} :
          OrderReturn(o, r, s) \in Events
    /\ \A o \in Nat, r \in Refs : [type |-> "TradeReturn", order |-> o, ref |-> r] \in Events
    /\ \A r \in Requests, i \in Nat, of \in RowCounts :
          r.kind \in QueryOps => QueryReady(r, i, of) \in Events
<1>1. \A r \in Requests : r.rid \in Nat
  BY DEF Requests
<1>2. \A r \in Requests, i \in Nat, of \in RowCounts :
          r.kind \in QueryOps => QueryReady(r, i, of) \in Events
  BY <1>1 DEF Events, QueryReady
<1> QED
  BY <1>2 DEF Event, Events, OrderReturn

(* The envelopes that the actor and the gateway construct. *)
LEMMA EnvelopeTypes ==
    ASSUME NEW c \in Clients
    PROVE  /\ \A s \in ConnectionStates : AccountStateTo(c, s) \in Envelopes
           /\ \A i \in Int : LoggedInTo(c, i) \in Envelopes
           /\ ErrorTo(c) \in Envelopes
           /\ \A op \in QueryOps, n \in Nat :
                 [to |-> c, type |-> "QueryResult", op |-> op, rows |-> n] \in Envelopes
BY DEF Envelopes, AccountStateTo, LoggedInTo, ErrorTo, ConnectionStates, NoIds

(* What a TradeSessionCommand of the channel carries. *)
LEMMA CommandFields ==
    ASSUME NEW cmd \in Commands
    PROVE  /\ cmd.op \in Ops
           /\ cmd.client \in Clients
           /\ cmd.exch \in Nat
           /\ cmd.id \in OrderIds \cup {NoId}
           /\ cmd.credentials \in AnyCredentials
           /\ cmd.op = "PlaceOrder" => cmd.id \in OrderIds
BY DEF Commands, Ops, QueryOps

(* What a request of the session to the front carries. *)
LEMMA RequestFields ==
    ASSUME NEW r \in Requests
    PROVE  /\ r.rid \in Nat
           /\ r.kind = "OrderInsert" => r.ref \in Refs /\ r.client \in Clients
           /\ r.kind \in QueryOps => r \in [kind : QueryOps, rid : Nat, rows : RowCounts]
BY DEF Requests, QueryOps

(* A row counted among those sent for a query. *)
LEMMA CountRowType ==
    /\ NoRows \in RowCounts
    /\ \A rows \in RowCounts, row \in RowKinds : CountRow(rows, row) \in RowCounts
BY DEF RowCounts, NoRows, CountRow

(* What a TradeSessionEvent of the channel carries. *)
LEMMA EventFields ==
    ASSUME NEW e \in Events
    PROVE  /\ e.type = "LoginOk" => e.ids \in Nat
           /\ e.type \in {"OrderReturn", "TradeReturn"} => e.order \in Nat /\ e.ref \in Refs
           /\ e.type = "QueryReady" => e.op \in QueryOps /\ e.rows \in Nat
BY DEF Events

(* A report is pushed in an envelope to a client, or not at all. *)
LEMMA PushType ==
    ASSUME ActorTypeOK, NEW e \in Events, e.type \in {"OrderReturn", "TradeReturn"},
           NEW t \in {"OrderUpdate", "TradeUpdate"}
    PROVE  Push(t, e) \subseteq Envelopes
<1>1. e.order \in Nat /\ e.ref \in Refs
  BY EventFields
<1>2. \A c \in {order_registry[e.ref]} \ {NoClient} : c \in Clients
  BY <1>1 DEF ActorTypeOK
<1> QED
  BY <1>1, <1>2 DEF Push, Envelopes

-------------------------------------------------------------------------------
(* Types: the initial state and the steps of clients *)

(* A server that has bound no account has a well-typed state. *)
LEMMA TypeInit == Init => TypeOK
<1> SUFFICES ASSUME Init PROVE TypeOK
  OBVIOUS
<1> USE DEF Init
<1>1. GatewayTypeOK
  BY DEF GatewayTypeOK
<1>2. ActorTypeOK
  BY DEF ActorTypeOK, NoIds
<1>3. SessionTypeOK
  BY DEF SessionTypeOK
<1>4. FrontTypeOK
  BY DEF FrontTypeOK
<1> QED
  BY <1>1, <1>2, <1>3, <1>4 DEF TypeOK

(* Groups of variables a step leaves alone keep their types. *)
LEMMA TypeFrame ==
    ASSUME TypeOK
    PROVE  /\ UNCHANGED gatewayVars => GatewayTypeOK'
           /\ UNCHANGED actorVars => ActorTypeOK'
           /\ UNCHANGED sessionVars => SessionTypeOK'
           /\ UNCHANGED frontVars => FrontTypeOK'
<1>1. UNCHANGED gatewayVars => GatewayTypeOK'
  BY DEF TypeOK, GatewayTypeOK, gatewayVars
<1>2. UNCHANGED actorVars => ActorTypeOK'
  BY DEF TypeOK, ActorTypeOK, actorVars
<1>3. UNCHANGED sessionVars => SessionTypeOK'
  BY DEF TypeOK, SessionTypeOK, sessionVars
<1>4. UNCHANGED frontVars => FrontTypeOK'
  BY DEF TypeOK, FrontTypeOK, frontVars
<1> QED
  BY <1>1, <1>2, <1>3, <1>4

(* An operation a client calls becomes a command of its type. *)
LEMMA TypeEnqueue ==
    ASSUME TypeOK, NEW c \in Clients, NEW op \in Ops, NEW id \in OrderIds \cup {NoId},
           NEW exch \in Nat, NEW credentials \in AnyCredentials,
           op = "PlaceOrder" => id \in OrderIds,
           Enqueue(op, c, id, exch, credentials),
           account_states' \in {"Unset", "Connecting", "Disconnected"},
           sent' \subseteq Envelopes
    PROVE  TypeOK'
<1>1. [op |-> op, client |-> c, id |-> id, exch |-> exch, credentials |-> credentials] \in Commands
  BY DEF Commands
<1>2. commands' \in Seq(Commands)
  BY <1>1, AppendType DEF Enqueue, TypeOK, GatewayTypeOK
<1>3. issued' \in Nat
  BY DEF Enqueue, TypeOK, GatewayTypeOK
<1>4. UNCHANGED <<actorVars, sessionVars, frontVars>>
  BY DEF Enqueue
<1> QED
  BY <1>2, <1>3, <1>4, TypeFrame DEF TypeOK, GatewayTypeOK

(* The gateway's operations (bind_account to logout_account) keep the types. *)
LEMMA TypeClient ==
    ASSUME TypeOK, ClientStep
    PROVE  TypeOK'
<1> PICK c \in Clients :
        \/ \E credentials \in Credentials : BindAccount(c, credentials)
        \/ PlaceOrder(c)
        \/ CancelOrder(c)
        \/ Query(c)
        \/ LogoutAccount(c)
  BY DEF ClientStep
<1> DEFINE Sends(op, id, exch) == SendTradeCommand(op, c, id, exch)
<1>1. ASSUME NEW op \in Ops, NEW id \in OrderIds \cup {NoId}, NEW exch \in Nat,
             op = "PlaceOrder" => id \in OrderIds, Sends(op, id, exch)
      PROVE  TypeOK'
  <2>1. Enqueue(op, c, id, exch, "right") /\ "right" \in AnyCredentials
    BY <1>1 DEF SendTradeCommand, AnyCredentials
  <2>2. account_states' \in {"Unset", "Connecting", "Disconnected"} /\ sent' \subseteq Envelopes
    BY <1>1 DEF SendTradeCommand, TypeOK, GatewayTypeOK
  <2> HIDE DEF Sends
  <2> QED
    BY <1>1, <2>1, <2>2, TypeEnqueue
<1>2. ASSUME NEW credentials \in Credentials, BindAccount(c, credentials)
      PROVE  TypeOK'
  <2>1. Enqueue("Login", c, NoId, 0, credentials) /\ account_states' = "Connecting"
    BY <1>2 DEF BindAccount
  <2>2. sent' \subseteq Envelopes
    BY <1>2, EnvelopeTypes DEF BindAccount, ConnectionStates
  <2>3. credentials \in AnyCredentials /\ "Login" \in Ops
    BY ConstantsAssumption DEF Ops
  <2> QED
    BY <2>1, <2>2, <2>3, TypeEnqueue
<1>3. ASSUME PlaceOrder(c) PROVE TypeOK'
  <2> PICK id \in IdsOf[c] : Sends("PlaceOrder", id, 0)
    BY <1>3 DEF PlaceOrder
  <2>1. id \in OrderIds /\ "PlaceOrder" \in Ops
    BY ConstantsAssumption DEF Ops
  <2> HIDE DEF Sends
  <2> QED
    BY <1>1, <2>1
<1>4. ASSUME CancelOrder(c) PROVE TypeOK'
  <2>1. "CancelOrder" \in Ops /\ \A id \in IdsOf[c] : id \in OrderIds
    BY ConstantsAssumption DEF Ops
  <2>2. \A o \in DOMAIN book : o \in Nat
    BY DEF TypeOK, FrontTypeOK
  <2>3. PICK id \in IdsOf[c] \cup {NoId}, exch \in {0} \cup DOMAIN book :
               Sends("CancelOrder", id, exch)
    BY <1>4 DEF CancelOrder
  <2>4. id \in OrderIds \cup {NoId} /\ exch \in Nat
    BY <2>1, <2>2
  <2> HIDE DEF Sends
  <2> QED
    BY <1>1, <2>1, <2>3, <2>4
<1>5. ASSUME Query(c) PROVE TypeOK'
  <2> PICK op \in QueryOps : Sends(op, NoId, 0)
    BY <1>5 DEF Query
  <2>1. op \in Ops /\ op # "PlaceOrder"
    BY DEF Ops, QueryOps
  <2> HIDE DEF Sends
  <2> QED
    BY <1>1, <2>1
<1>6. ASSUME LogoutAccount(c) PROVE TypeOK'
  <2>1. Sends("Logout", NoId, 0) /\ "Logout" \in Ops
    BY <1>6 DEF LogoutAccount, Ops
  <2> HIDE DEF Sends
  <2> QED
    BY <1>1, <2>1
<1> QED
  BY <1>2, <1>3, <1>4, <1>5, <1>6

-------------------------------------------------------------------------------
(* Types: the actor's commands *)

(* Taking a command: what it yields, and the gateway's variables. *)
LEMMA TypeTake ==
    ASSUME TypeOK, TakeCommand
    PROVE  /\ Head(commands) \in Commands
           /\ Head(commands).client \in Clients
           /\ GatewayTypeOK'
<1>1. Head(commands) \in Commands /\ Tail(commands) \in Seq(Commands)
  BY TakeType DEF TakeCommand, TypeOK, GatewayTypeOK
<1>2. Head(commands).client \in Clients
  BY <1>1, CommandFields
<1> QED
  BY <1>1, <1>2 DEF TakeCommand, TypeOK, GatewayTypeOK

(* A request the API takes or refuses. *)
LEMMA TypeAccepted ==
    ASSUME TypeOK, NEW r \in Requests, Accepted(r)
    PROVE  requests' \in Seq(Requests) /\ faults' \in Nat
BY AppendType DEF Accepted, TypeOK, FrontTypeOK

(* A request the API refuses leaves the request queue typed. *)
LEMMA TypeRefused ==
    ASSUME TypeOK, Refused
    PROVE  requests' \in Seq(Requests) /\ faults' \in Nat
BY DEF Refused, Fault, TypeOK, FrontTypeOK

(* next_request_id yields a number. *)
LEMMA TypeNextRequestId ==
    ASSUME TypeOK
    PROVE  NextRequestId \in Nat
BY DEF NextRequestId, TypeOK, SessionTypeOK

(* Commands answered without touching the session keep the types. *)
LEMMA TypeReplies ==
    ASSUME TypeOK, LoggedOutReject \/ LoggedOutLogout \/ LoggedInLogin
    PROVE  TypeOK'
<1>1. TakeCommand /\ UNCHANGED <<actorVars, sessionVars, frontVars>>
  BY DEF LoggedOutReject, LoggedOutLogout, LoggedInLogin, Reply
<1>2. GatewayTypeOK' /\ Head(commands).client \in Clients
  BY <1>1, TypeTake
<1>3. logged_in_ids \in Int
  BY DEF TypeOK, ActorTypeOK, NoIds
<1>4. sent' \in {{ErrorTo(Head(commands).client)},
                 {AccountStateTo(Head(commands).client, "Disconnected")},
                 {LoggedInTo(Head(commands).client, logged_in_ids)}}
  BY DEF LoggedOutReject, LoggedOutLogout, LoggedInLogin, Reply
<1>5. sent' \subseteq Envelopes
  BY <1>2, <1>3, <1>4, EnvelopeTypes DEF ConnectionStates
<1> QED
  BY <1>1, <1>2, <1>5, TypeFrame DEF TypeOK

(* Entering drive_trade_login keeps the actor's types. *)
LEMMA TypeStartLogin ==
    ASSUME TypeOK, NEW cmd \in Commands, StartLogin(cmd)
    PROVE  ActorTypeOK' /\ sent' \subseteq Envelopes
<1>1. sent' \subseteq Envelopes
  BY CommandFields, EnvelopeTypes DEF StartLogin, ConnectionStates
<1> QED
  BY <1>1 DEF StartLogin, TypeOK, ActorTypeOK

(* A login that creates the session keeps the types. *)
LEMMA TypeLoginConnect == ASSUME TypeOK, LoginConnect PROVE TypeOK'
<1>1. GatewayTypeOK' /\ Head(commands) \in Commands
  BY TypeTake DEF LoginConnect
<1>2. ActorTypeOK' /\ sent' \subseteq Envelopes
  BY <1>1, TypeStartLogin DEF LoginConnect
<1>3. Head(commands).credentials \in AnyCredentials
  BY <1>1, CommandFields
<1>4. SessionTypeOK'
  BY <1>3 DEF LoginConnect, TypeOK, SessionTypeOK
<1>5. FrontTypeOK'
  BY DEF LoginConnect, TypeOK, FrontTypeOK
<1> QED
  BY <1>1, <1>2, <1>4, <1>5 DEF TypeOK

(* A login whose session cannot be created keeps the types. *)
LEMMA TypeLoginConnectFails == ASSUME TypeOK, LoginConnectFails PROVE TypeOK'
<1>1. GatewayTypeOK' /\ Head(commands).client \in Clients
  BY TypeTake DEF LoginConnectFails
<1>2. sent' \subseteq Envelopes
  BY <1>1, EnvelopeTypes DEF LoginConnectFails, ConnectionStates
<1>3. ActorTypeOK' /\ SessionTypeOK'
  BY TypeFrame DEF LoginConnectFails
<1>4. FrontTypeOK'
  BY DEF LoginConnectFails, Fault, TypeOK, FrontTypeOK
<1> QED
  BY <1>1, <1>2, <1>3, <1>4 DEF TypeOK

(* A login on the session of an earlier one keeps the types. *)
LEMMA TypeLoginResume == ASSUME TypeOK, LoginResume PROVE TypeOK'
<1>1. GatewayTypeOK' /\ Head(commands) \in Commands
  BY TypeTake DEF LoginResume
<1>2. ActorTypeOK' /\ sent' \subseteq Envelopes
  BY <1>1, TypeStartLogin DEF LoginResume
<1>3. SessionTypeOK' /\ FrontTypeOK'
  BY TypeFrame DEF LoginResume
<1> QED
  BY <1>1, <1>2, <1>3 DEF TypeOK

(* register_and_insert_order keeps the types. *)
LEMMA TypeInsertOrder == ASSUME TypeOK, InsertOrder PROVE TypeOK'
<1> DEFINE cmd == Head(commands)
           r == [kind |-> "OrderInsert", rid |-> NextRequestId,
                 ref |-> OrderRef[cmd.id], client |-> cmd.client]
<1>1. GatewayTypeOK' /\ cmd \in Commands /\ cmd.client \in Clients
  BY TypeTake DEF InsertOrder
<1>2. OrderRef[cmd.id] \in Refs
  BY <1>1, CommandFields, RefType DEF InsertOrder
<1>3. r \in Requests
  BY <1>1, <1>2, TypeNextRequestId DEF Requests
<1>4. Accepted(r) \/ Refused
  BY DEF InsertOrder
<1>5. requests' \in Seq(Requests) /\ faults' \in Nat
  BY <1>3, <1>4, TypeAccepted, TypeRefused
<1>6. FrontTypeOK'
  BY <1>5 DEF InsertOrder, TypeOK, FrontTypeOK
<1>7. SessionTypeOK'
  BY TypeNextRequestId DEF InsertOrder, TypeOK, SessionTypeOK
<1>8. ActorTypeOK'
  BY <1>1, <1>2 DEF InsertOrder, Register, TypeOK, ActorTypeOK
<1>9. sent' \subseteq Envelopes
  BY <1>1, EnvelopeTypes DEF InsertOrder
<1> QED
  BY <1>1, <1>6, <1>7, <1>8, <1>9 DEF TypeOK

(* Making the request of a cancel or a query keeps the types. *)
LEMMA TypeStartRequest ==
    ASSUME TypeOK, NEW loop \in {"Cancel", "Query"}, NEW r \in Requests,
           TakeCommand, Head(commands).op \in QueryOps \cup {"CancelOrder"},
           StartRequest(loop, r)
    PROVE  TypeOK'
<1>1. GatewayTypeOK' /\ Head(commands) \in Commands
  BY TypeTake
<1>2. requests' \in Seq(Requests) /\ faults' \in Nat
  BY TypeAccepted, TypeRefused DEF StartRequest
<1>3. FrontTypeOK'
  BY <1>2 DEF StartRequest, TypeOK, FrontTypeOK
<1>4. [rid |-> NextRequestId, op |-> Head(commands).op, rows |-> 0] \in PendingQueries
  BY TypeNextRequestId DEF PendingQueries
<1>5. SessionTypeOK'
  BY <1>4, TypeNextRequestId DEF StartRequest, RegisterQuery, TypeOK, SessionTypeOK
<1>6. ActorTypeOK'
  BY <1>1, TypeNextRequestId DEF StartRequest, TypeOK, ActorTypeOK
<1> QED
  BY <1>1, <1>3, <1>5, <1>6 DEF TypeOK, StartRequest

(* Starting drive_cancel_order keeps the types. *)
LEMMA TypeStartCancel == ASSUME TypeOK, StartCancel PROVE TypeOK'
<1> DEFINE cmd == Head(commands)
           ref == IF cmd.id = NoId THEN NoId ELSE OrderRef[cmd.id]
           r == [kind |-> "OrderAction", rid |-> NextRequestId, ref |-> ref,
                 exch |-> cmd.exch, session |-> logged_in_ids]
<1>1. cmd \in Commands
  BY TypeTake DEF StartCancel
<1>2. ref \in Refs \cup {NoId} /\ cmd.exch \in Nat
  BY <1>1, CommandFields, RefType
<1>3. logged_in_ids \in Int
  BY DEF TypeOK, ActorTypeOK, NoIds
<1> HIDE DEF ref
<1>4. r \in Requests
  BY <1>2, <1>3, TypeNextRequestId DEF Requests
<1>5. TakeCommand /\ cmd.op = "CancelOrder" /\ StartRequest("Cancel", r)
  BY DEF StartCancel, ref
<1> HIDE DEF r, cmd
<1> QED
  BY <1>4, <1>5, TypeStartRequest DEF cmd

(* Starting a drive_query loop keeps the types. *)
LEMMA TypeStartQuery == ASSUME TypeOK, StartQuery PROVE TypeOK'
<1> DEFINE r == [kind |-> Head(commands).op, rid |-> NextRequestId, rows |-> NoRows]
<1>1. r \in Requests
  BY TypeNextRequestId, CountRowType DEF StartQuery, Requests
<1>2. TakeCommand /\ Head(commands).op \in QueryOps /\ StartRequest("Query", r)
  BY DEF StartQuery
<1> HIDE DEF r
<1> QED
  BY <1>1, <1>2, TypeStartRequest

(* Logout, which drops the session, keeps the types. *)
LEMMA TypeLoggedInLogout == ASSUME TypeOK, LoggedInLogout PROVE TypeOK'
<1>1. GatewayTypeOK' /\ Head(commands).client \in Clients
  BY TypeTake DEF LoggedInLogout
<1>2. ActorTypeOK'
  BY DEF LoggedInLogout, ClearRegistry, TypeOK, ActorTypeOK
<1>3. SessionTypeOK'
  BY DEF LoggedInLogout, SessionTypeOK
<1>4. FrontTypeOK'
  BY DEF LoggedInLogout, TypeOK, FrontTypeOK
<1>5. sent' \subseteq Envelopes
  BY <1>1, EnvelopeTypes DEF LoggedInLogout, ConnectionStates
<1> QED
  BY <1>1, <1>2, <1>3, <1>4, <1>5 DEF TypeOK

(* Every command of the actor keeps the types. *)
LEMMA TypeCommand == ASSUME TypeOK, CommandStep PROVE TypeOK'
BY TypeReplies, TypeLoginConnect, TypeLoginConnectFails, TypeLoginResume, TypeInsertOrder,
   TypeStartCancel, TypeStartQuery, TypeLoggedInLogout DEF CommandStep

-------------------------------------------------------------------------------
(* Types: the actor's events *)

(* Receiving an event: what it yields, and the variables no loop touches. *)
LEMMA TypeReceive ==
    ASSUME TypeOK, NEW loop, Receive(loop)
    PROVE  /\ Head(events) \in Events
           /\ pc = loop
           /\ account_states' \in {"Unset", "Connecting", "Disconnected"} => GatewayTypeOK'
           /\ request_id' \in Nat => SessionTypeOK'
           /\ requests' \in Seq(Requests) /\ faults' \in Nat => FrontTypeOK'
<1>1. Head(events) \in Events /\ Tail(events) \in Seq(Events)
  BY TakeType DEF Receive, TypeOK, SessionTypeOK
<1>2. account_states' \in {"Unset", "Connecting", "Disconnected"} => GatewayTypeOK'
  BY DEF Receive, TypeOK, GatewayTypeOK
<1>3. request_id' \in Nat => SessionTypeOK'
  BY <1>1 DEF Receive, TypeOK, SessionTypeOK
<1>4. requests' \in Seq(Requests) /\ faults' \in Nat => FrontTypeOK'
  BY DEF Receive, TypeOK, FrontTypeOK
<1> QED
  BY <1>1, <1>2, <1>3, <1>4 DEF Receive

(* An event that makes no request. *)
LEMMA TypeNoRequest ==
    ASSUME TypeOK, NEW loop, Receive(loop), NoRequest,
           account_states' \in {account_states, "Disconnected"}
    PROVE  GatewayTypeOK' /\ SessionTypeOK' /\ FrontTypeOK'
<1>1. account_states' \in {"Unset", "Connecting", "Disconnected"}
  BY DEF TypeOK, GatewayTypeOK
<1>2. request_id' \in Nat /\ requests' \in Seq(Requests) /\ faults' \in Nat
  BY DEF NoRequest, TypeOK, SessionTypeOK, FrontTypeOK
<1> QED
  BY <1>1, <1>2, TypeReceive

(* An event that ends the loop or leaves the actor in it. *)
LEMMA TypeStay ==
    ASSUME TypeOK, Stay \/ Finish, UNCHANGED order_registry,
           logged_in_ids' \in Nat \cup {NoIds}
    PROVE  ActorTypeOK'
BY DEF Stay, Finish, TypeOK, ActorTypeOK

(* While a loop runs there is the client whose command it drives. *)
LEMMA CurClient ==
    ASSUME TypeOK, pc # "Idle"
    PROVE  cur \in Commands /\ cur.client \in Clients
BY CommandFields DEF TypeOK, ActorTypeOK

(* Pushing an order or trade report puts envelopes on channels. *)
LEMMA TypePushReport ==
    ASSUME TypeOK, PushReport, Head(events) \in Events
    PROVE  sent' \subseteq Envelopes
BY PushType DEF PushReport, TypeOK

(* The events of handle_logged_in_trade_event keep the types. *)
LEMMA TypeIdle ==
    ASSUME TypeOK, IdleReport \/ IdleFrontDisconnected \/ IdleIgnored
    PROVE  TypeOK'
<1>1. Receive("Idle") /\ NoRequest /\ Stay /\ account_states' \in {account_states, "Disconnected"}
  BY DEF IdleReport, IdleFrontDisconnected, IdleIgnored
<1>2. GatewayTypeOK' /\ SessionTypeOK' /\ FrontTypeOK'
  BY <1>1, TypeNoRequest
<1>3. logged_in_ids' \in Nat \cup {NoIds} /\ UNCHANGED order_registry
  BY <1>1 DEF IdleReport, IdleFrontDisconnected, IdleIgnored, Receive, TypeOK, ActorTypeOK
<1>4. ActorTypeOK'
  BY <1>1, <1>3, TypeStay
<1>5. PushReport \/ sent' = {}
  BY DEF IdleReport, IdleFrontDisconnected, IdleIgnored
<1>6. sent' \subseteq Envelopes
  BY <1>1, <1>5, TypeReceive, TypePushReport
<1> QED
  BY <1>2, <1>4, <1>6 DEF TypeOK

(* A login event that makes the next request of the login. *)
LEMMA TypeLoginRequest ==
    ASSUME TypeOK, Receive("Login"),
           NEW kind \in {"Authenticate", "UserLogin", "Settlement"},
           NEW ids \in Nat \cup {NoIds}, NEW replies \in SUBSET Envelopes,
           LoginRequest(kind, ids, replies),
           UNCHANGED <<account_states, rid, logged_in_ids>>
    PROVE  TypeOK'
<1> DEFINE r == [kind |-> kind, rid |-> NextRequestId]
<1>1. r \in Requests
  BY TypeNextRequestId DEF Requests
<1>2. Accepted(r) \/ Refused
  BY DEF LoginRequest
<1>3. requests' \in Seq(Requests) /\ faults' \in Nat /\ request_id' \in Nat
  BY <1>1, <1>2, TypeAccepted, TypeRefused, TypeNextRequestId DEF LoginRequest
<1>4. account_states' \in {"Unset", "Connecting", "Disconnected"}
  BY DEF TypeOK, GatewayTypeOK
<1>5. GatewayTypeOK' /\ SessionTypeOK' /\ FrontTypeOK'
  BY <1>3, <1>4, TypeReceive
<1>6. UNCHANGED order_registry /\ pc = "Login"
  BY DEF Receive
<1>7. \/ UNCHANGED <<pc, cur>> /\ login_ids' = ids
      \/ pc' = "Idle" /\ cur' = NoCommand /\ login_ids' = NoIds
  BY DEF LoginRequest
<1>8. ActorTypeOK'
  BY <1>6, <1>7 DEF TypeOK, ActorTypeOK
<1>9. AccountStateTo(cur.client, "Error") \in Envelopes
  BY <1>6, CurClient, EnvelopeTypes DEF ConnectionStates
<1>10. sent' \subseteq Envelopes
  BY <1>9 DEF LoginRequest
<1> QED
  BY <1>5, <1>8, <1>10 DEF TypeOK

(* The login events that make the next request keep the types. *)
LEMMA TypeLoginRequests ==
    ASSUME TypeOK, LoginFrontConnected \/ LoginAuthenticateOk \/ LoginLoginOk
    PROVE  TypeOK'
<1>1. Receive("Login") /\ pc # "Idle" /\ UNCHANGED <<account_states, rid, logged_in_ids>>
  BY DEF LoginFrontConnected, LoginAuthenticateOk, LoginLoginOk, ReceiveLogin, Receive
<1>2. AccountStateTo(cur.client, "Authenticating") \in Envelopes
  BY <1>1, CurClient, EnvelopeTypes DEF ConnectionStates
<1>3. login_ids \in Nat \cup {NoIds}
  BY DEF TypeOK, ActorTypeOK
<1>4. CASE LoginFrontConnected
  <2>1. LoginRequest("Authenticate", login_ids, {AccountStateTo(cur.client, "Authenticating")})
    BY <1>4 DEF LoginFrontConnected
  <2> QED
    BY <1>1, <1>2, <1>3, <2>1, TypeLoginRequest
<1>5. CASE LoginAuthenticateOk
  <2>1. LoginRequest("UserLogin", login_ids, {})
    BY <1>5 DEF LoginAuthenticateOk
  <2> QED
    BY <1>1, <1>3, <2>1, TypeLoginRequest
<1>6. CASE LoginLoginOk
  <2> DEFINE ids == Head(events).ids
  <2>1. LoginRequest("Settlement", ids, {}) /\ Head(events).type = "LoginOk"
    BY <1>6 DEF LoginLoginOk, ReceiveLogin
  <2>2. ids \in Nat \cup {NoIds}
    BY <1>1, <2>1, TypeReceive, EventFields
  <2> HIDE DEF ids
  <2> QED
    BY <1>1, <2>1, <2>2, TypeLoginRequest
<1> QED
  BY <1>4, <1>5, <1>6

(* The other events of drive_trade_login keep the types. *)
LEMMA TypeLoginOthers ==
    ASSUME TypeOK, LoginSettlementConfirmed \/ LoginFrontDisconnected \/ LoginFails \/ LoginIgnored
    PROVE  TypeOK'
<1>1. Receive("Login") /\ pc # "Idle" /\ NoRequest /\ UNCHANGED account_states /\ (Stay \/ Finish)
  BY DEF LoginSettlementConfirmed, LoginFrontDisconnected, LoginFails, LoginIgnored,
         ReceiveLogin, Receive
<1>2. GatewayTypeOK' /\ SessionTypeOK' /\ FrontTypeOK'
  BY <1>1, TypeNoRequest
<1>3. logged_in_ids' \in Nat \cup {NoIds}
  BY DEF LoginSettlementConfirmed, LoginFrontDisconnected, LoginFails, LoginIgnored,
         TypeOK, ActorTypeOK, DefaultIds
<1>4. ActorTypeOK'
  BY <1>1, <1>3, TypeStay DEF Receive
<1>5. logged_in_ids' \in Int
  BY <1>3 DEF NoIds
<1>6. sent' \in {{}, {LoggedInTo(cur.client, logged_in_ids')},
                 {AccountStateTo(cur.client, "Disconnected")},
                 {AccountStateTo(cur.client, "Error")}}
  BY DEF LoginSettlementConfirmed, LoginFrontDisconnected, LoginFails, LoginIgnored
<1>7. sent' \subseteq Envelopes
  BY <1>1, <1>5, <1>6, CurClient, EnvelopeTypes DEF ConnectionStates
<1> QED
  BY <1>2, <1>4, <1>7 DEF TypeOK

(* The events of drive_cancel_order and of the query loops keep the types. *)
LEMMA TypeLoops ==
    ASSUME TypeOK,
           \/ CancelReport \/ CancelEnds \/ CancelIgnored
           \/ QueryReport \/ QueryResult \/ QueryFails \/ QueryIgnored
    PROVE  TypeOK'
<1> PICK loop \in {"Cancel", "Query"} : ReceiveCommand(loop)
  BY DEF CancelReport, CancelEnds, CancelIgnored, QueryReport, QueryResult, QueryFails,
         QueryIgnored
<1>1. /\ Receive(loop) /\ NoRequest /\ pc # "Idle"
      /\ UNCHANGED <<account_states, logged_in_ids, order_registry>>
  BY DEF ReceiveCommand, Receive
<1>2. Stay \/ Finish
  BY DEF CancelReport, CancelEnds, CancelIgnored, QueryReport, QueryResult, QueryFails,
         QueryIgnored
<1>3. GatewayTypeOK' /\ SessionTypeOK' /\ FrontTypeOK'
  BY <1>1, TypeNoRequest
<1>4. logged_in_ids' \in Nat \cup {NoIds}
  BY <1>1 DEF TypeOK, ActorTypeOK
<1>5. ActorTypeOK'
  BY <1>1, <1>2, <1>4, TypeStay
<1>6. Head(events) \in Events
  BY <1>1, TypeReceive
<1>7. \/ PushReport \/ sent' = {} \/ sent' = {ErrorTo(cur.client)}
      \/ QueryResult
  BY DEF CancelReport, CancelEnds, CancelIgnored, QueryReport, QueryFails, QueryIgnored
<1>8. QueryResult => sent' \subseteq Envelopes
  BY <1>1, <1>6, CurClient, EnvelopeTypes, EventFields DEF QueryResult, Answers
<1>9. sent' \subseteq Envelopes
  BY <1>1, <1>6, <1>7, <1>8, TypePushReport, CurClient, EnvelopeTypes
<1> QED
  BY <1>3, <1>5, <1>9 DEF TypeOK

(* Every event the actor receives keeps the types. *)
LEMMA TypeEvent == ASSUME TypeOK, EventStep PROVE TypeOK'
BY TypeIdle, TypeLoginRequests, TypeLoginOthers, TypeLoops DEF EventStep

-------------------------------------------------------------------------------
(* Types: the front *)

(* A callback adds events; what the front changes is left to its callers. *)
LEMMA TypeFrontStep ==
    ASSUME TypeOK, NEW es, FrontStep(es), events \o es \in Seq(Events),
           pending_queries' \subseteq PendingQueries, FrontTypeOK'
    PROVE  TypeOK'
<1>1. GatewayTypeOK' /\ ActorTypeOK'
  BY TypeFrame DEF FrontStep
<1>2. SessionTypeOK'
  BY DEF FrontStep, TypeOK, SessionTypeOK
<1>3. sent' \subseteq Envelopes
  BY DEF FrontStep
<1> QED
  BY <1>1, <1>2, <1>3 DEF TypeOK

(* The events of a callback are appended to a channel of events. *)
LEMMA EventsAppend ==
    ASSUME TypeOK
    PROVE  /\ events \o <<>> \in Seq(Events)
           /\ \A e \in Events : events \o <<e>> \in Seq(Events)
           /\ \A d, e \in Events : events \o <<d, e>> \in Seq(Events)
BY AppendType DEF TypeOK, SessionTypeOK

(* The front takes a typed request off a typed queue. *)
LEMMA TypeServe ==
    ASSUME TypeOK, NEW kinds, Serve(kinds)
    PROVE  /\ Head(requests) \in Requests
           /\ Head(requests).rid \in Nat
           /\ Head(requests).kind \in kinds
           /\ requests' \in Seq(Requests)
<1>1. Head(requests) \in Requests /\ Tail(requests) \in Seq(Requests)
  BY TakeType DEF Serve, TypeOK, FrontTypeOK
<1> QED
  BY <1>1, RequestFields DEF Serve

(* finish_query only removes pending entries. *)
LEMMA TypeFinishQuery ==
    ASSUME TypeOK, NEW id, FinishQuery(id) \/ UNCHANGED pending_queries
    PROVE  pending_queries' \subseteq PendingQueries
BY DEF FinishQuery, TypeOK, SessionTypeOK

(* The link comes, goes, or warns. *)
LEMMA TypeLink ==
    ASSUME TypeOK, OnFrontConnected \/ OnFrontDisconnected \/ OnHeartBeatWarning
    PROVE  TypeOK'
<1>1. PICK t \in {"FrontConnected", "FrontDisconnected", "HeartBeatWarning"} :
        FrontStep(<<Event(t)>>)
  BY DEF OnFrontConnected, OnFrontDisconnected, OnHeartBeatWarning
<1>2. events \o <<Event(t)>> \in Seq(Events)
  BY EventTypes, EventsAppend
<1>3. pending_queries' \subseteq PendingQueries
  BY DEF OnFrontConnected, OnFrontDisconnected, OnHeartBeatWarning, TypeOK, SessionTypeOK
<1>4. CASE OnFrontConnected
  <2>1. FrontTypeOK'
    BY <1>4 DEF OnFrontConnected, TypeOK, FrontTypeOK
  <2> QED
    BY <1>1, <1>2, <1>3, <2>1, TypeFrontStep
<1>5. CASE OnFrontDisconnected
  <2>1. FrontTypeOK'
    BY <1>5 DEF OnFrontDisconnected, Fault, TypeOK, FrontTypeOK
  <2> QED
    BY <1>1, <1>2, <1>3, <2>1, TypeFrontStep
<1>6. CASE OnHeartBeatWarning
  <2>1. FrontTypeOK'
    BY <1>6 DEF OnHeartBeatWarning, Fault, TypeOK, FrontTypeOK
  <2> QED
    BY <1>1, <1>2, <1>3, <2>1, TypeFrontStep
<1> QED
  BY <1>4, <1>5, <1>6

(* A fault counts. *)
LEMMA TypeFault ==
    ASSUME TypeOK, NEW f, UNCHANGED faults \/ Fault(f)
    PROVE  faults' \in Nat
BY DEF Fault, TypeOK, FrontTypeOK

(* The three steps of a login at the front. *)
LEMMA TypeLoginAnswers ==
    ASSUME TypeOK, OnRspAuthenticate \/ OnRspUserLogin \/ OnRspSettlementInfoConfirm
    PROVE  TypeOK'
<1>1. requests' \in Seq(Requests)
  BY TypeServe DEF OnRspAuthenticate, OnRspUserLogin, OnRspSettlementInfoConfirm
<1>2. pending_queries' \subseteq PendingQueries
  BY DEF OnRspAuthenticate, OnRspUserLogin, OnRspSettlementInfoConfirm, TypeOK, SessionTypeOK
<1>3. CASE OnRspAuthenticate
  <2>1. \/ FrontStep(<<Event("AuthenticateOk")>>) \/ FrontStep(<<Event("AuthenticateFailed")>>)
    BY <1>3 DEF OnRspAuthenticate
  <2>2. faults' \in Nat
    BY <1>3 DEF OnRspAuthenticate, Fault, TypeOK, FrontTypeOK
  <2>3. FrontTypeOK'
    BY <1>1, <1>3, <2>2 DEF OnRspAuthenticate, TypeOK, FrontTypeOK
  <2> QED
    BY <1>2, <2>1, <2>3, EventTypes, EventsAppend, TypeFrontStep
<1>4. CASE OnRspUserLogin
  <2>1. \/ FrontStep(<<Event("LoginFailed")>>) /\ UNCHANGED <<front_session, last_session>>
        \/ \E ids \in 1..(last_session + 1) :
              /\ FrontStep(<<[type |-> "LoginOk", ids |-> ids]>>)
              /\ front_session' = ids
              /\ last_session' \in {last_session, ids}
    BY <1>4 DEF OnRspUserLogin
  <2>2. faults' \in Nat
    <3>1. UNCHANGED faults \/ Fault("secondLogin") \/ Fault("loginReject")
      BY <1>4 DEF OnRspUserLogin
    <3> QED
      BY <3>1, TypeFault
  <2>3. UNCHANGED <<link, book>>
    BY <1>4 DEF OnRspUserLogin
  <2>4. \A ids \in 1..(last_session + 1) : ids \in Nat
    BY DEF TypeOK, FrontTypeOK
  <2>5. CASE FrontStep(<<Event("LoginFailed")>>) /\ UNCHANGED <<front_session, last_session>>
    <3>1. FrontTypeOK'
      BY <1>1, <2>2, <2>3, <2>5 DEF TypeOK, FrontTypeOK
    <3> QED
      BY <1>2, <2>5, <3>1, EventTypes, EventsAppend, TypeFrontStep
  <2>6. ASSUME NEW ids \in 1..(last_session + 1),
               FrontStep(<<[type |-> "LoginOk", ids |-> ids]>>),
               front_session' = ids, last_session' \in {last_session, ids}
        PROVE  TypeOK'
    <3>1. FrontTypeOK'
      BY <1>1, <2>2, <2>3, <2>4, <2>6 DEF TypeOK, FrontTypeOK
    <3>2. [type |-> "LoginOk", ids |-> ids] \in Events
      BY <2>4, EventTypes
    <3> QED
      BY <1>2, <2>6, <3>1, <3>2, EventsAppend, TypeFrontStep
  <2> QED
    BY <2>1, <2>5, <2>6
<1>5. CASE OnRspSettlementInfoConfirm
  <2>1. \/ FrontStep(<<Event("SettlementConfirmed")>>)
        \/ FrontStep(<<Event("SettlementConfirmFailed")>>)
    BY <1>5 DEF OnRspSettlementInfoConfirm
  <2>2. faults' \in Nat
    BY <1>5 DEF OnRspSettlementInfoConfirm, Fault, TypeOK, FrontTypeOK
  <2>3. FrontTypeOK'
    BY <1>1, <1>5, <2>2 DEF OnRspSettlementInfoConfirm, TypeOK, FrontTypeOK
  <2> QED
    BY <1>2, <2>1, <2>3, EventTypes, EventsAppend, TypeFrontStep
<1> QED
  BY <1>3, <1>4, <1>5

(* An order of the book, also after its status changed. *)
LEMMA BookType ==
    ASSUME TypeOK, NEW o \in DOMAIN book, NEW s \in {"Filled", "Cancelled"}
    PROVE  /\ o \in Nat /\ book[o] \in Order /\ book[o].ref \in Refs
           /\ [book EXCEPT ![o].status = s] \in Seq(Order)
<1>1. book \in Seq(Order) /\ o \in Nat /\ book[o] \in Order
  BY DEF TypeOK, FrontTypeOK
<1>2. book[o].ref \in Refs
  BY <1>1 DEF Order
<1>3. [book[o] EXCEPT !.status = s] \in Order
  BY <1>1 DEF Order
<1>4. [book EXCEPT ![o] = [book[o] EXCEPT !.status = s]] \in Seq(Order)
  BY <1>1, <1>3
<1> QED
  BY <1>1, <1>2, <1>4

(* The answers to an order insert keep the types. *)
LEMMA TypeOrderInsert == ASSUME TypeOK, OnOrderInsert PROVE TypeOK'
<1> DEFINE r == Head(requests)
           order == [ref |-> r.ref, client |-> r.client,
                     session |-> front_session, status |-> "Accepted"]
<1>1. r \in Requests /\ r.kind = "OrderInsert" /\ requests' \in Seq(Requests)
  BY TypeServe DEF OnOrderInsert
<1>2. r.ref \in Refs /\ r.client \in Clients
  BY <1>1, RequestFields
<1>3. order \in Order
  BY <1>2 DEF Order, TypeOK, FrontTypeOK
<1>4. Len(book) + 1 \in Nat
  BY DEF TypeOK, FrontTypeOK
<1>5. \/ book' = Append(book, order) /\ FrontStep(<<OrderReturn(Len(book) + 1, r.ref, "Accepted")>>)
      \/ book' = book /\ FrontStep(<<Event("OrderInsertRejected")>>)
  BY DEF OnOrderInsert
<1>6. faults' \in Nat
  BY DEF OnOrderInsert, Fault, TypeOK, FrontTypeOK
<1>7. UNCHANGED <<pending_queries, link, front_session, last_session>>
  BY DEF OnOrderInsert
<1> HIDE DEF order, r
<1>8. book' \in Seq(Order)
  BY <1>3, <1>5, AppendType DEF TypeOK, FrontTypeOK
<1>9. FrontTypeOK' /\ pending_queries' \subseteq PendingQueries
  BY <1>1, <1>6, <1>7, <1>8 DEF TypeOK, FrontTypeOK, SessionTypeOK
<1>10. OrderReturn(Len(book) + 1, r.ref, "Accepted") \in Events
  BY <1>2, <1>4, EventTypes
<1> QED
  BY <1>5, <1>9, <1>10, EventTypes, EventsAppend, TypeFrontStep

(* The callbacks of a fill keep the types. *)
LEMMA TypeFill == ASSUME TypeOK, NEW o \in DOMAIN book, OnFill(o) PROVE TypeOK'
<1> DEFINE report == OrderReturn(o, book[o].ref, "Filled")
           trade == [type |-> "TradeReturn", order |-> o, ref |-> book[o].ref]
<1>1. report \in Events /\ trade \in Events
  BY BookType, EventTypes
<1>2. FrontStep(<<>>) \/ FrontStep(<<report, trade>>)
  BY DEF OnFill
<1>3. book' \in Seq(Order)
  BY BookType DEF OnFill
<1>4. FrontTypeOK' /\ pending_queries' \subseteq PendingQueries
  BY <1>3 DEF OnFill, TypeOK, FrontTypeOK, SessionTypeOK
<1> HIDE DEF report, trade
<1> QED
  BY <1>1, <1>2, <1>4, EventsAppend, TypeFrontStep

(* The answers to an order action keep the types. *)
LEMMA TypeOrderAction == ASSUME TypeOK, OnOrderAction PROVE TypeOK'
<1> DEFINE r == Head(requests)
           ok == [type |-> "CancelActionOk", rid |-> r.rid]
           failed == [type |-> "CancelActionFailed", rid |-> r.rid]
           report(o) == OrderReturn(o, book[o].ref, "Cancelled")
<1>1. r.rid \in Nat /\ requests' \in Seq(Requests)
  BY TypeServe DEF OnOrderAction
<1>2. ok \in Events /\ failed \in Events
  BY <1>1, EventTypes
<1>3. \A o \in DOMAIN book : report(o) \in Events
  BY BookType, EventTypes
<1>4. \/ \E o \in DOMAIN book :
            /\ book' = [book EXCEPT ![o].status = "Cancelled"]
            /\ \/ FrontStep(<<report(o)>>)
               \/ FrontStep(<<ok, report(o)>>)
               \/ FrontStep(<<report(o), ok>>)
      \/ book' = book /\ FrontStep(<<failed>>)
  BY DEF OnOrderAction
<1>5. faults' \in Nat /\ UNCHANGED <<link, front_session, last_session>>
  <2>1. UNCHANGED faults \/ Fault("cancelReject")
    BY DEF OnOrderAction
  <2>2. UNCHANGED <<link, front_session, last_session>>
    BY DEF OnOrderAction
  <2> QED
    BY <2>1, <2>2, TypeFault
<1>6. FinishQuery(r.rid) \/ UNCHANGED pending_queries
  BY DEF OnOrderAction
<1>7. book' \in Seq(Order)
  BY <1>4, BookType DEF TypeOK, FrontTypeOK
<1>8. FrontTypeOK' /\ pending_queries' \subseteq PendingQueries
  BY <1>1, <1>5, <1>6, <1>7, TypeFinishQuery DEF TypeOK, FrontTypeOK
<1> HIDE DEF r, ok, failed, report
<1> QED
  BY <1>2, <1>3, <1>4, <1>8, EventsAppend, TypeFrontStep

(* A callback for one row of a query keeps the types. *)
LEMMA TypeQueryRow == ASSUME TypeOK, OnRspQryRow PROVE TypeOK'
<1>0. PICK row \in RowKinds :
          /\ requests' = <<[Head(requests) EXCEPT !.rows = CountRow(@, row)]>> \o Tail(requests)
          /\ AppendRow(Head(requests)) \/ UNCHANGED pending_queries
  BY DEF OnRspQryRow
<1> DEFINE r == Head(requests)
           more == [r EXCEPT !.rows = CountRow(@, row)]
<1>1. r \in Requests /\ Tail(requests) \in Seq(Requests)
  BY TakeType DEF OnRspQryRow, TypeOK, FrontTypeOK
<1>2. r \in [kind : QueryOps, rid : Nat, rows : RowCounts]
  BY <1>1, RequestFields DEF OnRspQryRow
<1>3. more \in [kind : QueryOps, rid : Nat, rows : RowCounts]
  BY <1>2, CountRowType
<1>4. more \in Requests
  BY <1>3 DEF Requests
<1>5. requests' = <<more>> \o Tail(requests)
  BY <1>0
<1> HIDE DEF more
<1>6. requests' \in Seq(Requests)
  BY <1>1, <1>4, <1>5
<1>7. FrontTypeOK'
  BY <1>6 DEF OnRspQryRow, TypeOK, FrontTypeOK
<1>8. \A p \in PendingQueries : [p EXCEPT !.rows = @ + 1] \in PendingQueries
  BY DEF PendingQueries
<1>9. Pending(r) \subseteq pending_queries /\ pending_queries \subseteq PendingQueries
  BY DEF Pending, TypeOK, SessionTypeOK
<1>10. AppendRow(r) \/ UNCHANGED pending_queries
  BY <1>0
<1> HIDE DEF r
<1>11. pending_queries' \subseteq PendingQueries
  BY <1>8, <1>9, <1>10 DEF AppendRow
<1>12. FrontStep(<<>>)
  BY DEF OnRspQryRow
<1> QED
  BY <1>7, <1>11, <1>12, EventsAppend, TypeFrontStep

(* The callback of a query's last row keeps the types. *)
LEMMA TypeQueryLast == ASSUME TypeOK, OnRspQryLast PROVE TypeOK'
<1> DEFINE r == Head(requests)
<1>1. r \in Requests /\ r.kind \in QueryOps /\ requests' \in Seq(Requests)
  BY TypeServe DEF OnRspQryLast
<1>2. r.rows \in RowCounts
  BY <1>1, RequestFields
<1>3. \A p \in Pending(r) : p.rows \in Nat
  BY DEF Pending, TypeOK, SessionTypeOK, PendingQueries
<1>4. FrontTypeOK' /\ FinishQuery(r.rid)
  BY <1>1 DEF OnRspQryLast, TypeOK, FrontTypeOK
<1>5. \/ FrontStep(<<QueryReady(r, 1, r.rows)>>)
      \/ TakeRows(r, 0, r.rows)
      \/ \E row \in RowKinds, n \in 0..1 : TakeRows(r, n, CountRow(r.rows, row))
  BY DEF OnRspQryLast
<1>6. PICK i \in Nat, of \in RowCounts : FrontStep(<<QueryReady(r, i, of)>>)
  <2> HIDE DEF r
  <2>1. ASSUME NEW n \in 0..1, NEW of \in RowCounts, TakeRows(r, n, of)
        PROVE  \E i \in Nat : FrontStep(<<QueryReady(r, i, of)>>)
    <3>1. 0 \in Nat /\ \A k \in Nat : k + n \in Nat
      OBVIOUS
    <3> QED
      BY <1>3, <2>1, <3>1 DEF TakeRows
  <2>2. 1 \in Nat /\ 0 \in 0..1
    OBVIOUS
  <2>3. \A row \in RowKinds : CountRow(r.rows, row) \in RowCounts
    BY <1>2, CountRowType
  <2> QED
    BY <1>2, <1>5, <2>1, <2>2, <2>3
<1>7. QueryReady(r, i, of) \in Events
  BY <1>1, EventTypes
<1> HIDE DEF r
<1> QED
  BY <1>4, <1>6, <1>7, TypeFinishQuery, EventsAppend, TypeFrontStep

(* on_rsp_error and a query's error answer keep the types. *)
LEMMA TypeErrors ==
    ASSUME TypeOK, OnRspQryError \/ OnRspError
    PROVE  TypeOK'
<1> DEFINE r == Head(requests)
<1>1. r \in Requests /\ requests' \in Seq(Requests)
  BY TypeServe, TakeType DEF OnRspQryError, OnRspError, TypeOK, FrontTypeOK
<1>2. r.rid \in Nat
  BY <1>1, RequestFields
<1>3. faults' \in Nat /\ UNCHANGED <<link, front_session, last_session, book>>
  BY DEF OnRspQryError, OnRspError, Fault, TypeOK, FrontTypeOK
<1>4. FinishQuery(r.rid) \/ UNCHANGED pending_queries
  BY DEF OnRspQryError, OnRspError
<1>5. FrontTypeOK' /\ pending_queries' \subseteq PendingQueries
  BY <1>1, <1>3, <1>4, TypeFinishQuery DEF TypeOK, FrontTypeOK
<1>6. PICK t \in {"Error", "QueryFailed"} : FrontStep(<<[type |-> t, rid |-> r.rid]>>)
  BY DEF OnRspQryError, OnRspError
<1>7. [type |-> t, rid |-> r.rid] \in Events
  BY <1>2, EventTypes
<1> HIDE DEF r
<1> QED
  BY <1>5, <1>6, <1>7, EventsAppend, TypeFrontStep

(* Every callback of TraderSpiHandler keeps the types. *)
LEMMA TypeFront == ASSUME TypeOK, FrontNext PROVE TypeOK'
BY TypeLink, TypeLoginAnswers, TypeOrderInsert, TypeFill, TypeOrderAction, TypeQueryRow,
   TypeQueryLast, TypeErrors DEF FrontNext, FrontAnswers

-------------------------------------------------------------------------------
(* Every reachable state is typed, for all clients, ids, permissions and   *)
(* bounds: what the actor's handlers and the callbacks of the SPI write is *)
(* what the others read.                                                   *)
THEOREM TypeCorrect == Spec => []TypeOK
<1>1. Init => TypeOK
  BY TypeInit
<1>2. TypeOK /\ [Next]_vars => TypeOK'
  <2>1. ASSUME TypeOK, Next PROVE TypeOK'
    BY <2>1, TypeClient, TypeCommand, TypeEvent, TypeFront DEF Next, ActorStep
  <2>2. ASSUME TypeOK, UNCHANGED vars PROVE TypeOK'
    BY <2>2, TypeFrame DEF vars, TypeOK
  <2> QED
    BY <2>1, <2>2
<1> QED
  BY <1>1, <1>2, PTL DEF Spec

-------------------------------------------------------------------------------
(* Routing: the shapes of steps *)

(* Every event of the actor is received in some loop. *)
LEMMA EventStepReceives == EventStep => \E loop \in {"Idle", "Login", "Cancel", "Query"} : Receive(loop)
<1>1. IdleReport \/ IdleFrontDisconnected \/ IdleIgnored => Receive("Idle")
  BY DEF IdleReport, IdleFrontDisconnected, IdleIgnored
<1>2. LoginFrontConnected \/ LoginAuthenticateOk \/ LoginLoginOk => Receive("Login")
  BY DEF LoginFrontConnected, LoginAuthenticateOk, LoginLoginOk, ReceiveLogin
<1>3. LoginSettlementConfirmed \/ LoginFrontDisconnected \/ LoginFails \/ LoginIgnored
        => Receive("Login")
  BY DEF LoginSettlementConfirmed, LoginFrontDisconnected, LoginFails, LoginIgnored, ReceiveLogin
<1>4. CancelReport \/ CancelEnds \/ CancelIgnored => Receive("Cancel")
  BY DEF CancelReport, CancelEnds, CancelIgnored, ReceiveCommand
<1>5. QueryReport \/ QueryResult \/ QueryFails \/ QueryIgnored => Receive("Query")
  BY DEF QueryReport, QueryResult, QueryFails, QueryIgnored, ReceiveCommand
<1> QED
  BY <1>1, <1>2, <1>3, <1>4, <1>5 DEF EventStep

(* Every callback is a FrontStep. *)
LEMMA FrontNextSteps == FrontNext => \E es : FrontStep(es)
<1>1. OnFrontConnected \/ OnFrontDisconnected \/ OnHeartBeatWarning => \E es : FrontStep(es)
  BY DEF OnFrontConnected, OnFrontDisconnected, OnHeartBeatWarning
<1>2. OnRspAuthenticate => \E es : FrontStep(es)
  BY DEF OnRspAuthenticate
<1>3. OnRspUserLogin => \E es : FrontStep(es)
  BY DEF OnRspUserLogin
<1>4. OnRspSettlementInfoConfirm => \E es : FrontStep(es)
  BY DEF OnRspSettlementInfoConfirm
<1>5. OnOrderInsert => \E es : FrontStep(es)
  BY DEF OnOrderInsert
<1>6. OnOrderAction => \E es : FrontStep(es)
  BY DEF OnOrderAction
<1>7. OnRspQryRow \/ OnRspQryError \/ OnRspError => \E es : FrontStep(es)
  BY DEF OnRspQryRow, OnRspQryError, OnRspError
<1>8. OnRspQryLast => \E es : FrontStep(es)
  BY DEF OnRspQryLast, TakeRows
<1>9. (\E o \in DOMAIN book : OnFill(o)) => \E es : FrontStep(es)
  BY DEF OnFill
<1> QED
  BY <1>1, <1>2, <1>3, <1>4, <1>5, <1>6, <1>7, <1>8, <1>9 DEF FrontNext, FrontAnswers

(* Every operation of a client is enqueued, a PlaceOrder with an id of its own. *)
LEMMA ClientStepEnqueues ==
    ASSUME ClientStep
    PROVE  \E c \in Clients, op \in Ops, id \in OrderIds \cup {NoId} : \E exch, credentials :
              /\ op = "PlaceOrder" => id \in IdsOf[c]
              /\ Enqueue(op, c, id, exch, credentials)
              /\ \A m \in sent' : m.type = "AccountState"
<1> PICK c \in Clients :
        \/ \E credentials \in Credentials : BindAccount(c, credentials)
        \/ PlaceOrder(c)
        \/ CancelOrder(c)
        \/ Query(c)
        \/ LogoutAccount(c)
  BY DEF ClientStep
<1> DEFINE Goal(op, id) ==
             \E exch, credentials : /\ Enqueue(op, c, id, exch, credentials)
                                    /\ \A m \in sent' : m.type = "AccountState"
<1>1. ASSUME NEW op, NEW id, NEW exch, SendTradeCommand(op, c, id, exch)
      PROVE  Goal(op, id)
  BY <1>1 DEF SendTradeCommand
<1>2. ASSUME NEW credentials, BindAccount(c, credentials)
      PROVE  Goal("Login", NoId)
  BY <1>2 DEF BindAccount, AccountStateTo
<1>3. PlaceOrder(c) => \E id \in IdsOf[c] : Goal("PlaceOrder", id)
  <2> HIDE DEF Goal
  <2> QED
    BY <1>1 DEF PlaceOrder
<1>4. CancelOrder(c) => \E id \in IdsOf[c] \cup {NoId} : Goal("CancelOrder", id)
  <2> HIDE DEF Goal
  <2> QED
    BY <1>1 DEF CancelOrder
<1>5. Query(c) => \E op \in QueryOps : Goal(op, NoId)
  <2> HIDE DEF Goal
  <2> QED
    BY <1>1 DEF Query
<1>6. LogoutAccount(c) => Goal("Logout", NoId)
  <2> HIDE DEF Goal
  <2> QED
    BY <1>1 DEF LogoutAccount
<1>7. IdsOf[c] \subseteq OrderIds
  BY ConstantsAssumption
<1>8. \E op \in Ops, id \in OrderIds \cup {NoId} : (op = "PlaceOrder" => id \in IdsOf[c]) /\ Goal(op, id)
  <2>1. {"Login", "PlaceOrder", "CancelOrder", "Logout"} \subseteq Ops
    BY DEF Ops
  <2>2. QueryOps \subseteq Ops /\ "PlaceOrder" \notin QueryOps
    BY DEF Ops, QueryOps
  <2> HIDE DEF Goal
  <2> QED
    BY <1>2, <1>3, <1>4, <1>5, <1>6, <1>7, <2>1, <2>2
<1> QED
  BY <1>8

(* Every command the actor starts is taken from the channel. *)
LEMMA CommandStepTakes == CommandStep => TakeCommand
<1>1. LoggedOutReject \/ LoggedOutLogout \/ LoginConnect \/ LoginConnectFails => TakeCommand
  BY DEF LoggedOutReject, LoggedOutLogout, LoginConnect, LoginConnectFails
<1>2. LoginResume \/ LoggedInLogin \/ InsertOrder \/ StartCancel => TakeCommand
  BY DEF LoginResume, LoggedInLogin, InsertOrder, StartCancel
<1>3. StartQuery \/ LoggedInLogout => TakeCommand
  BY DEF StartQuery, LoggedInLogout
<1> QED
  BY <1>1, <1>2, <1>3 DEF CommandStep

-------------------------------------------------------------------------------
(* Routing: the invariant *)

(* Without commands, orders or events there is nothing to misroute. *)
LEMMA RoutingInit == Init => RoutingInv
BY DEF Init, RoutingInv

(* What was appended to a typed sequence has the type. *)
LEMMA AppendIn ==
    ASSUME NEW S, NEW s \in Seq(S), NEW e, Append(s, e) \in Seq(S)
    PROVE  e \in S
<1>1. Append(s, e)[Len(s) + 1] = e /\ Len(Append(s, e)) = Len(s) + 1
  OBVIOUS
<1>2. Len(s) + 1 \in DOMAIN Append(s, e)
  BY <1>1
<1> QED
  BY <1>1, <1>2

(* A client's place order carries one of its own client_order_ids. *)
LEMMA RoutingCommands ==
    ASSUME TypeOK, RoutingInv, Next
    PROVE  commands' \in Seq(OwnCommands)
<1>1. CASE ClientStep
  <2>0. PICK c \in Clients, op \in Ops, id \in OrderIds \cup {NoId} : \E exch, credentials :
            /\ op = "PlaceOrder" => id \in IdsOf[c]
            /\ Enqueue(op, c, id, exch, credentials)
    BY <1>1, ClientStepEnqueues
  <2>1. PICK exch, credentials : /\ op = "PlaceOrder" => id \in IdsOf[c]
                                 /\ Enqueue(op, c, id, exch, credentials)
    BY <2>0
  <2> DEFINE cmd == [op |-> op, client |-> c, id |-> id, exch |-> exch,
                     credentials |-> credentials]
  <2>2. commands' = Append(commands, cmd)
    BY <2>1 DEF Enqueue
  <2>3. commands' \in Seq(Commands)
    BY <1>1, TypeClient DEF TypeOK, GatewayTypeOK
  <2>4. cmd \in Commands
    BY <2>2, <2>3, AppendIn DEF TypeOK, GatewayTypeOK
  <2>5. cmd \in OwnCommands
    BY <2>1, <2>4 DEF OwnCommands
  <2> HIDE DEF cmd
  <2> QED
    BY <2>2, <2>5, AppendType DEF RoutingInv
<1>2. CASE CommandStep
  <2>1. commands # <<>> /\ commands' = Tail(commands)
    BY <1>2, CommandStepTakes DEF TakeCommand
  <2> QED
    BY <2>1, TakeType DEF RoutingInv
<1>3. CASE EventStep
  BY <1>3, EventStepReceives DEF Receive, RoutingInv
<1>4. CASE FrontNext
  BY <1>4, FrontNextSteps DEF FrontStep, gatewayVars, RoutingInv
<1> QED
  BY <1>1, <1>2, <1>3, <1>4 DEF Next, ActorStep

(* The registry entry of a place order is tied to its client. *)
LEMMA OwnInsert ==
    ASSUME TypeOK, RoutingInv, TakeCommand, Head(commands).op = "PlaceOrder"
    PROVE  /\ OrderRef[Head(commands).id] \in Refs
           /\ Owns(Head(commands).client, OrderRef[Head(commands).id])
<1>1. Head(commands) \in OwnCommands
  BY TakeType DEF TakeCommand, RoutingInv
<1>2. Head(commands).id \in IdsOf[Head(commands).client] /\ Head(commands) \in Commands
  BY <1>1 DEF OwnCommands
<1>3. Head(commands).id \in OrderIds
  BY <1>2, CommandFields
<1> QED
  BY <1>2, <1>3, RefType DEF Owns

(* Only a place order and a logout write the registry. *)
LEMMA RegistrySteps ==
    ASSUME Next
    PROVE  UNCHANGED order_registry \/ InsertOrder \/ LoggedInLogout
<1>1. ClientStep => UNCHANGED order_registry
  BY ClientStepEnqueues DEF Enqueue, actorVars
<1>2. EventStep => UNCHANGED order_registry
  BY EventStepReceives DEF Receive
<1>3. FrontNext => UNCHANGED order_registry
  BY FrontNextSteps DEF FrontStep, actorVars
<1>4. LoggedOutReject \/ LoggedOutLogout \/ LoggedInLogin => UNCHANGED order_registry
  BY DEF LoggedOutReject, LoggedOutLogout, LoggedInLogin, Reply, actorVars
<1>5. LoginConnect \/ LoginConnectFails \/ LoginResume => UNCHANGED order_registry
  BY DEF LoginConnect, LoginConnectFails, LoginResume, StartLogin, actorVars
<1>6. StartCancel \/ StartQuery => UNCHANGED order_registry
  BY DEF StartCancel, StartQuery, StartRequest
<1> QED
  BY <1>1, <1>2, <1>3, <1>4, <1>5, <1>6 DEF Next, ActorStep, CommandStep

(* The registry ties an OrderRef to a client with an id of that reference. *)
LEMMA RoutingRegistry ==
    ASSUME TypeOK, RoutingInv, Next
    PROVE  \A ref \in Refs : order_registry'[ref] # NoClient => Owns(order_registry'[ref], ref)
<1>1. UNCHANGED order_registry \/ InsertOrder \/ LoggedInLogout
  BY RegistrySteps
<1>2. CASE InsertOrder
  <2>1. /\ Owns(Head(commands).client, OrderRef[Head(commands).id])
        /\ order_registry' =
             [order_registry EXCEPT ![OrderRef[Head(commands).id]] = Head(commands).client]
    BY <1>2, OwnInsert DEF InsertOrder, Register
  <2>2. order_registry \in [Refs -> Clients \cup {NoClient}]
    BY DEF TypeOK, ActorTypeOK
  <2> QED
    BY <2>1, <2>2 DEF RoutingInv
<1>3. CASE LoggedInLogout
  BY <1>3 DEF LoggedInLogout, ClearRegistry
<1> QED
  BY <1>1, <1>2, <1>3 DEF RoutingInv

(* An order insert carries a reference of the client that placed it. *)
LEMMA RoutingRequests ==
    ASSUME TypeOK, RoutingInv, Next, TypeOK'
    PROVE  requests' \in Seq(OwnRequests)
<1> DEFINE Asks == \E r : /\ r.kind = "OrderInsert" => Owns(r.client, r.ref)
                          /\ Accepted(r)
           Goal == requests' \in Seq(OwnRequests)
<1>1. UNCHANGED requests \/ Refused => Goal
  BY DEF RoutingInv, Refused
<1>2. requests' = <<>> => Goal
  OBVIOUS
<1>3. requests # <<>> /\ requests' = Tail(requests) => Goal
  BY TakeType DEF RoutingInv
<1>4. Asks => Goal
  <2> SUFFICES ASSUME NEW r, r.kind = "OrderInsert" => Owns(r.client, r.ref), Accepted(r)
               PROVE  Goal
    OBVIOUS
  <2>1. requests' = Append(requests, r)
    BY DEF Accepted
  <2>2. r \in Requests
    BY <2>1, AppendIn DEF TypeOK, FrontTypeOK
  <2>3. r \in OwnRequests
    BY <2>2 DEF OwnRequests
  <2> QED
    BY <2>1, <2>3, AppendType DEF RoutingInv
<1>5. OnRspQryRow => Goal
  <2> SUFFICES ASSUME OnRspQryRow PROVE Goal
    OBVIOUS
  <2>0. PICK row \in RowKinds :
            requests' = <<[Head(requests) EXCEPT !.rows = CountRow(@, row)]>> \o Tail(requests)
    BY DEF OnRspQryRow
  <2> DEFINE r == Head(requests)
             more == [r EXCEPT !.rows = CountRow(@, row)]
  <2>1. r \in Requests /\ Tail(requests) \in Seq(OwnRequests)
    BY TakeType DEF OnRspQryRow, RoutingInv, TypeOK, FrontTypeOK
  <2>2. r \in [kind : QueryOps, rid : Nat, rows : RowCounts]
    BY <2>1, RequestFields DEF OnRspQryRow
  <2>3. more \in [kind : QueryOps, rid : Nat, rows : RowCounts]
    BY <2>2, CountRowType
  <2>4. more \in OwnRequests
    BY <2>3 DEF OwnRequests, Requests, QueryOps
  <2>5. requests' = <<more>> \o Tail(requests)
    BY <2>0
  <2> HIDE DEF more
  <2> QED
    BY <2>1, <2>4, <2>5
<1>6. CASE ClientStep
  BY <1>1, <1>6, ClientStepEnqueues DEF Enqueue, frontVars
<1>7. CASE CommandStep
  <2>1. LoggedOutReject \/ LoggedOutLogout \/ LoggedInLogin => UNCHANGED requests
    BY DEF LoggedOutReject, LoggedOutLogout, LoggedInLogin, Reply, frontVars
  <2>2. LoginConnect \/ LoginConnectFails \/ LoginResume => UNCHANGED requests
    BY DEF LoginConnect, LoginConnectFails, LoginResume, frontVars
  <2>3. LoggedInLogout => requests' = <<>>
    BY DEF LoggedInLogout
  <2>4. InsertOrder => Refused \/ Asks
    BY OwnInsert DEF InsertOrder
  <2>5. StartCancel => Refused \/ Asks
    BY DEF StartCancel, StartRequest
  <2>6. StartQuery => Refused \/ Asks
    BY DEF StartQuery, StartRequest, QueryOps
  <2> HIDE DEF Asks
  <2> QED
    BY <1>1, <1>2, <1>4, <1>7, <2>1, <2>2, <2>3, <2>4, <2>5, <2>6 DEF CommandStep
<1>8. CASE EventStep
  <2>1. IdleReport \/ IdleFrontDisconnected \/ IdleIgnored => UNCHANGED requests
    BY DEF IdleReport, IdleFrontDisconnected, IdleIgnored, NoRequest
  <2>2. LoginSettlementConfirmed \/ LoginFrontDisconnected \/ LoginFails \/ LoginIgnored
          => UNCHANGED requests
    BY DEF LoginSettlementConfirmed, LoginFrontDisconnected, LoginFails, LoginIgnored, NoRequest
  <2>3. CancelReport \/ CancelEnds \/ CancelIgnored \/ QueryReport \/ QueryResult
          \/ QueryFails \/ QueryIgnored => UNCHANGED requests
    BY DEF CancelReport, CancelEnds, CancelIgnored, QueryReport, QueryResult, QueryFails,
           QueryIgnored, ReceiveCommand, NoRequest
  <2>4. ASSUME NEW kind \in {"Authenticate", "UserLogin", "Settlement"}, NEW ids, NEW replies,
               LoginRequest(kind, ids, replies)
        PROVE  Refused \/ Asks
    BY <2>4 DEF LoginRequest
  <2>5. LoginFrontConnected \/ LoginAuthenticateOk \/ LoginLoginOk => Refused \/ Asks
    <3> HIDE DEF Asks
    <3> QED
      BY <2>4 DEF LoginFrontConnected, LoginAuthenticateOk, LoginLoginOk
  <2> HIDE DEF Asks
  <2> QED
    BY <1>1, <1>4, <1>8, <2>1, <2>2, <2>3, <2>5 DEF EventStep
<1>9. CASE FrontNext
  <2>1. OnFrontConnected \/ OnHeartBeatWarning \/ (\E o \in DOMAIN book : OnFill(o))
          => UNCHANGED requests
    BY DEF OnFrontConnected, OnHeartBeatWarning, OnFill
  <2>2. OnFrontDisconnected => requests' = <<>>
    BY DEF OnFrontDisconnected
  <2>3. OnRspAuthenticate \/ OnRspUserLogin \/ OnRspSettlementInfoConfirm
          \/ OnOrderInsert \/ OnOrderAction \/ OnRspQryLast \/ OnRspQryError \/ OnRspError
          => requests # <<>> /\ requests' = Tail(requests)
    BY DEF OnRspAuthenticate, OnRspUserLogin, OnRspSettlementInfoConfirm, OnOrderInsert,
           OnOrderAction, OnRspQryLast, OnRspQryError, OnRspError, Serve
  <2> QED
    BY <1>1, <1>2, <1>3, <1>5, <1>9, <2>1, <2>2, <2>3 DEF FrontNext, FrontAnswers
<1> QED
  BY <1>6, <1>7, <1>8, <1>9 DEF Next, ActorStep

(* What steps do to the book. *)
BookChanges(o) == \E s \in {"Filled", "Cancelled"} : book' = [book EXCEPT ![o].status = s]
BookInsert ==
    /\ Serve({"OrderInsert"})
    /\ book' = Append(book, [ref |-> Head(requests).ref, client |-> Head(requests).client,
                             session |-> front_session, status |-> "Accepted"])

(* The book gains the order at the head, or one order changes its status. *)
LEMMA BookSteps ==
    ASSUME Next
    PROVE  \/ UNCHANGED book
           \/ OnOrderInsert /\ BookInsert
           \/ \E o \in DOMAIN book : BookChanges(o)
<1>1. UNCHANGED book \/ OnOrderInsert \/ OnOrderAction \/ \E o \in DOMAIN book : OnFill(o)
  <2>1. ClientStep => UNCHANGED book
    BY ClientStepEnqueues DEF Enqueue, frontVars
  <2>2. EventStep => UNCHANGED book
    BY EventStepReceives DEF Receive
  <2>3. CommandStep => UNCHANGED book
    <3>1. LoggedOutReject \/ LoggedOutLogout \/ LoggedInLogin => UNCHANGED book
      BY DEF LoggedOutReject, LoggedOutLogout, LoggedInLogin, Reply, frontVars
    <3>2. LoginConnect \/ LoginConnectFails \/ LoginResume => UNCHANGED book
      BY DEF LoginConnect, LoginConnectFails, LoginResume, frontVars
    <3>3. InsertOrder \/ StartCancel \/ StartQuery \/ LoggedInLogout => UNCHANGED book
      BY DEF InsertOrder, StartCancel, StartQuery, StartRequest, LoggedInLogout
    <3> QED
      BY <3>1, <3>2, <3>3 DEF CommandStep
  <2>4. OnFrontConnected \/ OnFrontDisconnected \/ OnHeartBeatWarning => UNCHANGED book
    BY DEF OnFrontConnected, OnFrontDisconnected, OnHeartBeatWarning
  <2>5. OnRspAuthenticate \/ OnRspUserLogin \/ OnRspSettlementInfoConfirm => UNCHANGED book
    BY DEF OnRspAuthenticate, OnRspUserLogin, OnRspSettlementInfoConfirm
  <2>6. OnRspQryRow \/ OnRspQryLast \/ OnRspQryError \/ OnRspError => UNCHANGED book
    BY DEF OnRspQryRow, OnRspQryLast, OnRspQryError, OnRspError
  <2> QED
    BY <2>1, <2>2, <2>3, <2>4, <2>5, <2>6 DEF Next, ActorStep, FrontNext, FrontAnswers
<1>2. OnOrderInsert => UNCHANGED book \/ BookInsert
  BY DEF OnOrderInsert, BookInsert
<1>3. OnOrderAction => UNCHANGED book \/ \E o \in DOMAIN book : BookChanges(o)
  BY DEF OnOrderAction, BookChanges
<1>4. \A o \in DOMAIN book : OnFill(o) => BookChanges(o)
  BY DEF OnFill, BookChanges
<1> QED
  BY <1>1, <1>2, <1>3, <1>4

(* An order of the book keeps its reference and its client, and once it is *)
(* over it stays so.                                                       *)
LEMMA BookGrows ==
    ASSUME TypeOK, Next
    PROVE  \A o \in DOMAIN book : /\ o \in DOMAIN book'
                                  /\ book'[o].ref = book[o].ref
                                  /\ book'[o].client = book[o].client
                                  /\ book[o].status # "Accepted" => book'[o].status # "Accepted"
<1>1. book \in Seq(Order) /\ \A o \in DOMAIN book : book[o] \in Order
  BY DEF TypeOK, FrontTypeOK
<1>2. CASE UNCHANGED book
  BY <1>2
<1>3. CASE BookInsert
  BY <1>1, <1>3 DEF BookInsert
<1>4. ASSUME NEW o \in DOMAIN book, BookChanges(o), NEW p \in DOMAIN book
      PROVE  /\ p \in DOMAIN book' /\ book'[p].ref = book[p].ref /\ book'[p].client = book[p].client
             /\ book[p].status # "Accepted" => book'[p].status # "Accepted"
  <2>1. PICK s \in {"Filled", "Cancelled"} :
               book' = [book EXCEPT ![o] = [book[o] EXCEPT !.status = s]]
    BY <1>4 DEF BookChanges
  <2>2. CASE p = o
    BY <1>1, <2>1, <2>2 DEF Order
  <2>3. CASE p # o
    BY <2>1, <2>3
  <2> QED
    BY <2>2, <2>3
<1> QED
  BY <1>2, <1>3, <1>4, BookSteps

(* An order at the exchange carries a reference of the client it is of. *)
LEMMA RoutingBook ==
    ASSUME TypeOK, RoutingInv, Next, TypeOK'
    PROVE  book' \in Seq(OwnOrders)
<1> SUFFICES ASSUME NEW o \in DOMAIN book' PROVE book'[o] \in OwnOrders
  BY DEF TypeOK, FrontTypeOK
<1>1. book'[o] \in Order
  BY DEF TypeOK, FrontTypeOK
<1> SUFFICES Owns(book'[o].client, book'[o].ref)
  BY <1>1 DEF OwnOrders
<1>2. CASE o \in DOMAIN book
  <2>1. book[o] \in OwnOrders
    BY <1>2 DEF RoutingInv
  <2> QED
    BY <1>2, <2>1, BookGrows DEF OwnOrders
<1>3. CASE o \notin DOMAIN book
  <2> DEFINE r == Head(requests)
             order == [ref |-> r.ref, client |-> r.client,
                       session |-> front_session, status |-> "Accepted"]
  <2>1. book' = Append(book, order) /\ Serve({"OrderInsert"})
    <3>1. \A p \in DOMAIN book : BookChanges(p) => DOMAIN book' = DOMAIN book
      BY DEF BookChanges
    <3> QED
      BY <1>3, <3>1, BookSteps DEF BookInsert
  <2>2. r \in OwnRequests /\ r.kind = "OrderInsert"
    BY <2>1, TakeType DEF Serve, RoutingInv
  <2>3. book'[o] = order
    BY <1>3, <2>1 DEF TypeOK, FrontTypeOK
  <2> QED
    BY <2>2, <2>3 DEF OwnRequests
<1> QED
  BY <1>2, <1>3

(* The events of a callback: none, one or two, each about an order of the book. *)
LEMMA FrontReports ==
    ASSUME TypeOK, FrontNext
    PROVE  \E d, e : /\ Booked(book', d) /\ Booked(book', e)
                     /\ FrontStep(<<>>) \/ FrontStep(<<e>>) \/ FrontStep(<<d, e>>)
<1> DEFINE Other(e) == e.type \notin {"OrderReturn", "TradeReturn"}
           Goal == \E d, e : /\ Booked(book', d) /\ Booked(book', e)
                             /\ FrontStep(<<>>) \/ FrontStep(<<e>>) \/ FrontStep(<<d, e>>)
<1>1. \A e : Other(e) => Booked(book', e)
  BY DEF Booked
<1>2. ASSUME FrontStep(<<>>) PROVE Goal
  <2>1. Other([type |-> "LoginFailed"])
    OBVIOUS
  <2> QED
    BY <1>1, <1>2, <2>1
<1>3. ASSUME NEW e, Booked(book', e), FrontStep(<<e>>) PROVE Goal
  BY <1>3
<1>4. ASSUME NEW e, Other(e), FrontStep(<<e>>) PROVE Goal
  BY <1>1, <1>3, <1>4
<1>5. ASSUME NEW d, NEW e, Booked(book', d), Booked(book', e), FrontStep(<<d, e>>) PROVE Goal
  BY <1>5
<1> HIDE DEF Goal
<1>6. OnFrontConnected \/ OnFrontDisconnected \/ OnHeartBeatWarning => Goal
  BY <1>4 DEF OnFrontConnected, OnFrontDisconnected, OnHeartBeatWarning, Event
<1>7. OnRspAuthenticate \/ OnRspSettlementInfoConfirm => Goal
  BY <1>4 DEF OnRspAuthenticate, OnRspSettlementInfoConfirm, Event
<1>8. OnRspUserLogin => Goal
  <2>1. OnRspUserLogin => \/ FrontStep(<<Event("LoginFailed")>>)
                          \/ \E ids : FrontStep(<<[type |-> "LoginOk", ids |-> ids]>>)
    BY DEF OnRspUserLogin
  <2>2. Other(Event("LoginFailed")) /\ \A ids : Other([type |-> "LoginOk", ids |-> ids])
    BY DEF Event
  <2> HIDE DEF Other
  <2> QED
    BY <1>4, <2>1, <2>2
<1>9. OnOrderInsert => Goal
  <2> SUFFICES ASSUME OnOrderInsert PROVE Goal
    OBVIOUS
  <2> DEFINE r == Head(requests)
             e == OrderReturn(Len(book) + 1, r.ref, "Accepted")
  <2>1. CASE FrontStep(<<Event("OrderInsertRejected")>>)
    BY <1>4, <2>1 DEF Event
  <2>2. CASE FrontStep(<<e>>) /\ BookInsert
    <3>1. Len(book) + 1 \in DOMAIN book' /\ book'[Len(book) + 1].ref = r.ref
      BY <2>2 DEF BookInsert, TypeOK, FrontTypeOK
    <3>2. Booked(book', e)
      BY <3>1 DEF Booked, OrderReturn
    <3> HIDE DEF e
    <3> QED
      BY <1>3, <2>2, <3>2
  <2>3. FrontStep(<<Event("OrderInsertRejected")>>) \/ (FrontStep(<<e>>) /\ BookInsert)
    BY DEF OnOrderInsert, BookInsert
  <2> QED
    BY <2>1, <2>2, <2>3
<1>10. ASSUME NEW o \in DOMAIN book, NEW s \in {"Filled", "Cancelled"},
              book' = [book EXCEPT ![o].status = s]
       PROVE  /\ \A t : Booked(book', OrderReturn(o, book[o].ref, t))
              /\ Booked(book', [type |-> "TradeReturn", order |-> o, ref |-> book[o].ref])
  <2>1. book[o] \in Order
    BY DEF TypeOK, FrontTypeOK
  <2>2. o \in DOMAIN book' /\ book'[o].ref = book[o].ref /\ book'[o].status = s
    BY <1>10, <2>1 DEF Order
  <2> QED
    BY <2>2 DEF Booked, OrderReturn
<1>11. ASSUME NEW o \in DOMAIN book, OnFill(o) PROVE Goal
  <2> DEFINE d == OrderReturn(o, book[o].ref, "Filled")
             e == [type |-> "TradeReturn", order |-> o, ref |-> book[o].ref]
  <2>1. Booked(book', d) /\ Booked(book', e)
    BY <1>10, <1>11 DEF OnFill
  <2>2. FrontStep(<<>>) \/ FrontStep(<<d, e>>)
    BY <1>11 DEF OnFill
  <2> HIDE DEF d, e
  <2> QED
    BY <1>2, <1>5, <2>1, <2>2
<1>12. OnOrderAction => Goal
  <2> SUFFICES ASSUME OnOrderAction PROVE Goal
    OBVIOUS
  <2> DEFINE ok == [type |-> "CancelActionOk", rid |-> Head(requests).rid]
             failed == [type |-> "CancelActionFailed", rid |-> Head(requests).rid]
             report(o) == OrderReturn(o, book[o].ref, "Cancelled")
  <2>1. Other(ok) /\ Other(failed)
    OBVIOUS
  <2>2. \/ FrontStep(<<failed>>)
        \/ \E o \in DOMAIN book :
              /\ book' = [book EXCEPT ![o].status = "Cancelled"]
              /\ \/ FrontStep(<<report(o)>>)
                 \/ FrontStep(<<ok, report(o)>>)
                 \/ FrontStep(<<report(o), ok>>)
    BY DEF OnOrderAction
  <2>3. ASSUME NEW o \in DOMAIN book, book' = [book EXCEPT ![o].status = "Cancelled"]
        PROVE  Booked(book', report(o))
    BY <1>10, <2>3
  <2> HIDE DEF ok, failed, report, Other
  <2> QED
    BY <1>1, <1>3, <1>4, <1>5, <2>1, <2>2, <2>3
<1>13. OnRspQryRow => Goal
  BY <1>2 DEF OnRspQryRow
<1>14. OnRspQryLast => Goal
  <2>1. OnRspQryLast => \E r, i, j : FrontStep(<<QueryReady(r, i, j)>>)
    BY DEF OnRspQryLast, TakeRows
  <2>2. \A r, i, j : Other(QueryReady(r, i, j))
    BY DEF QueryReady
  <2> HIDE DEF Other
  <2> QED
    BY <1>4, <2>1, <2>2
<1>15. OnRspQryError \/ OnRspError => Goal
  <2>1. OnRspQryError \/ OnRspError => \E t \in {"Error", "QueryFailed"} : \E i :
              FrontStep(<<[type |-> t, rid |-> i]>>)
    BY DEF OnRspQryError, OnRspError
  <2>2. \A t \in {"Error", "QueryFailed"} : \A i : Other([type |-> t, rid |-> i])
    OBVIOUS
  <2> HIDE DEF Other
  <2> QED
    BY <1>4, <2>1, <2>2
<1>16. Goal
  BY <1>6, <1>7, <1>8, <1>9, <1>11, <1>12, <1>13, <1>14, <1>15 DEF FrontNext, FrontAnswers
<1> QED
  BY <1>16 DEF Goal

(* What was appended to a typed sequence has the elements' type. *)
LEMMA ConcatIn ==
    ASSUME NEW S, NEW s \in Seq(S), NEW d, NEW e
    PROVE  /\ s \o <<e>> \in Seq(S) => e \in S
           /\ s \o <<d, e>> \in Seq(S) => d \in S /\ e \in S
<1>1. ASSUME s \o <<e>> \in Seq(S) PROVE e \in S
  <2>1. (s \o <<e>>)[Len(s) + 1] = e /\ Len(s) + 1 \in 1..Len(s \o <<e>>)
    OBVIOUS
  <2> QED
    BY <1>1, <2>1
<1>2. ASSUME s \o <<d, e>> \in Seq(S) PROVE d \in S /\ e \in S
  <2>1. /\ (s \o <<d, e>>)[Len(s) + 1] = d /\ Len(s) + 1 \in 1..Len(s \o <<d, e>>)
        /\ (s \o <<d, e>>)[Len(s) + 2] = e /\ Len(s) + 2 \in 1..Len(s \o <<d, e>>)
    OBVIOUS
  <2> QED
    BY <1>2, <2>1
<1> QED
  BY <1>1, <1>2

(* A queued report names an order of the book, under its reference. *)
LEMMA RoutingEvents ==
    ASSUME TypeOK, RoutingInv, Next, TypeOK'
    PROVE  (events \in Seq(BookedEvents))'
<1>1. BookedEvents \subseteq BookedEvents'
  BY BookGrows DEF BookedEvents, Booked
<1>2. events \in Seq(BookedEvents')
  BY <1>1 DEF RoutingInv
<1>3. UNCHANGED events => (events \in Seq(BookedEvents))'
  BY <1>2
<1>4. events # <<>> /\ events' = Tail(events) => (events \in Seq(BookedEvents))'
  BY <1>2, TakeType
<1>5. CASE ClientStep
  BY <1>3, <1>5, ClientStepEnqueues DEF Enqueue, sessionVars
<1>6. CASE EventStep
  BY <1>4, <1>6, EventStepReceives DEF Receive
<1>7. CASE CommandStep
  <2>1. LoggedOutReject \/ LoggedOutLogout \/ LoggedInLogin => UNCHANGED events
    BY DEF LoggedOutReject, LoggedOutLogout, LoggedInLogin, Reply, sessionVars
  <2>2. LoginConnect \/ LoginConnectFails \/ LoginResume => UNCHANGED events
    BY DEF LoginConnect, LoginConnectFails, LoginResume, sessionVars
  <2>3. InsertOrder \/ StartCancel \/ StartQuery => UNCHANGED events
    BY DEF InsertOrder, StartCancel, StartQuery, StartRequest
  <2>4. LoggedInLogout => events' = <<>>
    BY DEF LoggedInLogout
  <2>5. events' = <<>> => (events \in Seq(BookedEvents))'
    OBVIOUS
  <2> QED
    BY <1>3, <1>7, <2>1, <2>2, <2>3, <2>4, <2>5 DEF CommandStep
<1>8. CASE FrontNext
  <2> PICK d, e : /\ Booked(book', d) /\ Booked(book', e)
                  /\ FrontStep(<<>>) \/ FrontStep(<<e>>) \/ FrontStep(<<d, e>>)
    BY <1>8, FrontReports
  <2>1. events \in Seq(Events) /\ events' \in Seq(Events)
    BY DEF TypeOK, SessionTypeOK
  <2>2. CASE FrontStep(<<>>)
    BY <1>2, <2>2, AppendType DEF FrontStep
  <2>3. CASE FrontStep(<<e>>)
    <3>1. events' = events \o <<e>>
      BY <2>3 DEF FrontStep
    <3>2. e \in Events
      BY <2>1, <3>1, ConcatIn
    <3>3. e \in BookedEvents'
      BY <3>2 DEF BookedEvents
    <3> QED
      BY <1>2, <3>1, <3>3, AppendType
  <2>4. CASE FrontStep(<<d, e>>)
    <3>1. events' = events \o <<d, e>>
      BY <2>4 DEF FrontStep
    <3>2. d \in Events /\ e \in Events
      BY <2>1, <3>1, ConcatIn
    <3>3. d \in BookedEvents' /\ e \in BookedEvents'
      BY <3>2 DEF BookedEvents
    <3> QED
      BY <1>2, <3>1, <3>3, AppendType
  <2> QED
    BY <2>2, <2>3, <2>4
<1> QED
  BY <1>5, <1>6, <1>7, <1>8 DEF Next, ActorStep

(* Every step preserves the routing invariant. *)
LEMMA RoutingStep ==
    ASSUME TypeOK, RoutingInv, Next, TypeOK'
    PROVE  RoutingInv'
BY RoutingCommands, RoutingRegistry, RoutingRequests, RoutingBook, RoutingEvents DEF RoutingInv

-------------------------------------------------------------------------------
(* Routing: the reports of a step *)

(* Only the loops' report arms put reports on outbound channels. *)
LEMMA SentReports ==
    ASSUME Next
    PROVE  \/ \A m \in sent' : m.type \notin {"OrderUpdate", "TradeUpdate"}
           \/ PushReport /\ events # <<>> /\ UNCHANGED book
<1> DEFINE Quiet == \A m \in sent' : m.type \notin {"OrderUpdate", "TradeUpdate"}
<1>1. \A c, s, ids : /\ AccountStateTo(c, s).type = "AccountState"
                     /\ LoggedInTo(c, ids).type = "AccountState"
                     /\ ErrorTo(c).type = "Error"
  BY DEF AccountStateTo, LoggedInTo, ErrorTo
<1>2. sent' = {} => Quiet
  OBVIOUS
<1>3. ASSUME NEW c, NEW s, sent' = {AccountStateTo(c, s)} PROVE Quiet
  BY <1>1, <1>3
<1>4. ASSUME NEW c, sent' = {ErrorTo(c)} PROVE Quiet
  BY <1>1, <1>4
<1>5. ASSUME NEW c, NEW ids, sent' = {LoggedInTo(c, ids)} PROVE Quiet
  BY <1>1, <1>5
<1>6. ClientStep => Quiet
  BY ClientStepEnqueues
<1>7. FrontNext => Quiet
  BY FrontNextSteps DEF FrontStep
<1> HIDE DEF Quiet
<1>8. CommandStep => Quiet
  <2>1. LoggedOutReject \/ LoggedOutLogout \/ LoggedInLogin => Quiet
    BY <1>3, <1>4, <1>5 DEF LoggedOutReject, LoggedOutLogout, LoggedInLogin, Reply
  <2>2. LoginConnect \/ LoginConnectFails \/ LoginResume \/ LoggedInLogout => Quiet
    BY <1>3 DEF LoginConnect, LoginConnectFails, LoginResume, StartLogin, LoggedInLogout
  <2>3. InsertOrder => Quiet
    BY <1>2, <1>4 DEF InsertOrder
  <2>4. StartCancel \/ StartQuery => Quiet
    BY <1>2 DEF StartCancel, StartQuery, StartRequest
  <2> QED
    BY <2>1, <2>2, <2>3, <2>4 DEF CommandStep
<1>9. CASE EventStep
  <2>1. events # <<>> /\ UNCHANGED book
    BY <1>9, EventStepReceives DEF Receive
  <2>2. IdleReport \/ CancelReport \/ QueryReport => PushReport
    BY DEF IdleReport, CancelReport, QueryReport
  <2>3. IdleFrontDisconnected \/ IdleIgnored \/ LoginIgnored \/ CancelIgnored \/ QueryIgnored => Quiet
    BY <1>2 DEF IdleFrontDisconnected, IdleIgnored, LoginIgnored, CancelIgnored, QueryIgnored
  <2>4. LoginFrontDisconnected \/ LoginFails => Quiet
    BY <1>3 DEF LoginFrontDisconnected, LoginFails
  <2>5. LoginSettlementConfirmed => Quiet
    BY <1>5 DEF LoginSettlementConfirmed
  <2>6. CancelEnds \/ QueryFails => Quiet
    BY <1>2, <1>4 DEF CancelEnds, QueryFails
  <2>7. QueryResult => Quiet
    BY DEF QueryResult, Quiet
  <2>8. LoginFrontConnected \/ LoginAuthenticateOk \/ LoginLoginOk => Quiet
    <3>1. ASSUME NEW kind, NEW ids, NEW replies, LoginRequest(kind, ids, replies),
                 \A m \in replies : m.type = "AccountState"
          PROVE  Quiet
      BY <1>1, <3>1 DEF LoginRequest, Quiet
    <3> QED
      BY <1>1, <3>1 DEF LoginFrontConnected, LoginAuthenticateOk, LoginLoginOk
  <2> QED
    BY <1>9, <2>1, <2>2, <2>3, <2>4, <2>5, <2>6, <2>7, <2>8 DEF EventStep, Quiet
<1> QED
  BY <1>6, <1>7, <1>8, <1>9 DEF Next, ActorStep, Quiet

(* A pushed report goes to the client its order belongs to. *)
LEMMA PushReachesOwner ==
    ASSUME DistinctOwners, TypeOK, RoutingInv, PushReport, events # <<>>, UNCHANGED book
    PROVE  ReportsReachOwner'
<1> DEFINE e == Head(events)
<1>1. /\ e \in BookedEvents
      /\ e.type \in {"OrderReturn", "TradeReturn"}
  BY TakeType DEF RoutingInv, PushReport
<1>2. e.ref \in Refs /\ e.order \in DOMAIN book /\ book[e.order].ref = e.ref
  BY <1>1, EventFields DEF BookedEvents, Booked
<1>3. book[e.order] \in Order /\ Owns(book[e.order].client, e.ref)
  BY <1>2 DEF RoutingInv, OwnOrders
<1>4. \A m \in sent' : m.to = order_registry[e.ref] /\ m.to # NoClient /\ m.order = e.order
  BY DEF PushReport, Push
<1>5. ASSUME NEW m \in sent' PROVE m.to = book[m.order].client
  <2>1. m.to \in Clients /\ Owns(m.to, e.ref)
    BY <1>2, <1>4 DEF TypeOK, ActorTypeOK, RoutingInv
  <2>2. book[e.order].client \in Clients
    BY <1>3 DEF Order
  <2>3. m.to = book[e.order].client
    BY <1>2, <1>3, <2>1, <2>2 DEF DistinctOwners
  <2> QED
    BY <1>4, <2>3
<1> QED
  BY <1>5 DEF ReportsReachOwner

(* Reports reach the client that placed the order, as push_order_report    *)
(* and push_trade_report intend, as long as no two clients use ids that    *)
(* normalize_order_ref maps to one OrderRef: whatever the interleaving of  *)
(* commands, callbacks, link failures, logouts and logins.                 *)
THEOREM ReportsCorrect == ASSUME DistinctOwners PROVE Spec => []ReportsReachOwner
<1> DEFINE IInv == TypeOK /\ RoutingInv /\ ReportsReachOwner
<1>1. Init => IInv
  BY TypeInit, RoutingInit DEF Init, ReportsReachOwner
<1>2. IInv /\ [Next]_vars => IInv'
  <2>1. ASSUME IInv, Next PROVE IInv'
    <3>1. TypeOK'
      BY <2>1, TypeClient, TypeCommand, TypeEvent, TypeFront DEF Next, ActorStep
    <3>2. RoutingInv'
      BY <2>1, <3>1, RoutingStep
    <3>3. ReportsReachOwner'
      BY <2>1, SentReports, PushReachesOwner DEF ReportsReachOwner
    <3> QED
      BY <3>1, <3>2, <3>3
  <2>2. ASSUME IInv, UNCHANGED vars PROVE IInv'
    <3>1. TypeOK'
      BY <2>2, TypeFrame DEF vars, TypeOK
    <3>2. RoutingInv'
      BY <2>2 DEF vars, gatewayVars, actorVars, sessionVars, frontVars, RoutingInv,
                  BookedEvents, Booked
    <3>3. ReportsReachOwner'
      BY <2>2 DEF vars, frontVars, ReportsReachOwner
    <3> QED
      BY <3>1, <3>2, <3>3
  <2> QED
    BY <2>1, <2>2
<1>3. IInv => ReportsReachOwner
  OBVIOUS
<1> QED
  BY <1>1, <1>2, <1>3, PTL DEF Spec
===============================================================================
